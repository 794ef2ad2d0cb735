----------------------------- MODULE ListProofs -----------------------------
(***************************************************************************)
(* Proofs about lists.  RestSession and the two components it is made of:  *)
(* for any range, filter, window and limits, wherever DynamoDB ends its    *)
(* pages, and whatever the streams of the requests report in between.      *)
(* ListRequest, at the end: for any table, indices and requests.           *)
(***************************************************************************)
EXTENDS RestSession, ListRequest, FiniteSetTheorems, SequenceTheorems, WellFoundedInduction, TLAPS

-----------------------------------------------------------------------------
\* Counting matches.

LEMMA Rows == N \in Nat /\ Matching \subseteq 1..N
  BY WindowAssumption DEF WindowAssumption

\* The matches up to a row.
Until(row) == {i \in 1..row : Match(i)}

LEMMA UntilFinite ==
    ASSUME NEW p \in Nat
    PROVE  IsFiniteSet(Until(p)) /\ Cardinality(Until(p)) \in Nat
  <1>1. IsFiniteSet(1..p)
    BY FS_Interval
  <1>2. Until(p) \in SUBSET (1..p)
    BY DEF Until
  <1> QED
    BY <1>1, <1>2, FS_Subset, FS_CardinalityType

\* There are no more matches than rows, and both are counted from 0.
LEMMA Growth ==
    ASSUME NEW a \in 0..N, NEW b \in 0..N, a <= b
    PROVE  /\ UpTo(a) \in Nat /\ UpTo(b) \in Nat /\ UpTo(0) = 0
           /\ UpTo(a) <= UpTo(b) /\ UpTo(b) - UpTo(a) <= b - a
  <1>1. a \in Nat /\ b \in Nat
    BY Rows
  <1>2. /\ IsFiniteSet(Until(a)) /\ Cardinality(Until(a)) \in Nat
        /\ IsFiniteSet(Until(b)) /\ Cardinality(Until(b)) \in Nat
    BY <1>1, UntilFinite
  <1>3. UpTo(0) = 0
    <2>1. Until(0) = {}
      BY DEF Until
    <2> QED
      BY <2>1, FS_EmptySet DEF UpTo, Until
  <1>4. Cardinality(Until(a)) <= Cardinality(Until(b))
    <2>1. Until(a) \in SUBSET Until(b)
      BY <1>1 DEF Until
    <2> QED
      BY <2>1, <1>2, FS_Subset
  <1>5. Cardinality(Until(b)) <= Cardinality(Until(a)) + (b - a)
    <2> DEFINE new == (a + 1)..b
    <2>1. IsFiniteSet(new) /\ Cardinality(new) = b - a
      <3>1. a + 1 \in Int /\ b \in Int
        BY <1>1
      <3>2. IsFiniteSet(new) /\ Cardinality(new) = IF a + 1 > b THEN 0 ELSE b - (a + 1) + 1
        BY <3>1, FS_Interval
      <3> QED
        BY <1>1, <3>1, <3>2
    <2>2. Until(a) \cap new = {}
      BY <1>1 DEF Until
    <2>3. Until(b) \in SUBSET (Until(a) \cup new)
      BY <1>1 DEF Until
    <2> HIDE DEF new
    <2>4. /\ IsFiniteSet(Until(a) \cup new)
          /\ Cardinality(Until(a) \cup new) =
                Cardinality(Until(a)) + Cardinality(new) - Cardinality(Until(a) \cap new)
      BY <1>2, <2>1, FS_Union
    <2>5. Cardinality(Until(a) \cup new) = Cardinality(Until(a)) + (b - a)
      BY <1>1, <1>2, <2>1, <2>2, <2>4, FS_EmptySet
    <2>6. Cardinality(Until(b)) <= Cardinality(Until(a) \cup new)
      BY <2>3, <2>4, FS_Subset
    <2> QED
      BY <2>5, <2>6
  <1>6. UpTo(a) = Cardinality(Until(a)) /\ UpTo(b) = Cardinality(Until(b))
    BY DEF UpTo, Until
  <1> QED
    BY <1>1, <1>2, <1>3, <1>4, <1>5, <1>6

\* A row adds one to the count when it matches, and nothing otherwise.
LEMMA OneMore ==
    ASSUME NEW p \in 1..N
    PROVE  UpTo(p) = IF Match(p) THEN UpTo(p - 1) + 1 ELSE UpTo(p - 1)
  <1>1. p - 1 \in Nat /\ p \in Nat
    BY Rows
  <1>2. IsFiniteSet(Until(p - 1))
    BY <1>1, UntilFinite
  <1>3. p \notin Until(p - 1)
    BY <1>1 DEF Until
  <1>4. Until(p) = IF Match(p) THEN Until(p - 1) \cup {p} ELSE Until(p - 1)
    BY <1>1 DEF Until
  <1> QED
    BY <1>2, <1>3, <1>4, FS_AddElement DEF UpTo, Until

\* Of two matches the later one has the higher count.
LEMMA CountsRise ==
    ASSUME NEW i \in 1..N, NEW j \in 1..N, Match(j), i < j
    PROVE  UpTo(i) < UpTo(j)
  <1>1. UpTo(j) = UpTo(j - 1) + 1 /\ UpTo(i) <= UpTo(j - 1)
    BY Rows, OneMore, Growth
  <1>2. UpTo(j - 1) \in Nat /\ UpTo(i) \in Nat
    BY Rows, Growth
  <1> QED
    BY <1>1, <1>2

\* There is a k-th match for every k up to the number of matches.
LEMMA KthMatch ==
    ASSUME NEW k \in 1..UpTo(N)
    PROVE  \E i \in 1..N : Match(i) /\ UpTo(i) = k
  <1> DEFINE reached == {p \in 0..N : k <= UpTo(p)}
  <1>1. UpTo(N) \in Nat /\ UpTo(0) = 0 /\ N \in Nat
    BY Growth, Rows
  <1>2. reached \subseteq Nat /\ N \in reached
    BY <1>1
  <1>3. PICK p \in reached : \A q \in reached : ~(q < p)
    <2>1. \E p \in reached : \A q \in reached : ~(<<q, p>> \in OpToRel(<, Nat))
      BY <1>2, NatLessThanWellFounded, WFMin, Zenon
    <2> QED
      BY <1>2, <2>1 DEF OpToRel
  <1>4. p \in 1..N
    BY <1>1
  <1>7. UpTo(p - 1) \in Nat
    BY <1>1, <1>4, Growth
  <1>5. UpTo(p - 1) < k
    <2>1. p - 1 \notin reached
      BY <1>3, <1>4
    <2> QED
      BY <1>1, <1>4, <1>7, <2>1
  <1>6. UpTo(p) = IF Match(p) THEN UpTo(p - 1) + 1 ELSE UpTo(p - 1)
    BY <1>4, OneMore
  <1> QED
    BY <1>3, <1>4, <1>5, <1>6, <1>7

\* Matched lists every match once, in the order of the range.
LEMMA MatchedFacts ==
    /\ UpTo(N) \in Nat /\ Matched \in Seq(1..N) /\ Len(Matched) = UpTo(N)
    /\ \A k \in 1..UpTo(N) :
          Matched[k] \in 1..N /\ Match(Matched[k]) /\ UpTo(Matched[k]) = k
    /\ \A i \in 1..N : Match(i) => UpTo(i) \in 1..UpTo(N) /\ Matched[UpTo(i)] = i
    /\ \A k, l \in 1..UpTo(N) : k < l => Matched[k] < Matched[l]
  <1>1. UpTo(N) \in Nat /\ N \in Nat
    BY Growth, Rows
  <1>2. \A k \in 1..UpTo(N) :
          Matched[k] \in 1..N /\ Match(Matched[k]) /\ UpTo(Matched[k]) = k
    <2> SUFFICES ASSUME NEW k \in 1..UpTo(N)
                 PROVE  Matched[k] \in 1..N /\ Match(Matched[k]) /\ UpTo(Matched[k]) = k
      OBVIOUS
    <2>1. Matched[k] = CHOOSE i \in 1..N : Match(i) /\ UpTo(i) = k
      BY DEF Matched
    <2> QED
      BY <2>1, KthMatch
  <1>3. Matched \in [1..UpTo(N) -> 1..N]
    BY <1>2 DEF Matched
  <1>4. Matched \in Seq(1..N) /\ Len(Matched) = UpTo(N)
    BY <1>1, <1>3
  <1>5. \A i \in 1..N : Match(i) => UpTo(i) \in 1..UpTo(N) /\ Matched[UpTo(i)] = i
    <2> SUFFICES ASSUME NEW i \in 1..N, Match(i)
                 PROVE  UpTo(i) \in 1..UpTo(N) /\ Matched[UpTo(i)] = i
      OBVIOUS
    <2>1. UpTo(i) = UpTo(i - 1) + 1 /\ UpTo(i - 1) \in Nat /\ UpTo(i) <= UpTo(N)
      BY <1>1, OneMore, Growth
    <2>2. UpTo(i) \in 1..UpTo(N)
      BY <1>1, <2>1
    <2> DEFINE m == Matched[UpTo(i)]
    <2>3. m \in 1..N /\ Match(m) /\ UpTo(m) = UpTo(i)
      BY <1>2, <2>2
    <2> HIDE DEF m
    <2>4. ~(m < i) /\ ~(i < m)
      BY <1>1, <2>1, <2>3, CountsRise
    <2> QED
      BY <2>2, <2>3, <2>4 DEF m
  <1>6. \A k, l \in 1..UpTo(N) : k < l => Matched[k] < Matched[l]
    <2> SUFFICES ASSUME NEW k \in 1..UpTo(N), NEW l \in 1..UpTo(N), k < l
                 PROVE  Matched[k] < Matched[l]
      OBVIOUS
    <2> DEFINE i == Matched[k]  j == Matched[l]
    <2>1. i \in 1..N /\ j \in 1..N /\ UpTo(i) = k /\ UpTo(j) = l
      BY <1>2
    <2> HIDE DEF i, j
    <2>2. ~(j <= i)
      BY <1>1, <2>1, Growth
    <2> QED
      BY <2>1, <2>2 DEF i, j
  <1> QED
    BY <1>1, <1>2, <1>4, <1>5, <1>6

-----------------------------------------------------------------------------
\* Windows of the matches.

\* The matches number a + 1 to b.
Stretch(a, b) == SubSeq(Matched, a + 1, b)

\* What of the window lies among the first `count` matches.
Target(count) == Stretch(offset, Lesser(offset + limit, count))

WindowTypes ==
    /\ filtered \in BOOLEAN /\ needTotal \in BOOLEAN /\ offset \in Int /\ limit \in Int
    /\ cut \in [0..N -> 0..N] /\ (filtered => cut \in Cuts)
    /\ pos \in 0..N

\* How far each loop has come, told by the matches up to `pos`.  A COUNT page that
\* overshoots the offset is left to the listing, which meets the same page again.
Overshot ==
    /\ filtered /\ pos < N
    /\ skipped = UpTo(pos) /\ skipped < offset /\ result = <<>>
    /\ offset < UpTo(Lesser(cut[pos], pos + N))

Skipping == Asked /\ skipped = UpTo(pos) /\ total = UpTo(pos) /\ result = <<>>

Collecting ==
    /\ Asked /\ total = UpTo(pos)
    /\ \/ skipped = offset /\ offset <= UpTo(pos) /\ result = Target(UpTo(pos))
       \/ Overshot

Whole == result = IF Asked THEN Target(UpTo(N)) ELSE <<>>

WindowInv ==
    /\ WindowTypes
    /\ \/ step = "count" /\ Skipping /\ skipped <= offset
       \/ step = "skip" /\ Skipping /\ skipped < offset /\ ~filtered
       \/ step = "collect" /\ Collecting
       \/ step = "rest" /\ Whole /\ total = UpTo(pos) /\ skipped \in Nat
       \/ step = "done" /\ Whole /\ total \in 0..UpTo(N) /\ skipped \in Nat
                        /\ (needTotal => total = UpTo(N))

-----------------------------------------------------------------------------
LEMMA StretchFacts ==
    ASSUME NEW a \in Nat, NEW b \in Nat, b <= UpTo(N)
    PROVE  /\ Stretch(a, b) \in Seq(1..N)
           /\ Len(Stretch(a, b)) = IF a < b THEN b - a ELSE 0
           /\ \A k \in 1..(b - a) : Stretch(a, b)[k] = Matched[a + k]
           /\ b <= a => Stretch(a, b) = <<>>
  <1>1. a + 1 \in Int /\ b \in Int /\ \A i \in (a + 1)..b : Matched[i] \in 1..N
    BY MatchedFacts
  <1>2. /\ SubSeq(Matched, a + 1, b) \in Seq(1..N)
        /\ Len(SubSeq(Matched, a + 1, b)) = IF a + 1 <= b THEN b - (a + 1) + 1 ELSE 0
        /\ \A k \in 1..(b - (a + 1) + 1) : SubSeq(Matched, a + 1, b)[k] = Matched[a + 1 + k - 1]
    BY <1>1, SubSeqProperties
  <1>3. b <= a => SubSeq(Matched, a + 1, b) = <<>>
    BY <1>1, SubSeqEmpty
  <1>4. \A k \in 1..(b - a) : k \in 1..(b - (a + 1) + 1) /\ a + 1 + k - 1 = a + k
    OBVIOUS
  <1> QED
    BY <1>2, <1>3, <1>4 DEF Stretch

\* A slice of a stretch is a stretch.
LEMMA SliceOfStretch ==
    ASSUME NEW a \in Nat, NEW b \in Nat, a <= b, b <= UpTo(N),
           NEW first \in Nat, NEW many \in Nat
    PROVE  Slice(Stretch(a, b), first, first + many) = Stretch(a + first, Lesser(a + first + many, b))
  <1> DEFINE s == Stretch(a, b)
             to == Lesser(first + many, b - a)
             end == Lesser(a + first + many, b)
             t == Stretch(a + first, end)
  <1>1. s \in Seq(1..N) /\ Len(s) = b - a /\ \A k \in 1..(b - a) : s[k] = Matched[a + k]
    BY StretchFacts
  <1>2. to \in Nat /\ to <= b - a /\ end \in Nat /\ end <= b /\ end = a + to
    BY DEF Lesser
  <1>3. Slice(s, first, first + many) = SubSeq(s, first + 1, to)
    BY <1>1 DEF Slice
  <1>4. /\ t \in Seq(1..N) /\ Len(t) = IF a + first < end THEN end - (a + first) ELSE 0
        /\ \A k \in 1..(end - (a + first)) : t[k] = Matched[a + first + k]
    <2>1. a + first \in Nat /\ end \in Nat /\ end <= UpTo(N)
      BY <1>2, MatchedFacts
    <2> HIDE DEF end
    <2> QED
      BY <2>1, StretchFacts
  <1> HIDE DEF s, to, end, t
  <1>5. \A i \in (first + 1)..to : s[i] \in 1..N
    <2>1. \A i \in (first + 1)..to : i \in 1..Len(s)
      BY <1>1, <1>2
    <2> QED
      BY <1>1, <2>1, ElementOfSeq
  <1>6. /\ SubSeq(s, first + 1, to) \in Seq(1..N)
        /\ Len(SubSeq(s, first + 1, to)) = IF first + 1 <= to THEN to - (first + 1) + 1 ELSE 0
        /\ \A k \in 1..(to - (first + 1) + 1) : SubSeq(s, first + 1, to)[k] = s[first + 1 + k - 1]
    <2>1. first + 1 \in Int /\ to \in Int
      BY <1>2
    <2> QED
      BY <1>5, <2>1, SubSeqProperties
  <1>7. Len(SubSeq(s, first + 1, to)) = Len(t)
    BY <1>2, <1>4, <1>6
  <1>8. \A k \in 1..Len(t) : SubSeq(s, first + 1, to)[k] = t[k]
    <2> SUFFICES ASSUME NEW k \in 1..Len(t) PROVE SubSeq(s, first + 1, to)[k] = t[k]
      OBVIOUS
    <2>1. k \in 1..(end - (a + first)) /\ k \in 1..(to - (first + 1) + 1) /\ first + k \in 1..(b - a)
      BY <1>2, <1>4
    <2>2. t[k] = Matched[a + first + k]
      BY <1>4, <2>1
    <2>3. SubSeq(s, first + 1, to)[k] = s[first + k]
      <3>1. first + 1 + k - 1 = first + k
        BY <2>1
      <3> QED
        BY <1>6, <2>1, <3>1
    <2>4. s[first + k] = Matched[a + (first + k)] /\ a + (first + k) = a + first + k
      BY <1>1, <2>1
    <2> QED
      BY <2>2, <2>3, <2>4
  <1>9. SubSeq(s, first + 1, to) = t
    BY <1>4, <1>6, <1>7, <1>8, SeqEqual
  <1> QED
    BY <1>3, <1>9 DEF s, t, end

\* Stretches that adjoin make one.
LEMMA JoinStretches ==
    ASSUME NEW a \in Nat, NEW b \in Nat, NEW c \in Nat, a <= b, b <= c, c <= UpTo(N)
    PROVE  Stretch(a, b) \o Stretch(b, c) = Stretch(a, c)
  <1>1. /\ Matched \in Seq(1..N) /\ a + 1 \in 1..(Len(Matched) + 1)
        /\ b \in ((a + 1) - 1)..Len(Matched) /\ c \in b..Len(Matched)
    BY MatchedFacts
  <1> QED
    BY <1>1, ConcatAdjacentSubSeq DEF Stretch

\* What a page adds: the matches between where it starts and where it ends.
LEMMA PageFacts ==
    ASSUME WindowTypes, NEW most \in Nat \ {0},
           NEW end \in Ends(pos, most), NEW more \in More(pos, end)
    PROVE  /\ end \in 0..N /\ more \in BOOLEAN
           /\ UpTo(pos) \in Nat /\ UpTo(end) \in Nat /\ UpTo(N) \in Nat
           /\ UpTo(pos) <= UpTo(end) /\ UpTo(end) <= UpTo(N)
           /\ Matches(pos, end) = Stretch(UpTo(pos), UpTo(end))
           /\ Len(Matches(pos, end)) = UpTo(end) - UpTo(pos)
           /\ ~filtered => UpTo(end) - UpTo(pos) <= most
           /\ ~more => end = N
  <1>1. pos \in 0..N /\ N \in Nat
    BY Rows DEF WindowTypes
  <1>2. end \in 0..N /\ pos <= end /\ (~filtered => end - pos <= most)
    <2>1. CASE pos = N
      BY <1>1, <2>1 DEF Ends
    <2>2. CASE pos # N /\ filtered
      <3>1. cut[pos] \in 1..N /\ pos < cut[pos]
        BY <1>1, <2>2 DEF WindowTypes, Cuts
      <3> QED
        BY <1>1, <2>2, <3>1 DEF Ends, Lesser
    <2>3. CASE pos # N /\ ~filtered
      BY <1>1, <2>3 DEF Ends, Lesser
    <2> QED
      BY <2>1, <2>2, <2>3
  <1>3. more \in BOOLEAN /\ (~more => end = N)
    <2>1. CASE end < N
      BY <2>1 DEF More
    <2>2. CASE ~(end < N)
      <3>1. more \in BOOLEAN
        BY <2>2, Zenon DEF More
      <3> QED
        BY <1>1, <1>2, <2>2, <3>1
    <2> QED
      BY <2>1, <2>2
  <1>4. /\ UpTo(pos) \in Nat /\ UpTo(end) \in Nat /\ UpTo(N) \in Nat
        /\ UpTo(pos) <= UpTo(end) /\ UpTo(end) <= UpTo(N)
        /\ UpTo(end) - UpTo(pos) <= end - pos
    BY <1>1, <1>2, Growth
  <1>5. Matches(pos, end) = Stretch(UpTo(pos), UpTo(end))
    BY DEF Matches, Stretch
  <1>6. Len(Matches(pos, end)) = UpTo(end) - UpTo(pos)
    <2> DEFINE u == UpTo(pos)  v == UpTo(end)
    <2>1. u \in Nat /\ v \in Nat /\ v <= UpTo(N) /\ u <= v
      BY <1>4
    <2> HIDE DEF u, v
    <2>2. Len(Stretch(u, v)) = IF u < v THEN v - u ELSE 0
      BY <2>1, StretchFacts, Zenon
    <2>3. Len(Stretch(u, v)) = v - u
      BY <2>1, <2>2
    <2> QED
      BY <1>5, <2>3 DEF u, v
  <1> QED
    BY <1>1, <1>2, <1>3, <1>4, <1>5, <1>6

\* The matches stay what they are while the filter does.
LEMMA MatchesKept ==
    ASSUME filtered' = filtered
    PROVE  Matched' = Matched /\ \A p : UpTo(p)' = UpTo(p)
  BY DEF Matched, UpTo, Match

\* What of the window lies among the first `u` matches is empty, or ends at its limit
\* or at the u-th match.
LEMMA TargetFacts ==
    ASSUME WindowTypes, Asked, NEW u \in Nat, u <= UpTo(N)
    PROVE  /\ Target(u) \in Seq(1..N)
           /\ offset <= u => Len(Target(u)) = Lesser(offset + limit, u) - offset
           /\ u <= offset => Target(u) = <<>>
           /\ offset + limit <= u => Target(u) = Target(UpTo(N))
  <1> DEFINE end == Lesser(offset + limit, u)
  <1>1. offset \in Nat /\ limit \in Nat /\ limit > 0 /\ UpTo(N) \in Nat
    BY MatchedFacts DEF Asked, WindowTypes
  <1>2. end \in Nat /\ end <= u /\ (offset <= u => offset <= end) /\ (u <= offset => end <= offset)
    BY <1>1 DEF Lesser
  <1>3. end <= UpTo(N)
    BY <1>1, <1>2
  <1>4. offset + limit <= u => end = Lesser(offset + limit, UpTo(N))
    BY <1>1 DEF Lesser
  <1>5. Target(u) = Stretch(offset, end)
    BY DEF Target
  <1> HIDE DEF end
  <1>6. /\ Stretch(offset, end) \in Seq(1..N)
        /\ Len(Stretch(offset, end)) = IF offset < end THEN end - offset ELSE 0
        /\ end <= offset => Stretch(offset, end) = <<>>
    BY <1>1, <1>2, <1>3, StretchFacts, Zenon
  <1>7. offset <= u => Len(Target(u)) = end - offset
    BY <1>1, <1>2, <1>5, <1>6
  <1>8. offset + limit <= u => Target(u) = Target(UpTo(N))
    BY <1>4, <1>5 DEF Target
  <1> QED
    BY <1>2, <1>5, <1>6, <1>7, <1>8 DEF end

\* What the invariant speaks of, after a step that keeps the call's inputs.
LEMMA AfterPage ==
    ASSUME WindowTypes, Fixed, NEW end \in 0..N, pos' = end
    PROVE  /\ WindowTypes' /\ Asked' = Asked
           /\ UpTo(pos)' = UpTo(end) /\ UpTo(N)' = UpTo(N)
           /\ Target(UpTo(pos))' = Target(UpTo(end)) /\ Target(UpTo(N))' = Target(UpTo(N))
  <1>1. UNCHANGED <<filtered, offset, limit, needTotal, cut>>
    BY DEF Fixed
  <1>2. WindowTypes' /\ Asked' = Asked
    BY <1>1 DEF WindowTypes, Asked, Cuts
  <1>3. UpTo(pos)' = UpTo(end) /\ UpTo(N)' = UpTo(N)
    BY <1>1, MatchesKept
  <1>4. Target(UpTo(pos))' = Target(UpTo(end)) /\ Target(UpTo(N))' = Target(UpTo(N))
    BY <1>1, <1>3, MatchesKept DEF Target, Stretch, Lesser
  <1> QED
    BY <1>2, <1>3, <1>4

\* A page behind which nothing is left, while nothing of the window was found, or
\* all of it: the call is done.
LEMMA LastPage ==
    ASSUME WindowTypes, Fixed, Asked, pos' = N, step' = "done", total' = UpTo(N),
           skipped' \in Nat, result' = Target(UpTo(N))
    PROVE  WindowInv'
  <1>1. N \in 0..N /\ UpTo(N) \in Nat
    BY Rows, Growth
  <1>2. /\ WindowTypes' /\ Asked' = Asked /\ UpTo(N)' = UpTo(N)
        /\ Target(UpTo(N))' = Target(UpTo(N))
    BY <1>1, AfterPage
  <1>3. total' \in 0..(UpTo(N))'
    BY <1>1, <1>2
  <1> QED
    BY <1>2, <1>3 DEF WindowInv, Whole

LEMMA CountOffsetStep ==
    ASSUME WindowInv, CountOffset
    PROVE  WindowInv'
  <1>1. /\ step = "count" /\ ~filtered /\ Fixed /\ result' = result
        /\ WindowTypes /\ Skipping /\ skipped <= offset
    BY DEF CountOffset, WindowInv
  <1>2. offset \in Nat /\ skipped \in Nat /\ MinLimit \in Nat \ {0} /\ pos \in 0..N /\ UpTo(pos) \in Nat
        /\ UpTo(pos) <= UpTo(N) /\ UpTo(N) \in Nat
    BY <1>1, Rows, Growth, WindowAssumption DEF Skipping, Asked, WindowTypes, WindowAssumption
  <1>3. CASE offset - skipped > MinLimit
    <2>0. PICK end \in Ends(pos, offset - skipped) : \E more \in More(pos, end) :
            /\ total' = total + Len(Matches(pos, end))
            /\ skipped' = skipped + Len(Matches(pos, end))
            /\ Advance(end, more, "count")
      BY <1>1, <1>3 DEF CountOffset
    <2>1. PICK more \in More(pos, end) :
            /\ total' = total + Len(Matches(pos, end))
            /\ skipped' = skipped + Len(Matches(pos, end))
            /\ Advance(end, more, "count")
      BY <2>0
    <2>2. offset - skipped \in Nat \ {0}
      BY <1>2, <1>3
    <2>3. /\ end \in 0..N /\ UpTo(end) \in Nat /\ UpTo(end) <= UpTo(N) /\ UpTo(pos) <= UpTo(end)
          /\ Len(Matches(pos, end)) = UpTo(end) - UpTo(pos)
          /\ UpTo(end) - UpTo(pos) <= offset - skipped /\ (~more => end = N)
      BY <1>1, <2>2, PageFacts
    <2>4. total' = UpTo(end) /\ skipped' = UpTo(end) /\ UpTo(end) <= offset
      BY <1>1, <1>2, <2>1, <2>3 DEF Skipping
    <2>5. pos' = end /\ step' = IF more THEN "count" ELSE "done"
      BY <2>1 DEF Advance
    <2>6. /\ WindowTypes' /\ Asked' = Asked /\ UpTo(pos)' = UpTo(end)
      BY <1>1, <2>3, <2>5, AfterPage
    <2>7. CASE more
      <3>1. offset' = offset
        BY <1>1 DEF Fixed
      <3> QED
        BY <1>1, <2>4, <2>5, <2>6, <2>7, <3>1 DEF WindowInv, Skipping
    <2>8. CASE ~more
      <3>1. Target(UpTo(N)) = <<>>
        BY <1>1, <1>2, <2>3, <2>4, <2>8, TargetFacts DEF Skipping
      <3> QED
        BY <1>1, <2>3, <2>4, <2>5, <2>8, <3>1, LastPage DEF Skipping
    <2> QED
      BY <2>7, <2>8
  <1>4. CASE ~(offset - skipped > MinLimit)
    <2>1. step' = (IF skipped < offset THEN "skip" ELSE "collect") /\ UNCHANGED <<pos, skipped, total>>
      BY <1>1, <1>4 DEF CountOffset
    <2>2. /\ WindowTypes' /\ Asked' = Asked /\ UpTo(pos)' = UpTo(pos)
          /\ Target(UpTo(pos))' = Target(UpTo(pos)) /\ offset' = offset /\ filtered' = filtered
      BY <1>1, <1>2, <2>1, AfterPage DEF Fixed
    <2>3. CASE skipped < offset
      BY <1>1, <2>1, <2>2, <2>3 DEF WindowInv, Skipping
    <2>4. CASE ~(skipped < offset)
      <3>1. skipped = offset /\ UpTo(pos) = offset
        BY <1>1, <1>2, <2>4 DEF Skipping
      <3>2. Target(UpTo(pos)) = <<>>
        BY <1>1, <1>2, <3>1, TargetFacts DEF Skipping
      <3>3. Collecting'
        BY <1>1, <1>2, <2>1, <2>2, <3>1, <3>2 DEF Collecting, Skipping
      <3> QED
        BY <2>1, <2>2, <2>4, <3>3 DEF WindowInv
    <2> QED
      BY <2>3, <2>4
  <1> QED
    BY <1>3, <1>4

\* The head of the window, cut out of the page it begins in.
LEMMA WindowOfPage ==
    ASSUME Asked, offset \in Int, limit \in Int, NEW u \in Nat, NEW v \in Nat, u <= v, v <= UpTo(N), u <= offset
    PROVE  Window(Stretch(u, v), offset - u) = Target(v)
  <1>1. offset - u \in Nat /\ limit \in Nat /\ offset - u + limit = (offset - u) + limit
    BY DEF Asked
  <1>2. Slice(Stretch(u, v), offset - u, (offset - u) + limit)
            = Stretch(u + (offset - u), Lesser(u + (offset - u) + limit, v))
    BY <1>1, SliceOfStretch
  <1>3. u + (offset - u) = offset
    OBVIOUS
  <1> QED
    BY <1>2, <1>3 DEF Window, Target

LEMMA SkipOffsetStep ==
    ASSUME WindowInv, SkipOffset
    PROVE  WindowInv'
  <1>1. /\ step = "skip" /\ ~filtered /\ Fixed
        /\ WindowTypes /\ Skipping /\ skipped < offset
    BY DEF SkipOffset, WindowInv
  <1>2. /\ offset \in Nat /\ limit \in Nat /\ skipped \in Nat /\ MinLimit \in Nat \ {0} /\ pos \in 0..N
        /\ UpTo(pos) \in Nat /\ UpTo(pos) <= UpTo(N) /\ UpTo(N) \in Nat
    BY <1>1, Rows, Growth, WindowAssumption DEF Skipping, Asked, WindowTypes, WindowAssumption
  <1>3. PICK end \in Ends(pos, MinLimit) : \E more \in More(pos, end) :
          LET block == Matches(pos, end)
              found == offset - skipped < Len(block)
          IN  /\ total' = total + Len(block)
              /\ result' = IF found THEN Window(block, offset - skipped) ELSE result
              /\ skipped' = IF found THEN offset ELSE skipped + Len(block)
              /\ Advance(end, more, IF skipped' < offset THEN "skip" ELSE "collect")
    BY DEF SkipOffset
  <1> DEFINE block == Matches(pos, end)
             found == offset - skipped < Len(block)
  <1>4. PICK more \in More(pos, end) :
          /\ total' = total + Len(block)
          /\ result' = IF found THEN Window(block, offset - skipped) ELSE result
          /\ skipped' = IF found THEN offset ELSE skipped + Len(block)
          /\ Advance(end, more, IF skipped' < offset THEN "skip" ELSE "collect")
    BY <1>3
  <1>5. /\ end \in 0..N /\ UpTo(end) \in Nat /\ UpTo(end) <= UpTo(N) /\ UpTo(pos) <= UpTo(end)
        /\ block = Stretch(UpTo(pos), UpTo(end)) /\ Len(block) = UpTo(end) - UpTo(pos)
        /\ (~more => end = N)
    BY <1>1, <1>2, PageFacts
  <1> HIDE DEF block
  <1>6. /\ pos' = end /\ total' = UpTo(end)
        /\ step' = IF more THEN IF skipped' < offset THEN "skip" ELSE "collect" ELSE "done"
    BY <1>1, <1>2, <1>4, <1>5 DEF Advance, Skipping
  <1>7. /\ WindowTypes' /\ Asked' = Asked /\ UpTo(pos)' = UpTo(end)
        /\ Target(UpTo(pos))' = Target(UpTo(end)) /\ offset' = offset /\ filtered' = filtered
    BY <1>1, <1>5, <1>6, AfterPage DEF Fixed
  <1>8. Asked
    BY <1>1 DEF Skipping
  <1>9. CASE found
    <2>1. skipped' = offset /\ offset <= UpTo(end) /\ UpTo(pos) = skipped
      BY <1>1, <1>2, <1>4, <1>5, <1>9 DEF Skipping
    <2>2. result' = Target(UpTo(end))
      <3>1. Window(Stretch(UpTo(pos), UpTo(end)), offset - UpTo(pos)) = Target(UpTo(end))
        <4>1. offset \in Int /\ limit \in Int /\ UpTo(pos) <= offset
          BY <1>1, <1>2 DEF Skipping
        <4> QED
          BY <1>2, <1>5, <1>8, <4>1, WindowOfPage, Zenon
      <3> QED
        BY <1>4, <1>5, <1>9, <2>1, <3>1
    <2>3. CASE more
      BY <1>2, <1>6, <1>7, <1>8, <2>1, <2>2, <2>3 DEF WindowInv, Collecting
    <2>4. CASE ~more
      BY <1>1, <1>2, <1>5, <1>6, <1>8, <2>1, <2>2, <2>4, LastPage
    <2> QED
      BY <2>3, <2>4
  <1>10. CASE ~found
    <2>1. skipped' = UpTo(end) /\ UpTo(end) <= offset /\ result' = <<>>
      BY <1>1, <1>2, <1>4, <1>5, <1>10 DEF Skipping
    <2>2. Target(UpTo(end)) = <<>>
      BY <1>1, <1>5, <1>8, <2>1, TargetFacts
    <2>3. CASE more /\ skipped' < offset
      BY <1>1, <1>6, <1>7, <1>8, <2>1, <2>3 DEF WindowInv, Skipping
    <2>4. CASE more /\ ~(skipped' < offset)
      <3>1. skipped' = offset
        BY <1>2, <1>5, <2>1, <2>4
      <3> QED
        BY <1>2, <1>6, <1>7, <1>8, <2>1, <2>2, <2>4, <3>1 DEF WindowInv, Collecting
    <2>5. CASE ~more
      BY <1>1, <1>5, <1>6, <1>8, <2>1, <2>2, <2>5, LastPage
    <2> QED
      BY <2>3, <2>4, <2>5
  <1> QED
    BY <1>9, <1>10

LEMMA CountFilteredStep ==
    ASSUME WindowInv, CountFiltered
    PROVE  WindowInv'
  <1>1. /\ step = "count" /\ filtered /\ Fixed /\ result' = result
        /\ WindowTypes /\ Skipping /\ skipped <= offset
    BY DEF CountFiltered, WindowInv
  <1>2. /\ offset \in Nat /\ skipped \in Nat /\ pos \in 0..N /\ UpTo(pos) \in Nat
        /\ UpTo(pos) <= UpTo(N) /\ UpTo(N) \in Nat /\ N \in Nat /\ Asked
    BY <1>1, Rows, Growth DEF Skipping, Asked, WindowTypes
  <1>3. CASE skipped < offset
    <2>1. PICK end \in Ends(pos, N) : \E more \in More(pos, end) :
            LET n == Len(Matches(pos, end))
            IN  /\ total' = total + Overshoot(n)
                /\ IF skipped + n > offset
                   THEN /\ step' = "collect"
                        /\ UNCHANGED <<pos, skipped>>
                   ELSE /\ skipped' = skipped + n
                        /\ Advance(end, more, "count")
      BY <1>1, <1>3 DEF CountFiltered
    <2> DEFINE n == Len(Matches(pos, end))
    <2>2. PICK more \in More(pos, end) :
            /\ total' = total + Overshoot(n)
            /\ IF skipped + n > offset
               THEN /\ step' = "collect"
                    /\ UNCHANGED <<pos, skipped>>
               ELSE /\ skipped' = skipped + n
                    /\ Advance(end, more, "count")
      BY <2>1
    <2>3. CASE N = 0
      <3>1. pos = 0 /\ end = 0 /\ more = FALSE
        BY <1>2, <2>1, <2>2, <2>3 DEF Ends, More
      <3>2. n = 0
        <4>1. UpTo(0) = 0 /\ Matches(0, 0) = Stretch(0, 0)
          BY <1>2, Growth DEF Matches, Stretch
        <4>2. Len(Stretch(0, 0)) = 0
          BY <1>2, StretchFacts
        <4> QED
          BY <3>1, <4>1, <4>2
      <3> HIDE DEF n
      <3>3. UpTo(N) = UpTo(pos)
        BY <2>3, <3>1
      <3>4. /\ skipped' = UpTo(N) /\ total' = UpTo(N) /\ pos' = N /\ step' = "done"
        BY <1>1, <1>2, <1>3, <2>2, <2>3, <3>1, <3>2, <3>3 DEF Skipping, Overshoot, Advance
      <3>5. Target(UpTo(N)) = <<>>
        BY <1>1, <1>2, <3>3, TargetFacts DEF Skipping
      <3> QED
        BY <1>1, <1>2, <3>4, <3>5, LastPage DEF Skipping
    <2>4. CASE N # 0
      <3>1. /\ end \in 0..N /\ UpTo(end) \in Nat /\ UpTo(end) <= UpTo(N) /\ UpTo(pos) <= UpTo(end)
            /\ n = UpTo(end) - UpTo(pos) /\ (~more => end = N)
        BY <1>1, <1>2, <2>4, PageFacts
      <3> HIDE DEF n
      <3>2. CASE skipped + n > offset
        <4>1. step' = "collect" /\ UNCHANGED <<pos, skipped, total>>
          BY <1>1, <1>2, <2>2, <3>2 DEF Overshoot, Skipping
        <4>2. /\ WindowTypes' /\ Asked' = Asked /\ UpTo(pos)' = UpTo(pos)
              /\ offset' = offset /\ filtered' = filtered /\ cut' = cut
          BY <1>1, <1>2, <4>1, AfterPage DEF Fixed
        <4>3. pos # N
          BY <1>1, <1>2, <3>1, <3>2 DEF Ends, Skipping
        <4>4. end = Lesser(cut[pos], pos + N)
          BY <1>1, <4>3 DEF Ends
        <4>5. UpTo(Lesser(cut[pos], pos + N))' = UpTo(Lesser(cut[pos], pos + N))
          BY <4>1, <4>2, MatchesKept DEF Lesser
        <4>6. offset < UpTo(end)
          BY <1>1, <1>2, <3>1, <3>2 DEF Skipping
        <4>7. Overshot'
          BY <1>1, <1>2, <1>3, <4>1, <4>2, <4>3, <4>4, <4>5, <4>6 DEF Overshot, Skipping
        <4>8. total' = UpTo(pos)'
          BY <1>1, <4>1, <4>2 DEF Skipping
        <4> QED
          BY <1>2, <4>1, <4>2, <4>7, <4>8 DEF WindowInv, Collecting
      <3>3. CASE ~(skipped + n > offset)
        <4>1. /\ skipped' = UpTo(end) /\ total' = UpTo(end) /\ UpTo(end) <= offset
              /\ pos' = end /\ step' = IF more THEN "count" ELSE "done"
          BY <1>1, <1>2, <2>2, <3>1, <3>3 DEF Overshoot, Skipping, Advance
        <4>2. /\ WindowTypes' /\ Asked' = Asked /\ UpTo(pos)' = UpTo(end) /\ offset' = offset
          BY <1>1, <3>1, <4>1, AfterPage DEF Fixed
        <4>3. CASE more
          BY <1>1, <4>1, <4>2, <4>3 DEF WindowInv, Skipping
        <4>4. CASE ~more
          <5>1. Target(UpTo(N)) = <<>>
            BY <1>1, <1>2, <3>1, <4>1, <4>4, TargetFacts
          <5> QED
            BY <1>1, <1>2, <3>1, <4>1, <4>4, <5>1, LastPage DEF Skipping
        <4> QED
          BY <4>3, <4>4
      <3> QED
        BY <3>2, <3>3
    <2> QED
      BY <2>3, <2>4
  <1>4. CASE ~(skipped < offset)
    <2>1. step' = "collect" /\ UNCHANGED <<pos, skipped, total>>
      BY <1>1, <1>4 DEF CountFiltered
    <2>2. /\ WindowTypes' /\ Asked' = Asked /\ UpTo(pos)' = UpTo(pos)
          /\ Target(UpTo(pos))' = Target(UpTo(pos)) /\ offset' = offset
      BY <1>1, <1>2, <2>1, AfterPage DEF Fixed
    <2>3. skipped = offset /\ UpTo(pos) = offset
      BY <1>1, <1>2, <1>4 DEF Skipping
    <2>4. Target(UpTo(pos)) = <<>>
      BY <1>1, <1>2, <2>3, TargetFacts
    <2> QED
      BY <1>1, <1>2, <2>1, <2>2, <2>3, <2>4 DEF WindowInv, Collecting, Skipping
  <1> QED
    BY <1>3, <1>4

LEMMA CollectStep ==
    ASSUME WindowInv, Collect
    PROVE  WindowInv'
  <1>1. step = "collect" /\ Fixed /\ WindowTypes /\ Collecting
    BY DEF Collect, WindowInv
  <1>2. /\ offset \in Nat /\ limit \in Nat /\ limit > 0 /\ pos \in 0..N /\ UpTo(pos) \in Nat
        /\ UpTo(pos) <= UpTo(N) /\ UpTo(N) \in Nat /\ N \in Nat /\ Asked /\ total = UpTo(pos)
        /\ MinLimit \in Nat \ {0} /\ skipped \in Nat
    <2>1. Asked /\ total = UpTo(pos) /\ (skipped = offset \/ skipped = UpTo(pos))
      BY <1>1 DEF Collecting, Overshot
    <2>2. offset \in Nat /\ limit \in Nat /\ limit > 0 /\ pos \in 0..N
      BY <1>1, <2>1 DEF Asked, WindowTypes
    <2>3. N \in 0..N /\ N \in Nat /\ pos <= N
      BY <2>2, Rows
    <2>4. UpTo(pos) \in Nat /\ UpTo(pos) <= UpTo(N) /\ UpTo(N) \in Nat
      BY <2>2, <2>3, Growth
    <2>5. MinLimit \in Nat \ {0}
      BY WindowAssumption DEF WindowAssumption
    <2> QED
      BY <2>1, <2>2, <2>3, <2>4, <2>5
  <1>3. CASE Len(result) < limit
    <2>1. PICK end \in Ends(pos, Ask) : \E more \in More(pos, end) :
            LET block == Matches(pos, end)
                head == block # <<>> /\ skipped < offset
            IN  /\ total' = total + Len(block)
                /\ result' = IF head THEN Window(block, offset - skipped)
                             ELSE result \o Room(block)
                /\ skipped' = IF head THEN offset ELSE skipped
                /\ Advance(end, more, "collect")
      BY <1>3 DEF Collect
    <2> DEFINE block == Matches(pos, end)
               head == block # <<>> /\ skipped < offset
    <2>2. PICK more \in More(pos, end) :
            /\ total' = total + Len(block)
            /\ result' = IF head THEN Window(block, offset - skipped) ELSE result \o Room(block)
            /\ skipped' = IF head THEN offset ELSE skipped
            /\ Advance(end, more, "collect")
      BY <2>1
    <2>3. CASE N = 0
      <3>1. UpTo(pos) = 0 /\ UpTo(N) = 0 /\ pos = N /\ end = N /\ more = FALSE
        BY <1>2, <2>1, <2>2, <2>3, Growth DEF Ends, More
      <3>2. skipped = offset /\ offset = 0 /\ result = Target(0)
        BY <1>1, <1>2, <3>1 DEF Collecting, Overshot
      <3>3. block = <<>>
        BY <1>2, <3>1, StretchFacts DEF Matches, Stretch
      <3> HIDE DEF block
      <3>4. Target(0) = <<>> /\ Room(block) = <<>>
        <4>1. Room(block) = SubSeq(<<>>, 1, Lesser(limit - Len(result), 0))
          <5>1. Len(<<>>) = 0 /\ 0 + 1 = 1
            OBVIOUS
          <5> QED
            BY <3>3, <5>1, Zenon DEF Room, Slice
        <4>2. Target(0) = <<>>
          BY <1>1, <1>2, <3>1, <3>2, TargetFacts
        <4>3. Len(result) = 0
          BY <3>2, <4>2
        <4>4. Lesser(limit - Len(result), 0) = 0
          BY <1>2, <4>3 DEF Lesser
        <4> QED
          BY <4>1, <4>2, <4>4, SubSeqEmpty
      <3>5. result' = <<>> /\ skipped' = offset /\ total' = 0 /\ pos' = N /\ step' = "done"
        <4>1. ~head
          BY <3>3
        <4>2. result' = result \o Room(block) /\ skipped' = skipped
          BY <2>2, <4>1
        <4>3. <<>> \o <<>> = <<>>
          OBVIOUS
        <4> QED
          BY <1>2, <2>2, <3>1, <3>2, <3>3, <3>4, <4>2, <4>3 DEF Advance
      <3> QED
        BY <1>1, <1>2, <3>1, <3>4, <3>5, LastPage
    <2>4. CASE N # 0
      <3>0. Ask \in Nat \ {0}
        <4>1. Len(result) \in Nat
          <5>1. Target(UpTo(pos)) \in Seq(1..N)
            BY <1>1, <1>2, TargetFacts
          <5> QED
            BY <1>1, <5>1 DEF Collecting, Overshot
        <4> QED
          BY <1>2, <1>3, <2>4, <4>1 DEF Ask
      <3>1. /\ end \in 0..N /\ UpTo(end) \in Nat /\ UpTo(end) <= UpTo(N) /\ UpTo(pos) <= UpTo(end)
            /\ block = Stretch(UpTo(pos), UpTo(end)) /\ Len(block) = UpTo(end) - UpTo(pos)
            /\ (~more => end = N)
        BY <1>1, <3>0, PageFacts
      <3> HIDE DEF block
      <3>2. /\ pos' = end /\ total' = UpTo(end) /\ step' = IF more THEN "collect" ELSE "done"
        BY <1>2, <2>2, <3>1 DEF Advance
      <3>3. /\ WindowTypes' /\ Asked' = Asked /\ UpTo(pos)' = UpTo(end)
            /\ Target(UpTo(pos))' = Target(UpTo(end)) /\ offset' = offset
        BY <1>1, <3>1, <3>2, AfterPage DEF Fixed
      <3>4. skipped' = offset /\ offset <= UpTo(end) /\ result' = Target(UpTo(end))
        <4>1. CASE skipped = offset /\ offset <= UpTo(pos) /\ result = Target(UpTo(pos))
          <5> DEFINE u == UpTo(pos)  v == UpTo(end)
          <5>1. u \in Nat /\ v \in Nat /\ u <= v /\ v <= UpTo(N) /\ u <= UpTo(N) /\ offset <= u
            BY <1>2, <3>1, <4>1
          <5>2. block = Stretch(u, v) /\ result = Target(u)
            BY <3>1, <4>1
          <5> HIDE DEF u, v
          <5>3. Len(Target(u)) = Lesser(offset + limit, u) - offset
            BY <1>1, <1>2, <5>1, TargetFacts
          <5>4. u < offset + limit /\ Lesser(offset + limit, u) = u /\ Len(result) = u - offset
            BY <1>2, <1>3, <5>1, <5>2, <5>3 DEF Lesser
          <5>5. Room(block) = Stretch(u, Lesser(offset + limit, v))
            <6>1. limit - Len(result) \in Nat /\ u + 0 + (limit - Len(result)) = offset + limit
              BY <1>2, <5>1, <5>4
            <6> DEFINE many == limit - Len(result)
            <6>2. many \in Nat /\ 0 \in Nat
              BY <6>1
            <6> HIDE DEF many
            <6>3. Slice(Stretch(u, v), 0, 0 + many) = Stretch(u + 0, Lesser(u + 0 + many, v))
              BY <5>1, <6>2, SliceOfStretch, Zenon
            <6>4. u + 0 = u /\ 0 + many = many /\ u + 0 + many = offset + limit
              BY <5>1, <6>1, <6>2 DEF many
            <6> QED
              BY <5>2, <6>3, <6>4, Zenon DEF Room, many
          <5>6. result = Stretch(offset, u)
            BY <5>2, <5>4 DEF Target
          <5>7. Stretch(offset, u) \o Stretch(u, Lesser(offset + limit, v))
                  = Stretch(offset, Lesser(offset + limit, v))
            <6> DEFINE w == Lesser(offset + limit, v)
            <6>1. w \in Nat /\ u <= w /\ w <= UpTo(N)
              BY <1>2, <5>1, <5>4 DEF Lesser
            <6> HIDE DEF w
            <6>2. Stretch(offset, u) \o Stretch(u, w) = Stretch(offset, w)
              BY <1>2, <5>1, <6>1, JoinStretches
            <6> QED
              BY <6>2 DEF w
          <5>8. result \o Room(block) = Target(v)
            BY <5>5, <5>6, <5>7 DEF Target
          <5>9. result' = Target(v) /\ skipped' = offset
            <6>1. ~head
              BY <1>2, <4>1
            <6> HIDE DEF head
            <6> QED
              BY <2>2, <4>1, <5>8, <6>1
          <5> QED
            BY <1>2, <5>1, <5>9 DEF v
        <4>2. CASE Overshot
          <5>1. /\ filtered /\ pos < N /\ skipped = UpTo(pos) /\ skipped < offset
                /\ offset < UpTo(Lesser(cut[pos], pos + N)) /\ Ask = N
            BY <4>2 DEF Overshot, Ask
          <5>2. end = Lesser(cut[pos], pos + N)
            BY <1>2, <2>1, <5>1 DEF Ends
          <5>3. offset < UpTo(end)
            BY <5>1, <5>2
          <5>4. block # <<>>
            BY <1>2, <3>1, <5>1, <5>3
          <5>5. result' = Window(block, offset - UpTo(pos)) /\ skipped' = offset
            BY <2>2, <5>1, <5>4
          <5>6. Window(Stretch(UpTo(pos), UpTo(end)), offset - UpTo(pos)) = Target(UpTo(end))
            <6>1. offset \in Int /\ limit \in Int /\ UpTo(pos) <= offset
              BY <1>2, <5>1
            <6> QED
              BY <1>2, <3>1, <6>1, WindowOfPage, Zenon
          <5> QED
            BY <1>2, <3>1, <5>3, <5>5, <5>6
        <4> QED
          BY <1>1, <4>1, <4>2 DEF Collecting
      <3>5. CASE more
        BY <1>2, <3>2, <3>3, <3>4, <3>5 DEF WindowInv, Collecting
      <3>6. CASE ~more
        BY <1>1, <1>2, <3>1, <3>2, <3>4, <3>6, LastPage
      <3> QED
        BY <3>5, <3>6
    <2> QED
      BY <2>3, <2>4
  <1>4. CASE ~(Len(result) < limit)
    <2>1. step' = (IF needTotal THEN "rest" ELSE "done") /\ UNCHANGED <<pos, skipped, total, result>>
      BY <1>1, <1>4 DEF Collect
    <2>2. /\ WindowTypes' /\ Asked' = Asked /\ UpTo(pos)' = UpTo(pos) /\ UpTo(N)' = UpTo(N)
          /\ Target(UpTo(N))' = Target(UpTo(N)) /\ needTotal' = needTotal
      BY <1>1, <1>2, <2>1, AfterPage DEF Fixed
    <2>3. skipped = offset /\ offset <= UpTo(pos) /\ result = Target(UpTo(pos))
      <3>1. ~Overshot
        BY <1>2, <1>4 DEF Overshot
      <3> QED
        BY <1>1, <3>1 DEF Collecting
    <2>4. Len(result) = Lesser(offset + limit, UpTo(pos)) - offset
      BY <1>1, <1>2, <2>3, TargetFacts
    <2>5. offset + limit <= UpTo(pos)
      BY <1>2, <1>4, <2>3, <2>4 DEF Lesser
    <2>6. result = Target(UpTo(N))
      BY <1>1, <1>2, <2>3, <2>5, TargetFacts
    <2>7. Whole' /\ total' = UpTo(pos)' /\ total' \in 0..UpTo(N)' /\ skipped' \in Nat
      BY <1>2, <2>1, <2>2, <2>6 DEF Whole
    <2> QED
      BY <2>1, <2>2, <2>7 DEF WindowInv
  <1> QED
    BY <1>3, <1>4

LEMMA CountRestStep ==
    ASSUME WindowInv, CountRest
    PROVE  WindowInv'
  <1>1. /\ step = "rest" /\ Fixed /\ WindowTypes /\ Whole /\ total = UpTo(pos) /\ skipped \in Nat
        /\ result' = result /\ skipped' = skipped
    BY DEF CountRest, WindowInv
  <1>2. PICK end \in Ends(pos, N) : \E more \in More(pos, end) :
          /\ total' = total + Len(Matches(pos, end))
          /\ Advance(end, more, "rest")
    BY DEF CountRest
  <1>3. PICK more \in More(pos, end) :
          /\ total' = total + Len(Matches(pos, end))
          /\ Advance(end, more, "rest")
    BY <1>2
  <1>4. /\ end \in 0..N /\ total' = UpTo(end) /\ UpTo(end) \in 0..UpTo(N) /\ (~more => end = N)
    <2>1. CASE N = 0
      <3>1. pos = 0 /\ end = 0
        BY <1>1, <1>2, <2>1 DEF WindowTypes, Ends
      <3>2. UpTo(0) = 0 /\ Stretch(0, 0) = <<>> /\ UpTo(N) \in Nat
        BY <2>1, Growth, StretchFacts
      <3>3. Matches(0, 0) = <<>>
        BY <3>2 DEF Matches, Stretch
      <3> QED
        BY <1>1, <1>3, <2>1, <3>1, <3>2, <3>3
    <2>2. CASE N # 0
      <3>1. N \in Nat \ {0}
        BY <2>2, Rows
      <3>2. /\ end \in 0..N /\ UpTo(pos) \in Nat /\ UpTo(end) \in Nat /\ UpTo(N) \in Nat
            /\ UpTo(end) <= UpTo(N) /\ Len(Matches(pos, end)) = UpTo(end) - UpTo(pos)
            /\ (~more => end = N)
        BY <1>1, <3>1, PageFacts
      <3> QED
        BY <1>1, <1>3, <3>2
    <2> QED
      BY <2>1, <2>2
  <1>5. pos' = end /\ step' = IF more THEN "rest" ELSE "done"
    BY <1>3 DEF Advance
  <1>6. /\ WindowTypes' /\ Asked' = Asked /\ UpTo(pos)' = UpTo(end) /\ UpTo(N)' = UpTo(N)
        /\ Target(UpTo(N))' = Target(UpTo(N))
    BY <1>1, <1>4, <1>5, AfterPage
  <1>7. Whole'
    BY <1>1, <1>6 DEF Whole
  <1>8. CASE more
    BY <1>1, <1>4, <1>5, <1>6, <1>7, <1>8 DEF WindowInv
  <1>9. CASE ~more
    BY <1>1, <1>4, <1>5, <1>6, <1>7, <1>9 DEF WindowInv
  <1> QED
    BY <1>8, <1>9

\* Every loop of the two variants keeps the window and the count right.
LEMMA WindowStep ==
    ASSUME WindowInv, Next
    PROVE  WindowInv'
  BY CountOffsetStep, SkipOffsetStep, CountFilteredStep, CollectStep, CountRestStep DEF Next

LEMMA WindowStutter ==
    ASSUME WindowInv, UNCHANGED vars
    PROVE  WindowInv'
  <1>1. UNCHANGED <<filtered, offset, limit, needTotal, cut, step, pos, skipped, total, result>>
    BY DEF vars
  <1>2. WindowTypes /\ pos \in 0..N /\ Fixed
    BY <1>1 DEF WindowInv, WindowTypes, Fixed
  <1>3. /\ WindowTypes' /\ Asked' = Asked /\ UpTo(pos)' = UpTo(pos) /\ UpTo(N)' = UpTo(N)
        /\ Target(UpTo(pos))' = Target(UpTo(pos)) /\ Target(UpTo(N))' = Target(UpTo(N))
    BY <1>1, <1>2, AfterPage
  <1>4. Skipping' = Skipping /\ Whole' = Whole
    BY <1>1, <1>3 DEF Skipping, Whole
  <1>5. UpTo(Lesser(cut[pos], pos + N))' = UpTo(Lesser(cut[pos], pos + N))
    BY <1>1, MatchesKept DEF Lesser
  <1>6. Overshot' = Overshot
    BY <1>1, <1>3, <1>5 DEF Overshot
  <1>7. Collecting' = Collecting
    BY <1>1, <1>3, <1>6 DEF Collecting
  <1> QED
    BY <1>1, <1>3, <1>4, <1>7 DEF WindowInv

\* A call of paginateList before its first request.
Ready ==
    /\ WindowTypes /\ step = FirstStep
    /\ pos = 0 /\ skipped = 0 /\ total = 0 /\ result = <<>>

LEMMA WindowStart == Ready => WindowInv
  <1> SUFFICES ASSUME Ready PROVE WindowInv
    OBVIOUS
  <1>1. UpTo(0) = 0 /\ UpTo(pos) = 0 /\ UpTo(N) \in Nat /\ offset \in Int /\ limit \in Int
    BY Rows, Growth DEF Ready, WindowTypes
  <1>2. CASE offset < 0 \/ limit <= 0
    <2>1. Whole
      BY <1>1, <1>2 DEF Whole, Asked, Ready
    <2> QED
      BY <1>1, <1>2, <2>1 DEF Ready, FirstStep, WindowInv
  <1>3. CASE ~(offset < 0 \/ limit <= 0)
    <2>1. Asked
      BY <1>1, <1>3 DEF Asked
    <2>2. CASE offset = 0
      <3>1. Target(0) = <<>>
        BY <1>1, <2>1, <2>2, TargetFacts DEF Ready
      <3>2. Collecting
        BY <1>1, <2>1, <2>2, <3>1 DEF Collecting, Ready
      <3> QED
        BY <1>3, <2>2, <3>2 DEF Ready, FirstStep, WindowInv
    <2>3. CASE offset # 0
      BY <1>1, <1>3, <2>1, <2>3 DEF Ready, FirstStep, WindowInv, Skipping
    <2> QED
      BY <2>2, <2>3
  <1> QED
    BY <1>2, <1>3

-----------------------------------------------------------------------------
\* The handler.

\* The Adapter may be called with what was read of the body.
Arrived(op) == H!ReadsBody(op, request) => reader \in H!Bodies

\* The reader: what it counted while it reads, and where the stream is when it settled.
ReaderInv ==
    /\ stream \in {"open", "ended", "failed"} /\ socket \in {"open", "closed"}
    /\ reader \in H!Settled \cup {"idle", "reading"}
    /\ sent \in 0..MaxBytes /\ size \in 0..sent
    /\ reader = "idle" => stream = "open" /\ sent = 0
    /\ stream = "open" => reader \in {"idle", "reading", "tooLarge"}
    /\ reader \in H!Bodies \cup {"reading"} => size = sent /\ size <= MaxBodyBytes
    /\ reader \in H!Bodies => stream = "ended"
    /\ "getList" \in H!Operations(request) => reader = "idle"

Called == \E op \in H!Operations(request) : calls = <<op>> /\ Arrived(op)

\* What the status says of the calls, before and after the client hears it.
StatusTrue ==
    /\ status \in {200, 204, 400, 404, 405, 409, 413, 422, 429, 500, 503}
    /\ status \in {200, 204} => \A i \in DOMAIN calls : calls[i] \in H!Reads \/ effect = "all"
    /\ status \in {400, 404, 405, 413} => effect = "none"
    /\ status \in {409, 422, 429} =>
        \A i \in DOMAIN calls : calls[i] \in H!SingleWrites => effect = "none"

\* How far a request has come: what was called, answered and told so far.
Progress ==
    \/ /\ pc \in {"start", "body", "call"}
       /\ calls = <<>> /\ effect = "none" /\ status = 0 /\ answers = <<>> /\ told = 0
       /\ pc = "start" => reader = "idle"
       /\ pc = "body" => reader # "idle"
       /\ pc = "call" => \A op \in H!Operations(request) : Arrived(op)
    \/ /\ pc = "adapter" /\ Called
       /\ effect = "none" /\ status = 0 /\ answers = <<>> /\ told = 0
    \/ /\ pc = "answer" /\ (calls = <<>> \/ Called) /\ StatusTrue
       /\ answers = <<>> /\ told = 0
    \/ /\ pc = "done" /\ (calls = <<>> \/ Called) /\ StatusTrue
       /\ answers = <<status>> /\ told \in {0, status}

\* A program that calls paginateList itself has no request.
NoRequest ==
    /\ pc = "done" /\ calls = <<>> /\ effect = "none" /\ status = 0 /\ answers = <<>> /\ told = 0
    /\ reader = "idle"

HandlerInv ==
    /\ request \in H!Requests
    /\ effect \in {"none", "some", "all"}
    /\ ReaderInv
    /\ \/ caller = "program" /\ NoRequest
       \/ caller = "rest" /\ Progress

\* A request asks for one operation at most.
LEMMA OneOperation ==
    ASSUME NEW r, NEW o \in H!Operations(r), NEW p \in H!Operations(r)
    PROVE  o = p
  <1>1. o \in DOMAIN H!Routes /\ p \in DOMAIN H!Routes /\ H!Routes[o] = H!Routes[p]
    BY DEF H!Operations
  <1>2. DOMAIN H!Routes = {
          "getList", "post", "deleteListByParams", "getByKeys", "deleteByKeys", "putItems",
          "cloneListByParams", "moveListByParams", "cloneByKeys", "moveByKeys", "getByKey",
          "put", "patch", "delete", "clone", "move"}
    BY DEF H!Routes
  <1> DEFINE method(op) == H!Routes[op][1]
             kind(op) == H!Routes[op][2][1]
             name(op) == H!Routes[op][2][2]
  <1>3. method(o) = method(p) /\ kind(o) = kind(p) /\ name(o) = name(p)
    BY <1>1
  <1>4. /\ method("getList") = "GET" /\ method("post") = "POST"
        /\ method("deleteListByParams") = "DELETE" /\ method("getByKeys") = "GET"
        /\ method("deleteByKeys") = "DELETE" /\ method("putItems") = "PUT"
        /\ method("cloneListByParams") = "PUT" /\ method("moveListByParams") = "PUT"
        /\ method("cloneByKeys") = "PUT" /\ method("moveByKeys") = "PUT"
        /\ method("getByKey") = "GET" /\ method("put") = "PUT"
        /\ method("patch") = "PATCH" /\ method("delete") = "DELETE"
        /\ method("clone") = "PUT" /\ method("move") = "PUT"
    BY DEF H!Routes
  <1>5. /\ kind("getList") = "root" /\ kind("post") = "root"
        /\ kind("deleteListByParams") = "root" /\ kind("getByKeys") = "collectionMethod"
        /\ kind("deleteByKeys") = "collectionMethod" /\ kind("putItems") = "collectionMethod"
        /\ kind("cloneListByParams") = "collectionMethod" /\ kind("moveListByParams") = "collectionMethod"
        /\ kind("cloneByKeys") = "collectionMethod" /\ kind("moveByKeys") = "collectionMethod"
        /\ kind("getByKey") = "item" /\ kind("put") = "item"
        /\ kind("patch") = "item" /\ kind("delete") = "item"
        /\ kind("clone") = "itemMethod" /\ kind("move") = "itemMethod"
    BY DEF H!Routes
  <1>6. /\ name("getList") = "" /\ name("post") = ""
        /\ name("deleteListByParams") = "" /\ name("getByKeys") = "by-names"
        /\ name("deleteByKeys") = "by-names" /\ name("putItems") = "load"
        /\ name("cloneListByParams") = "clone" /\ name("moveListByParams") = "move"
        /\ name("cloneByKeys") = "clone-by-names" /\ name("moveByKeys") = "move-by-names"
        /\ name("getByKey") = "" /\ name("put") = ""
        /\ name("patch") = "" /\ name("delete") = ""
        /\ name("clone") = "clone" /\ name("move") = "move"
    BY DEF H!Routes
  <1> HIDE DEF method, kind, name
  <1>7. CASE method(o) = "GET"
    <2>1. o \in {"getList", "getByKeys", "getByKey"} /\ p \in {"getList", "getByKeys", "getByKey"}
      BY <1>1, <1>2, <1>3, <1>4, <1>7
    <2> QED
      BY <1>3, <1>5, <2>1
  <1>8. CASE method(o) = "DELETE"
    <2>1. /\ o \in {"deleteListByParams", "deleteByKeys", "delete"}
          /\ p \in {"deleteListByParams", "deleteByKeys", "delete"}
      BY <1>1, <1>2, <1>3, <1>4, <1>8
    <2> QED
      BY <1>3, <1>5, <2>1
  <1>9. CASE method(o) = "PUT"
    <2> DEFINE puts == {"putItems", "cloneListByParams", "moveListByParams", "cloneByKeys",
                        "moveByKeys", "put", "clone", "move"}
    <2>1. o \in puts /\ p \in puts
      BY <1>1, <1>2, <1>3, <1>4, <1>9
    <2>2. CASE kind(o) = "collectionMethod"
      BY <1>3, <1>5, <1>6, <2>1, <2>2
    <2>3. CASE kind(o) # "collectionMethod"
      BY <1>3, <1>5, <1>6, <2>1, <2>3
    <2> QED
      BY <2>2, <2>3
  <1>10. CASE method(o) \notin {"GET", "DELETE", "PUT"}
    BY <1>1, <1>2, <1>3, <1>4, <1>10
  <1> QED
    BY <1>7, <1>8, <1>9, <1>10

LEMMA HandlerStart ==
    ASSUME SessionInit
    PROVE  HandlerInv
  <1>1. CASE RestInit
    <2>1. H!Init /\ caller = "rest"
      BY <1>1 DEF RestInit
    <2>2. ReaderInv
      BY <2>1, HttpAssumption DEF H!Init, ReaderInv, H!Bodies, HttpAssumption
    <2>3. Progress
      BY <2>1 DEF H!Init, Progress
    <2> QED
      BY <2>1, <2>2, <2>3 DEF H!Init, HandlerInv
  <1>2. CASE ProgramInit
    <2>1. /\ caller = "program" /\ request = GetOfList
          /\ stream = "open" /\ sent = 0 /\ size = 0 /\ reader = "idle" /\ socket = "open"
          /\ NoRequest
      BY <1>2 DEF ProgramInit, NoRequest
    <2>2. request \in H!Requests
      BY <2>1, HttpAssumption DEF H!Requests, H!HttpMethods, GetOfList, HttpAssumption
    <2>3. ReaderInv
      BY <2>1, HttpAssumption DEF ReaderInv, H!Bodies, HttpAssumption
    <2>4. effect = "none"
      BY <2>1 DEF NoRequest
    <2> QED
      BY <2>1, <2>2, <2>3, <2>4 DEF HandlerInv
  <1> QED
    BY <1>1, <1>2 DEF SessionInit

\* While the reader is left alone, what it is known for stays.
LEMMA ReaderKept ==
    ASSUME ReaderInv, UNCHANGED <<request, stream, sent, size, reader>>,
           socket' \in {"open", "closed"}
    PROVE  ReaderInv' /\ \A op : Arrived(op)' = Arrived(op)
  BY DEF ReaderInv, Arrived, H!ReadsBody, H!Bodies, H!Operations, H!EffectiveMethod, H!MatchRoute

\* The answer to a request before the Adapter is called.
LEMMA RefusedAtOnce ==
    ASSUME HandlerInv, caller' = caller, pc \in {"start", "body", "call"},
           NEW s \in {400, 405, 413, 500}, pc' = "answer", status' = s,
           UNCHANGED <<request, stream, sent, size, reader, socket, calls, effect, answers, told>>
    PROVE  HandlerInv'
  <1>1. caller = "rest" /\ Progress
    BY DEF HandlerInv, NoRequest
  <1>2. calls = <<>> /\ effect = "none" /\ answers = <<>> /\ told = 0
    BY <1>1 DEF Progress
  <1>3. ReaderInv'
    BY ReaderKept DEF HandlerInv, ReaderInv
  <1>4. Progress'
    BY <1>2 DEF Progress, StatusTrue
  <1> QED
    BY <1>1, <1>2, <1>3, <1>4 DEF HandlerInv

\* What a request reports while nothing else moves.
LEMMA EventStep ==
    ASSUME HandlerInv, caller' = caller,
           H!Client \/ H!Gone \/ \E chunk \in ChunkSizes : H!Data(chunk)
    PROVE  HandlerInv'
  <1>1. UNCHANGED <<request, pc, calls, effect, status, answers, told>>
    BY DEF H!Client, H!End, H!StreamError, H!Gone, H!Data, H!outcome
  <1>2. ReaderInv /\ MaxBodyBytes \in Nat /\ MaxBytes \in Nat /\ ChunkSizes \subseteq Nat \ {0}
    BY HttpAssumption DEF HandlerInv, HttpAssumption
  <1>3. /\ ReaderInv'
        /\ reader \in H!Bodies \cup {"idle"} => reader' = reader
        /\ reader # "idle" => reader' # "idle"
    <2>1. CASE H!Gone
      BY <1>2, <2>1 DEF H!Gone, ReaderInv, H!Operations, H!EffectiveMethod, H!MatchRoute
    <2>2. CASE H!StreamError
      BY <1>1, <1>2, <2>2
         DEF H!StreamError, H!Listening, H!Settle, H!Settled, H!Bodies, ReaderInv
    <2>3. CASE H!End
      <3>1. /\ reader # "idle" /\ stream = "open" /\ stream' = "ended"
            /\ UNCHANGED <<sent, size, socket>>
        BY <2>3 DEF H!End, H!Listening
      <3>2. reader' = reader \/ (reader = "reading" /\ reader' \in {"none", "object", "array", "garbled"})
        BY <2>3 DEF H!End, H!Settle
      <3>3. reader \in {"reading", "tooLarge"}
        BY <1>2, <3>1 DEF ReaderInv
      <3>4. reader' = reader => reader = "tooLarge"
        BY <2>3, <3>3 DEF H!End, H!Settle, H!Aborted
      <3> QED
        BY <1>1, <1>2, <3>1, <3>2, <3>3, <3>4 DEF ReaderInv, H!Settled, H!Bodies
    <2>4. CASE \E chunk \in ChunkSizes : H!Data(chunk)
      <3>1. PICK chunk \in ChunkSizes : H!Data(chunk)
        BY <2>4
      <3>2. chunk \in Nat
        BY <1>2
      <3>3. /\ reader # "idle" /\ stream = "open" /\ stream' = stream
            /\ sent + chunk <= MaxBytes /\ sent' = sent + chunk
        BY <3>1 DEF H!Data, H!Listening
      <3>4. reader \in {"reading", "tooLarge"}
        BY <1>2, <3>3 DEF ReaderInv
      <3>5. CASE reader = "tooLarge"
        <4>1. UNCHANGED <<size, reader, socket>>
          BY <3>1, <3>5 DEF H!Data, H!Aborted
        <4> QED
          BY <1>1, <1>2, <3>2, <3>3, <3>5, <4>1 DEF ReaderInv, H!Bodies
      <3>6. CASE reader = "reading"
        <4>1. /\ size' = size + chunk /\ size = sent
              /\ IF size + chunk > MaxBodyBytes
                 THEN reader' = "tooLarge" /\ socket' = "closed"
                 ELSE UNCHANGED <<reader, socket>>
          BY <1>2, <3>1, <3>6 DEF H!Data, H!Aborted, H!OverCap, H!Settle, ReaderInv
        <4> QED
          BY <1>1, <1>2, <3>2, <3>3, <3>6, <4>1 DEF ReaderInv, H!Bodies, H!Settled
      <3> QED
        BY <3>4, <3>5, <3>6
    <2> QED
      BY <2>1, <2>2, <2>3, <2>4 DEF H!Client
  <1>4. \A op : Arrived(op) => Arrived(op)'
    BY <1>1, <1>3 DEF Arrived, H!ReadsBody
  <1>5. Called => Called'
    BY <1>1, <1>4 DEF Called, H!Operations, H!EffectiveMethod, H!MatchRoute
  <1>6. StatusTrue' = StatusTrue
    BY <1>1 DEF StatusTrue
  <1>7. Progress => Progress'
    BY <1>1, <1>3, <1>4, <1>5, <1>6 DEF Progress, H!Operations, H!EffectiveMethod, H!MatchRoute
  <1>8. NoRequest => NoRequest'
    BY <1>1, <1>3 DEF NoRequest
  <1> QED
    BY <1>1, <1>3, <1>7, <1>8 DEF HandlerInv

\* Routing, the end of the body, and what is refused before the Adapter is called.
LEMMA RouteStep ==
    ASSUME HandlerInv, caller' = caller,
           \/ H!Malformed \/ H!MethodNotAllowed \/ H!Dispatch
           \/ H!BodyRead \/ H!RefuseLoad \/ H!RefuseSort
    PROVE  HandlerInv'
  <1>1. CASE H!Malformed \/ H!MethodNotAllowed \/ H!RefuseLoad \/ H!RefuseSort
    BY <1>1, RefusedAtOnce
       DEF H!Malformed, H!MethodNotAllowed, H!RefuseLoad, H!RefuseSort, H!Answer, H!body, H!outcome
  <1>2. CASE H!Dispatch
    <2>1. PICK op \in H!Operations(request) :
            IF H!ReadsBody(op, request)
            THEN pc' = "body" /\ reader' = "reading"
            ELSE pc' = "call" /\ UNCHANGED reader
      BY <1>2 DEF H!Dispatch
    <2>2. /\ pc = "start"
          /\ UNCHANGED <<request, stream, sent, size, socket, calls, effect, status, answers, told>>
      BY <1>2 DEF H!Dispatch, H!outcome
    <2>3. caller = "rest" /\ Progress /\ reader = "idle" /\ ReaderInv
      BY <2>2 DEF HandlerInv, NoRequest, Progress
    <2>4. /\ calls = <<>> /\ effect = "none" /\ status = 0 /\ answers = <<>> /\ told = 0
          /\ stream = "open" /\ sent = 0 /\ size = 0
      BY <2>2, <2>3, HttpAssumption DEF Progress, ReaderInv, HttpAssumption
    <2>5. CASE H!ReadsBody(op, request)
      <3>1. "getList" \notin H!Operations(request)
        BY <2>5, OneOperation DEF H!ReadsBody
      <3>2. ReaderInv'
        <4>1. ("getList" \notin H!Operations(request))'
          BY <2>2, <3>1 DEF H!Operations, H!EffectiveMethod, H!MatchRoute
        <4> QED
          BY <2>1, <2>2, <2>3, <2>4, <2>5, <4>1, HttpAssumption
             DEF ReaderInv, H!Bodies, HttpAssumption
      <3>3. Progress'
        BY <2>1, <2>2, <2>4, <2>5 DEF Progress
      <3> QED
        BY <2>2, <2>3, <3>2, <3>3 DEF HandlerInv
    <2>6. CASE ~H!ReadsBody(op, request)
      <3>1. pc' = "call" /\ reader' = reader
        BY <2>1, <2>6
      <3>2. ReaderInv' /\ \A o : Arrived(o)' = Arrived(o)
        BY <2>2, <2>3, <3>1, ReaderKept DEF ReaderInv
      <3>3. \A o \in H!Operations(request) : Arrived(o)
        BY <2>6, OneOperation DEF Arrived
      <3>4. Progress'
        BY <2>2, <2>4, <3>1, <3>2, <3>3
           DEF Progress, H!Operations, H!EffectiveMethod, H!MatchRoute
      <3> QED
        BY <2>2, <2>3, <3>2, <3>4 DEF HandlerInv
    <2> QED
      BY <2>5, <2>6
  <1>3. CASE H!BodyRead
    <2>1. /\ pc = "body" /\ reader \in H!Settled
          /\ UNCHANGED <<request, stream, sent, size, reader, socket, calls, effect, answers, told>>
      BY <1>3 DEF H!BodyRead, H!body, H!outcome
    <2>2. CASE reader \in H!Bodies
      <3>1. pc' = "call" /\ status' = status
        BY <1>3, <2>2 DEF H!BodyRead, H!Bodies
      <3>2. caller = "rest" /\ Progress
        BY <2>1 DEF HandlerInv, NoRequest
      <3>3. ReaderInv' /\ \A o : Arrived(o)' = Arrived(o)
        BY <2>1, ReaderKept DEF HandlerInv, ReaderInv
      <3>4. \A o : Arrived(o)
        BY <2>2 DEF Arrived
      <3>5. Progress'
        BY <2>1, <3>1, <3>2, <3>3, <3>4 DEF Progress
      <3> QED
        BY <2>1, <3>2, <3>3, <3>5 DEF HandlerInv
    <2>3. CASE reader \notin H!Bodies
      <3>1. reader \in {"garbled", "tooLarge", "broken"}
        BY <2>1, <2>3 DEF H!Settled, H!Bodies
      <3>2. \E s \in {400, 413, 500} : pc' = "answer" /\ status' = s
        <4>1. CASE reader = "garbled"
          BY <1>3, <4>1 DEF H!BodyRead, H!Bodies, H!Answer
        <4>2. CASE reader = "tooLarge"
          BY <1>3, <4>2 DEF H!BodyRead, H!Bodies, H!Answer
        <4>3. CASE reader = "broken"
          BY <1>3, <4>3 DEF H!BodyRead, H!Bodies, H!Answer
        <4> QED
          BY <3>1, <4>1, <4>2, <4>3
      <3> QED
        BY <2>1, <3>2, RefusedAtOnce
    <2> QED
      BY <2>2, <2>3
  <1> QED
    BY <1>1, <1>2, <1>3

LEMMA CallStep ==
    ASSUME HandlerInv, caller' = caller, H!Call
    PROVE  /\ HandlerInv'
           /\ \E op \in H!Operations(request) : calls' = <<op>>
  <1>1. /\ pc = "call" /\ pc' = "adapter"
        /\ UNCHANGED <<request, stream, sent, size, reader, socket, effect, status, answers, told>>
    BY DEF H!Call, H!body
  <1>2. caller = "rest" /\ Progress
    BY <1>1 DEF HandlerInv, NoRequest
  <1>3. /\ calls = <<>> /\ effect = "none" /\ status = 0 /\ answers = <<>> /\ told = 0
        /\ \A op \in H!Operations(request) : Arrived(op)
    BY <1>1, <1>2 DEF Progress
  <1>4. PICK op \in H!Operations(request) : calls' = <<op>>
    BY <1>3 DEF H!Call
  <1>5. ReaderInv' /\ \A o : Arrived(o)' = Arrived(o)
    BY <1>1, ReaderKept DEF HandlerInv, ReaderInv
  <1>6. Called'
    BY <1>1, <1>3, <1>4, <1>5 DEF Called, H!Operations, H!EffectiveMethod, H!MatchRoute
  <1>7. Progress'
    BY <1>1, <1>3, <1>6 DEF Progress
  <1> QED
    BY <1>1, <1>2, <1>4, <1>5, <1>7 DEF HandlerInv

\* What the Adapter comes to, and the answer that is made of it.
LEMMA OutcomeStep ==
    ASSUME HandlerInv, caller' = caller,
           H!AdapterReturns \/ H!AdapterMisses \/ H!AdapterThrows
    PROVE  HandlerInv'
  <1>1. /\ pc = "adapter" /\ pc' = "answer"
        /\ UNCHANGED <<request, stream, sent, size, reader, socket, calls, answers, told>>
    BY DEF H!AdapterReturns, H!AdapterMisses, H!AdapterThrows, H!Answer, H!body, H!outcome
  <1>2. caller = "rest" /\ Progress
    BY <1>1 DEF HandlerInv, NoRequest
  <1>3. Called /\ effect = "none" /\ answers = <<>> /\ told = 0
    BY <1>1, <1>2 DEF Progress
  <1>4. PICK op \in H!Operations(request) : calls = <<op>>
    BY <1>3 DEF Called
  <1>5. calls[1] = op /\ calls' = <<op>> /\ DOMAIN calls' = {1} /\ calls'[1] = op
    BY <1>1, <1>4
  <1>6. StatusTrue' /\ effect' \in {"none", "some", "all"}
    <2>1. CASE H!AdapterReturns
      <3>1. effect' = (IF op \in H!Reads THEN "none" ELSE "all") /\ status' \in {200, 204}
        BY <1>5, <2>1 DEF H!AdapterReturns, H!Answer
      <3> QED
        BY <1>5, <3>1 DEF StatusTrue
    <2>2. CASE H!AdapterMisses
      <3>1. status' = 404 /\ effect' = "none"
        BY <1>3, <2>2 DEF H!AdapterMisses, H!Answer, H!outcome
      <3> QED
        BY <3>1 DEF StatusTrue
    <2>3. CASE H!AdapterThrows
      <3>1. PICK err \in H!Refusals \cup H!Failures :
              effect' \in H!Written(op, err) /\ status' = H!MapErrorStatus(err)
        BY <1>5, <2>3 DEF H!AdapterThrows, H!Answer
      <3>2. effect' \in {"none", "some", "all"}
        BY <3>1 DEF H!Written
      <3>3. CASE err \in H!Refusals
        <4>1. status' \in {409, 422, 429}
          BY <3>1, <3>3 DEF H!MapErrorStatus, H!Refusals
        <4>2. op \in H!SingleWrites => effect' = "none"
          <5>1. op \in H!SingleWrites => op \notin H!Reads
            BY DEF H!SingleWrites, H!Reads
          <5>2. err \notin H!Failures
            BY <3>3 DEF H!Refusals, H!Failures
          <5> QED
            BY <3>1, <3>3, <5>1, <5>2 DEF H!Written
        <4> QED
          BY <1>5, <3>2, <4>1, <4>2 DEF StatusTrue
      <3>4. CASE err \in H!Failures
        <4>1. status' \in {500, 503}
          BY <3>1, <3>4 DEF H!MapErrorStatus, H!Failures
        <4> QED
          BY <3>2, <4>1 DEF StatusTrue
      <3> QED
        BY <3>3, <3>4
    <2> QED
      BY <2>1, <2>2, <2>3
  <1>7. ReaderInv' /\ \A o : Arrived(o)' = Arrived(o)
    BY <1>1, ReaderKept DEF HandlerInv, ReaderInv
  <1>8. Called'
    BY <1>1, <1>3, <1>7 DEF Called, H!Operations, H!EffectiveMethod, H!MatchRoute
  <1>9. Progress'
    BY <1>1, <1>3, <1>6, <1>8 DEF Progress
  <1> QED
    BY <1>1, <1>2, <1>6, <1>7, <1>9 DEF HandlerInv

LEMMA RespondStep ==
    ASSUME HandlerInv, caller' = caller, H!Respond
    PROVE  HandlerInv'
  <1>1. /\ pc = "answer" /\ pc' = "done"
        /\ answers' = Append(answers, status)
        /\ told' = IF socket = "open" THEN status ELSE told
        /\ UNCHANGED <<request, stream, sent, size, reader, socket, calls, effect, status>>
    BY DEF H!Respond, H!body
  <1>2. caller = "rest" /\ Progress
    BY <1>1 DEF HandlerInv, NoRequest
  <1>3. (calls = <<>> \/ Called) /\ StatusTrue /\ answers' = <<status>> /\ told' \in {0, status}
    BY <1>1, <1>2 DEF Progress
  <1>4. ReaderInv' /\ \A o : Arrived(o)' = Arrived(o)
    BY <1>1, ReaderKept DEF HandlerInv, ReaderInv
  <1>5. (calls = <<>> \/ Called)' /\ StatusTrue'
    <2>1. H!Operations(request)' = H!Operations(request)
      BY <1>1 DEF H!Operations, H!EffectiveMethod, H!MatchRoute
    <2>2. Called' = Called
      BY <1>1, <1>4, <2>1 DEF Called
    <2>3. StatusTrue' = StatusTrue
      BY <1>1 DEF StatusTrue
    <2> QED
      BY <1>1, <1>3, <2>2, <2>3
  <1>6. Progress'
    BY <1>1, <1>3, <1>5 DEF Progress
  <1> QED
    BY <1>1, <1>2, <1>4, <1>6 DEF HandlerInv

\* A page is turned by a client that holds one: its next request is like the last.
LEMMA FollowStep ==
    ASSUME HandlerInv, NEW link, NEW name, Follow(link, name)
    PROVE  HandlerInv'
  <1>1. /\ Shown
        /\ pc' = "start" /\ stream' = "open" /\ socket' = "open"
        /\ calls' = <<>> /\ effect' = "none" /\ status' = 0 /\ answers' = <<>> /\ told' = 0
        /\ UNCHANGED <<request, sent, size, reader, caller>>
    BY DEF Follow
  <1>2. pc = "done" /\ calls = <<"getList">> /\ told = 200
    BY <1>1 DEF Shown
  <1>3. caller = "rest" /\ Progress
    BY <1>2 DEF HandlerInv, NoRequest
  <1>4. "getList" \in H!Operations(request)
    BY <1>2, <1>3 DEF Progress, Called
  <1>5. reader = "idle" /\ stream = "open" /\ ReaderInv
    BY <1>4 DEF HandlerInv, ReaderInv
  <1>6. ReaderInv'
    BY <1>1, <1>5, ReaderKept
  <1>7. Progress'
    BY <1>1, <1>5 DEF Progress
  <1> QED
    BY <1>1, <1>3, <1>6, <1>7 DEF HandlerInv

LEMMA HandlerStep ==
    ASSUME HandlerInv, [SessionNext]_all
    PROVE  HandlerInv'
  <1>1. CASE Route
    BY <1>1, RouteStep DEF Route
  <1>2. CASE CallList \/ CallOther
    BY <1>2, CallStep DEF CallList, CallOther
  <1>3. CASE Respond
    BY <1>3, RespondStep DEF Respond
  <1>4. CASE ReturnList \/ ReturnOther \/ Fail
    BY <1>4, OutcomeStep DEF ReturnList, ReturnOther, Fail
  <1>5. CASE Stream \/ Network
    BY <1>5, EventStep DEF Stream, Network
  <1>6. CASE FollowNext \/ FollowPrev
    BY <1>6, FollowStep DEF FollowNext, FollowPrev
  <1>7. CASE ReadList \/ UNCHANGED all
    <2>1. UNCHANGED <<request, stream, sent, size, reader, socket, pc, calls, effect, status,
                      answers, told, caller>>
      BY <1>7 DEF ReadList, all, http
    <2>2. ReaderInv => ReaderInv' /\ \A o : Arrived(o)' = Arrived(o)
      BY <2>1, ReaderKept DEF ReaderInv
    <2>3. ReaderInv => Called' = Called
      BY <2>1, <2>2 DEF Called, H!Operations, H!EffectiveMethod, H!MatchRoute
    <2>4. StatusTrue' = StatusTrue /\ NoRequest' = NoRequest
      BY <2>1 DEF StatusTrue, NoRequest
    <2>5. ReaderInv /\ Progress => Progress'
      BY <2>1, <2>2, <2>3, <2>4 DEF Progress, H!Operations, H!EffectiveMethod, H!MatchRoute
    <2> QED
      BY <2>1, <2>2, <2>4, <2>5 DEF HandlerInv
  <1> QED
    BY <1>1, <1>2, <1>3, <1>4, <1>5, <1>6, <1>7 DEF SessionNext, Server, Service

\* Every request, whatever its stream reports and whatever the Adapter comes to, goes
\* through the handler one step after the other: it is read whole, calls the Adapter
\* once at most, and its answer says what became of the call (src/handler/handler.js,
\* read-json-body.js:20-48).
THEOREM HandlerKept == Session => []HandlerInv
  <1>1. SessionInit => HandlerInv
    BY HandlerStart
  <1>2. HandlerInv /\ [SessionNext]_all => HandlerInv'
    BY HandlerStep
  <1> QED
    BY <1>1, <1>2, PTL DEF Session

\* Whatever the stream of a request reports, and when: one answer, at the end, and no
\* call of the Adapter for a part of a body, or for one over the cap.
THEOREM RequestSettles == Session => []RaceSettled
  <1>1. HandlerInv => RaceSettled
    <2> SUFFICES ASSUME HandlerInv PROVE H!AnsweredOnce /\ H!WholeBody
      BY DEF RaceSettled
    <2>1. H!AnsweredOnce
      <3>1. answers = <<>> \/ (answers = <<status>> /\ pc = "done")
        BY DEF HandlerInv, NoRequest, Progress
      <3> QED
        BY <3>1 DEF H!AnsweredOnce
    <2>2. H!WholeBody
      <3>1. calls = <<>> \/ Called
        BY DEF HandlerInv, NoRequest, Progress
      <3>2. ASSUME NEW i \in DOMAIN calls, H!ReadsBody(calls[i], request)
            PROVE  reader \in H!Bodies
        <4>1. PICK op \in H!Operations(request) : calls = <<op>> /\ Arrived(op)
          BY <3>1, <3>2 DEF Called
        <4>2. calls[i] = op
          BY <3>2, <4>1
        <4> QED
          BY <3>2, <4>1, <4>2 DEF Arrived
      <3>3. /\ sent \in Nat /\ size \in Nat /\ MaxBodyBytes \in Nat
            /\ reader \in H!Bodies => stream = "ended" /\ sent <= MaxBodyBytes
        BY HttpAssumption DEF HandlerInv, ReaderInv, HttpAssumption
      <3> QED
        BY <3>2, <3>3 DEF H!WholeBody
    <2> QED
      BY <2>1, <2>2
  <1> QED
    BY <1>1, HandlerKept, PTL

\* The status a client hears says what became of its write, whichever way the call of
\* the Adapter ended.
THEOREM ToldIsTrue == Session => []ToldTruth
  <1>1. HandlerInv => ToldTruth
    <2> SUFFICES ASSUME HandlerInv PROVE H!ToldTruth
      BY DEF ToldTruth
    <2>1. told = 0 \/ (told = status /\ StatusTrue)
      BY DEF HandlerInv, NoRequest, Progress
    <2> QED
      BY <2>1 DEF H!ToldTruth, StatusTrue
  <1> QED
    BY <1>1, HandlerKept, PTL

-----------------------------------------------------------------------------
\* The pages a client turns.

\* The matches number a + 1 to b, as a set.
Between(a, b) == {Matched[k] : k \in (a + 1)..Lesser(b, UpTo(N))}

\* An envelope of the list: its rows are its window, its links lead to the windows that
\* adjoin it.
PageOfList(p) ==
    /\ p.offset \in 0..MaxOffset /\ p.limit \in 1..Lesser(MaxLimit, PolicyMaxLimit)
    /\ p.rows = Between(p.offset, p.offset + p.limit)
    /\ p.prev = IF p.offset > 0 THEN <<Greater(0, p.offset - p.limit)>> ELSE NoLink
    /\ p.next = IF needTotal /\ p.offset + p.limit >= UpTo(N) THEN NoLink
                ELSE <<p.offset + p.limit>>

\* The window a query asks for.
AsAsked(o, l) == o = ParsedOffset(query.offset) /\ l = Lesser(MaxLimit, ParsedLimit(query.limit))

\* The list of a request is read from when its handler calls getList.
ListInv ==
    \/ WindowInv
    \/ caller = "rest" /\ NoListYet /\ WindowTypes /\ calls # <<"getList">>

QueryInv ==
    /\ query.offset \in Seq(Int) /\ query.limit \in Seq(Int)
    /\ via = "next" => query = [offset |-> before.next, limit |-> <<before.limit>>]
    /\ via = "prev" => query = [offset |-> before.prev, limit |-> <<before.limit>>]

\* From the call of getList on the window is what the query asks for, and so is the
\* page that comes of it.
WalkInv ==
    /\ ListInv
    /\ via \in {"none", "next", "prev"}
    /\ QueryInv
    /\ page = NoPage \/ PageOfList(page)
    /\ via = "next" => PageOfList(before) /\ before.next # NoLink
    /\ via = "prev" => PageOfList(before) /\ before.prev # NoLink
    /\ caller = "rest" /\ calls = <<"getList">> =>
        /\ AsAsked(offset, limit)
        /\ pc \in {"answer", "done"} /\ status = 200 =>
               PageOfList(page) /\ AsAsked(page.offset, page.limit)

\* What a client has seen goes up to the page it holds, and begins before it.
Around(p, a, b) ==
    /\ p.offset < UpTo(N) => a <= p.offset /\ Lesser(p.offset + p.limit, UpTo(N)) <= b
    /\ p.offset >= UpTo(N) /\ a < b => b = UpTo(N)

\* What a client has seen is a stretch of the matches without a gap.
SeenInv ==
    \E a, b \in 0..UpTo(N) :
        /\ a <= b /\ seen = Between(a, b)
        /\ Shown => Around(page, a, b)
        /\ pc # "done" /\ via # "none" => Around(before, a, b)
        /\ pc # "done" /\ via = "none" => seen = {}

LEMMA Policy ==
    /\ N \in Nat /\ MaxOffset \in Nat /\ Lesser(MaxLimit, PolicyMaxLimit) \in Nat \ {0}
    /\ MaxLimit \in Nat \ {0} /\ PolicyMaxLimit \in Nat \ {0} /\ DefaultLimit \in Nat \ {0}
    /\ AskedOffsets \subseteq Seq(Int) /\ AskedLimits \subseteq Seq(Int)
    /\ Offsets \subseteq Int /\ Limits \subseteq Int
  <1>1. /\ N \in Nat /\ MaxOffset \in Nat
        /\ MaxLimit \in Nat \ {0} /\ PolicyMaxLimit \in Nat \ {0} /\ DefaultLimit \in Nat \ {0}
        /\ AskedOffsets \subseteq Seq(Int) /\ AskedLimits \subseteq Seq(Int)
        /\ Offsets \subseteq Int /\ Limits \subseteq Int
    BY WindowAssumption, PolicyAssumption DEF WindowAssumption, PolicyAssumption
  <1> QED
    BY <1>1 DEF Lesser

\* Whatever the query says, the window is within the policy's bounds.
LEMMA Clamped ==
    ASSUME NEW raw \in Seq(Int)
    PROVE  /\ ParsedOffset(raw) \in 0..MaxOffset
           /\ Lesser(MaxLimit, ParsedLimit(raw)) \in 1..Lesser(MaxLimit, PolicyMaxLimit)
  <1>1. raw # <<>> => raw[1] \in Int
    BY ElementOfSeq
  <1> QED
    BY <1>1, Policy DEF ParsedOffset, ParsedLimit, Lesser, Greater

\* A window within the bounds is asked for once more by the links of its page.
LEMMA AskedAgain ==
    ASSUME NEW l \in 1..Lesser(MaxLimit, PolicyMaxLimit)
    PROVE  Lesser(MaxLimit, ParsedLimit(<<l>>)) = l
  <1>1. <<l>> # <<>> /\ <<l>>[1] = l
    OBVIOUS
  <1> QED
    BY <1>1, Policy DEF ParsedLimit, Lesser

LEMMA WindowTyped ==
    ASSUME WindowInv
    PROVE  TypeOK
  <1>1. /\ WindowTypes /\ UpTo(pos) \in Nat /\ UpTo(N) \in Nat /\ UpTo(pos) <= UpTo(N)
    <2>1. WindowTypes /\ pos \in 0..N /\ N \in 0..N /\ pos <= N
      BY Rows DEF WindowInv, WindowTypes
    <2> QED
      BY <2>1, Growth
  <1>2. Asked => Target(UpTo(pos)) \in Seq(1..N) /\ Target(UpTo(N)) \in Seq(1..N)
    BY <1>1, TargetFacts
  <1>3. <<>> \in Seq(1..N)
    OBVIOUS
  <1>4. step \in {"count", "skip", "collect", "rest", "done"} /\ skipped \in Nat /\ total \in 0..UpTo(N)
    BY <1>1 DEF WindowInv, Skipping, Collecting, Overshot, Whole, Asked, WindowTypes
  <1>5. result \in Seq(1..N)
    BY <1>2, <1>3 DEF WindowInv, Skipping, Collecting, Overshot, Whole
  <1> QED
    BY <1>1, <1>4, <1>5 DEF TypeOK, WindowTypes

\* What comes of a list that was read to its end.
LEMMA PageTaken ==
    ASSUME WindowInv, step = "done", offset \in 0..MaxOffset,
           limit \in 1..Lesser(MaxLimit, PolicyMaxLimit)
    PROVE  PageOfList(Envelope)
  <1>1. Asked /\ WindowTypes /\ offset \in Nat /\ limit \in Nat /\ limit > 0 /\ UpTo(N) \in Nat
    BY MatchedFacts, Policy DEF Asked, WindowInv
  <1>2. result = Stretch(offset, Lesser(offset + limit, UpTo(N)))
        /\ (needTotal => total = UpTo(N))
    BY <1>1 DEF WindowInv, Whole, Target
  <1> DEFINE last == Lesser(offset + limit, UpTo(N))
  <1>3. last \in Nat /\ last <= UpTo(N)
    BY <1>1 DEF Lesser
  <1>4. result = Stretch(offset, last)
    BY <1>2
  <1> HIDE DEF last
  <1>5. /\ result \in Seq(1..N) /\ Len(result) = IF offset < last THEN last - offset ELSE 0
        /\ \A k \in 1..(last - offset) : result[k] = Matched[offset + k]
    BY <1>1, <1>3, <1>4, StretchFacts
  <1>6. DOMAIN result = 1..(last - offset)
    <2>1. DOMAIN result = 1..Len(result)
      BY <1>5
    <2> QED
      BY <1>1, <1>3, <1>5, <2>1
  <1>7. {result[i] : i \in DOMAIN result} = {Matched[k] : k \in (offset + 1)..last}
    <2>1. ASSUME NEW i \in DOMAIN result
          PROVE  offset + i \in (offset + 1)..last /\ result[i] = Matched[offset + i]
      BY <1>1, <1>3, <1>5, <1>6
    <2>2. ASSUME NEW k \in (offset + 1)..last
          PROVE  k - offset \in DOMAIN result /\ result[k - offset] = Matched[k]
      <3>1. k - offset \in 1..(last - offset) /\ offset + (k - offset) = k
        BY <1>1, <1>3
      <3> QED
        BY <1>5, <1>6, <3>1
    <2> QED
      BY <2>1, <2>2
  <1>8. Envelope.rows = Between(offset, offset + limit)
    BY <1>7 DEF Envelope, Between, last
  <1> QED
    BY <1>1, <1>2, <1>8 DEF PageOfList, Envelope, Prev, NextPage

\* Pages stay what they are while the list does.
LEMMA PagesKept ==
    ASSUME UNCHANGED <<filtered, needTotal>>
    PROVE  /\ \A p : PageOfList(p)' = PageOfList(p)
           /\ \A a, b : Between(a, b)' = Between(a, b)
  <1>1. Matched' = Matched /\ UpTo(N)' = UpTo(N)
    BY MatchesKept
  <1>2. \A a, b : Between(a, b)' = Between(a, b)
    BY <1>1 DEF Between, Lesser
  <1> QED
    BY <1>1, <1>2 DEF PageOfList, Greater, Lesser, NoLink

\* The links of a page of the list are numbers.
LEMMA Links ==
    ASSUME NEW p, PageOfList(p)
    PROVE  /\ p.next \in Seq(Int) /\ p.prev \in Seq(Int) /\ <<p.limit>> \in Seq(Int)
           /\ p.offset \in Nat /\ p.limit \in Nat \ {0}
  BY Policy DEF PageOfList, NoLink, Greater

\* The functions a call may find the ends of pages in.
LEMMA CutsTyped ==
    Cuts \subseteq [0..N -> 0..N] /\ [p \in 0..N |-> N] \in [0..N -> 0..N]
  <1>1. N \in 0..N /\ 1..N \subseteq 0..N
    BY Policy
  <1>2. Cuts \subseteq [0..N -> 1..N]
    BY DEF Cuts
  <1>3. [0..N -> 1..N] \subseteq [0..N -> 0..N]
    BY <1>1
  <1> QED
    BY <1>1, <1>2, <1>3

LEMMA WalkStart ==
    ASSUME SessionInit
    PROVE  WalkInv
  <1>1. page = NoPage /\ via = "none"
    BY DEF SessionInit
  <1>2. CASE RestInit
    <2>1. caller = "rest" /\ calls = <<>> /\ NoListYet
      BY <1>2 DEF RestInit, H!Init
    <2>2. WindowTypes
      <3>1. filtered \in BOOLEAN /\ needTotal \in BOOLEAN
        BY <1>2 DEF RestInit
      <3>2. cut \in Cuts \/ (~filtered /\ cut = [p \in 0..N |-> N])
        BY <1>2 DEF RestInit
      <3>3. cut \in [0..N -> 0..N] /\ (filtered => cut \in Cuts)
        BY <3>2, CutsTyped
      <3> QED
        BY <2>1, <3>1, <3>3, Policy DEF NoListYet, WindowTypes
    <2>3. query.offset \in Seq(Int) /\ query.limit \in Seq(Int)
      <3>1. CASE "getList" \in H!Operations(request)
        BY <1>2, <3>1, Policy DEF RestInit
      <3>2. CASE "getList" \notin H!Operations(request)
        <4>1. query = [offset |-> <<>>, limit |-> <<>>]
          BY <1>2, <3>2 DEF RestInit
        <4> QED
          BY <4>1
      <3> QED
        BY <3>1, <3>2
    <2> QED
      BY <1>1, <2>1, <2>2, <2>3 DEF WalkInv, ListInv, QueryInv
  <1>3. CASE ProgramInit
    <2>1. caller = "program" /\ Init /\ query = [offset |-> <<>>, limit |-> <<>>]
      BY <1>3 DEF ProgramInit
    <2>2. Ready
      <3>1. /\ filtered \in BOOLEAN /\ needTotal \in BOOLEAN /\ offset \in Offsets
            /\ limit \in {Lesser(MaxLimit, l) : l \in Limits}
            /\ cut \in IF filtered THEN Cuts ELSE {[p \in 0..N |-> N]}
            /\ step = FirstStep /\ pos = 0 /\ skipped = 0 /\ total = 0 /\ result = <<>>
        BY <2>1 DEF Init
      <3>2. offset \in Int /\ limit \in Int
        BY <3>1, Policy DEF Lesser
      <3>3. cut \in [0..N -> 0..N] /\ (filtered => cut \in Cuts)
        BY <3>1, CutsTyped
      <3> QED
        BY <3>1, <3>2, <3>3, Policy DEF Ready, WindowTypes
    <2> QED
      BY <1>1, <2>1, <2>2, WindowStart DEF WalkInv, ListInv, QueryInv
  <1> QED
    BY <1>2, <1>3 DEF SessionInit

\* A step that leaves the list, the query and the page alone, and takes no page for
\* answered that was not.
LEMMA WalkUndisturbed ==
    ASSUME WalkInv, UNCHANGED <<vars, caller, walk, page>>,
           calls' = <<"getList">> => calls = <<"getList">>,
           calls' = <<"getList">> /\ pc' \in {"answer", "done"} /\ status' = 200 =>
               pc \in {"answer", "done"} /\ status = 200
    PROVE  WalkInv'
  <1>1. /\ UNCHANGED <<filtered, offset, limit, needTotal, cut, step, pos, skipped, total, result>>
        /\ UNCHANGED <<query, via, before, page, caller>>
    BY DEF vars, walk
  <1>2. \A p : PageOfList(p)' = PageOfList(p)
    BY <1>1, PagesKept
  <1>3. \A o, l : AsAsked(o, l)' = AsAsked(o, l)
    BY <1>1 DEF AsAsked, ParsedOffset, ParsedLimit, Lesser, Greater
  <1>4. ListInv'
    <2>1. WindowInv => WindowInv'
      BY WindowStutter
    <2>2. NoListYet' = NoListYet /\ WindowTypes' = WindowTypes
      BY <1>1 DEF NoListYet, WindowTypes, Cuts
    <2> QED
      BY <1>1, <2>1, <2>2 DEF WalkInv, ListInv
  <1>5. QueryInv'
    BY <1>1 DEF WalkInv, QueryInv
  <1>6. PageOfList(page)' = PageOfList(page) /\ PageOfList(before)' = PageOfList(before)
    BY <1>1, <1>2
  <1>7. AsAsked(offset, limit)' = AsAsked(offset, limit)
        /\ AsAsked(page.offset, page.limit)' = AsAsked(page.offset, page.limit)
    BY <1>1, <1>3
  <1> QED
    BY <1>1, <1>4, <1>5, <1>6, <1>7 DEF WalkInv, NoPage, NoLink

LEMMA WalkCall ==
    ASSUME HandlerInv, WalkInv, CallList
    PROVE  WalkInv'
  <1>1. /\ pc' = "adapter"
        /\ offset' = ParsedOffset(query.offset)
        /\ limit' = Lesser(MaxLimit, ParsedLimit(query.limit))
        /\ UNCHANGED <<filtered, needTotal, cut>>
        /\ step' = FirstStep' /\ pos' = 0 /\ skipped' = 0 /\ total' = 0 /\ result' = <<>>
        /\ UNCHANGED <<caller, query, via, before, page>>
    BY DEF CallList, H!Call, walk
  <1>2. /\ query.offset \in Seq(Int) /\ query.limit \in Seq(Int)
        /\ WindowTypes
    BY DEF WalkInv, QueryInv, ListInv, WindowInv
  <1>3. offset' \in Int /\ limit' \in Int
    BY <1>1, <1>2, Clamped, Policy
  <1>4. Ready'
    <2>1. WindowTypes'
      BY <1>1, <1>2, <1>3, Policy DEF WindowTypes, Cuts
    <2> QED
      BY <1>1, <2>1 DEF Ready
  <1>5. Ready' => WindowInv'
    BY WindowStart, PTL
  <1>6. \A p : PageOfList(p)' = PageOfList(p)
    BY <1>1, PagesKept
  <1>7. PageOfList(page)' = PageOfList(page) /\ PageOfList(before)' = PageOfList(before)
    BY <1>1, <1>6
  <1>8. AsAsked(offset, limit)'
    BY <1>1 DEF AsAsked, ParsedOffset, ParsedLimit, Lesser, Greater
  <1> QED
    BY <1>1, <1>4, <1>5, <1>7, <1>8 DEF WalkInv, ListInv, QueryInv, NoPage, NoLink

LEMMA WalkRead ==
    ASSUME HandlerInv, WalkInv, ReadList
    PROVE  WalkInv'
  <1>1. Reading /\ Next /\ UNCHANGED <<pc, calls, status, caller, query, via, before, page>>
    BY DEF ReadList, http, walk
  <1>2. WindowInv
    BY <1>1 DEF WalkInv, ListInv, Reading
  <1>3. WindowInv'
    BY <1>1, <1>2, WindowStep
  <1>4. UNCHANGED <<filtered, offset, limit, needTotal, cut>>
    BY <1>1 DEF Next, CountOffset, SkipOffset, CountFiltered, Collect, CountRest, Fixed
  <1>5. \A p : PageOfList(p)' = PageOfList(p)
    BY <1>4, PagesKept
  <1>6. PageOfList(page)' = PageOfList(page) /\ PageOfList(before)' = PageOfList(before)
    BY <1>1, <1>5
  <1>7. AsAsked(offset, limit)' = AsAsked(offset, limit)
        /\ AsAsked(page.offset, page.limit)' = AsAsked(page.offset, page.limit)
    BY <1>1, <1>4 DEF AsAsked, ParsedOffset, ParsedLimit, Lesser, Greater
  <1> QED
    BY <1>1, <1>3, <1>6, <1>7 DEF WalkInv, ListInv, QueryInv, NoPage, NoLink

LEMMA WalkReturn ==
    ASSUME HandlerInv, WalkInv, ReturnList
    PROVE  WalkInv'
  <1>1. /\ pc = "adapter" /\ calls = <<"getList">> /\ calls' = calls /\ step = "done"
        /\ page' = Envelope
        /\ UNCHANGED <<vars, caller, query, via, before>>
    BY DEF ReturnList, H!AdapterReturns, walk
  <1>2. caller = "rest" /\ WindowInv /\ AsAsked(offset, limit)
    BY <1>1 DEF HandlerInv, NoRequest, WalkInv, ListInv
  <1>3. offset \in 0..MaxOffset /\ limit \in 1..Lesser(MaxLimit, PolicyMaxLimit)
    BY <1>2, Clamped DEF AsAsked, WalkInv, QueryInv
  <1>4. PageOfList(Envelope)
    BY <1>1, <1>2, <1>3, PageTaken
  <1>5. UNCHANGED <<filtered, offset, limit, needTotal>>
    BY <1>1 DEF vars
  <1>6. \A p : PageOfList(p)' = PageOfList(p)
    BY <1>5, PagesKept
  <1>7. PageOfList(page)' /\ PageOfList(before)' = PageOfList(before)
    BY <1>1, <1>4, <1>6
  <1>8. WindowInv'
    BY <1>1, <1>2, WindowStutter
  <1>9. AsAsked(offset, limit)' /\ AsAsked(page.offset, page.limit)'
    <2>1. page'.offset = offset /\ page'.limit = limit
      BY <1>1 DEF Envelope
    <2> QED
      BY <1>1, <1>2, <1>5, <2>1 DEF AsAsked, ParsedOffset, ParsedLimit, Lesser, Greater
  <1> QED
    BY <1>1, <1>7, <1>8, <1>9 DEF WalkInv, ListInv, QueryInv, NoPage, NoLink

LEMMA WalkFollow ==
    ASSUME HandlerInv, WalkInv, FollowNext \/ FollowPrev
    PROVE  WalkInv'
  <1>1. PICK link, name : /\ Follow(link, name)
                          /\ \/ link = page.next /\ name = "next"
                             \/ link = page.prev /\ name = "prev"
    BY DEF FollowNext, FollowPrev
  <1>2. /\ Shown /\ link # NoLink
        /\ query' = [offset |-> link, limit |-> <<page.limit>>]
        /\ via' = name /\ before' = page /\ calls' = <<>>
        /\ UNCHANGED <<vars, caller, page>>
    BY <1>1 DEF Follow
  <1>3. /\ pc = "done" /\ told = 200 /\ calls = <<"getList">>
        /\ caller = "rest" /\ status = 200
    BY <1>2 DEF Shown, HandlerInv, NoRequest, Progress
  <1>4. PageOfList(page)
    BY <1>3 DEF WalkInv
  <1>5. link \in Seq(Int) /\ <<page.limit>> \in Seq(Int)
    BY <1>1, <1>4, Links
  <1>6. UNCHANGED <<filtered, needTotal>>
    BY <1>2 DEF vars
  <1>7. PageOfList(page)' /\ PageOfList(before)'
    BY <1>2, <1>4, <1>6, PagesKept
  <1>8. ListInv'
    <2>1. WindowInv
      BY <1>3 DEF WalkInv, ListInv
    <2> QED
      BY <1>2, <2>1, WindowStutter DEF ListInv
  <1>9. QueryInv'
    BY <1>1, <1>2, <1>5 DEF QueryInv
  <1> QED
    BY <1>1, <1>2, <1>7, <1>8, <1>9 DEF WalkInv, NoPage, NoLink

LEMMA FailedIsNot200 ==
    ASSUME H!AdapterMisses \/ H!AdapterThrows
    PROVE  status' # 200
  <1>1. CASE H!AdapterMisses
    BY <1>1 DEF H!AdapterMisses, H!Answer
  <1>2. CASE H!AdapterThrows
    <2>1. PICK err \in H!Refusals \cup H!Failures : status' = H!MapErrorStatus(err)
      BY <1>2 DEF H!AdapterThrows, H!Answer
    <2>2. H!MapErrorStatus(err) # 200
      BY <2>1 DEF H!MapErrorStatus, H!Refusals, H!Failures
    <2> QED
      BY <2>1, <2>2
  <1> QED
    BY <1>1, <1>2

LEMMA WalkStep ==
    ASSUME HandlerInv, WalkInv, [SessionNext]_all
    PROVE  WalkInv'
  <1>1. CASE Route
    <2>1. UNCHANGED <<vars, caller, walk, page, calls>> /\ pc \in {"start", "body", "call"}
      BY <1>1 DEF Route, H!Malformed, H!MethodNotAllowed, H!Dispatch, H!BodyRead, H!RefuseLoad,
                  H!RefuseSort, H!outcome
    <2>2. calls = <<>>
      BY <2>1 DEF HandlerInv, NoRequest, Progress
    <2> QED
      BY <2>1, <2>2, WalkUndisturbed
  <1>2. CASE CallList
    BY <1>2, WalkCall
  <1>3. CASE CallOther
    BY <1>3, WalkUndisturbed DEF CallOther
  <1>4. CASE Respond
    BY <1>4, WalkUndisturbed DEF Respond, H!Respond
  <1>5. CASE ReturnList
    BY <1>5, WalkReturn
  <1>6. CASE ReturnOther
    BY <1>6, WalkUndisturbed DEF ReturnOther, H!AdapterReturns
  <1>7. CASE Fail
    <2>1. UNCHANGED <<vars, caller, walk, page, calls>> /\ status' # 200
      BY <1>7, FailedIsNot200 DEF Fail, H!AdapterMisses, H!AdapterThrows, H!outcome
    <2> QED
      BY <2>1, WalkUndisturbed
  <1>8. CASE ReadList
    BY <1>8, WalkRead
  <1>9. CASE Stream \/ Network
    <2>1. UNCHANGED <<vars, caller, walk, page, pc, calls, status>>
      BY <1>9 DEF Stream, Network, H!Client, H!End, H!StreamError, H!Gone, H!Data, H!outcome
    <2> QED
      BY <2>1, WalkUndisturbed
  <1>10. CASE FollowNext \/ FollowPrev
    BY <1>10, WalkFollow
  <1>11. CASE UNCHANGED all
    BY <1>11, WalkUndisturbed DEF all, http
  <1> QED
    BY <1>1, <1>2, <1>3, <1>4, <1>5, <1>6, <1>7, <1>8, <1>9, <1>10, <1>11
       DEF SessionNext, Server, Service

\* From a query to the page that answers it and on over its links: the list that is
\* read is the one that was asked for, within the policy's bounds, and an envelope
\* holds its window and leads to the windows beside it (parse-paging.js,
\* pagination-links.js:5-21, paginate-list.js).
THEOREM WalkKept == Session => [](HandlerInv /\ WalkInv)
  <1>1. SessionInit => WalkInv
    BY WalkStart
  <1>2. HandlerInv /\ WalkInv /\ [SessionNext]_all => WalkInv'
    BY WalkStep
  <1> QED
    BY <1>1, <1>2, HandlerKept, PTL DEF Session

\* However DynamoDB cuts the pages, whatever the filter and the window: paginateList
\* and paginateListFiltered return the rows of the window, and a total that counts
\* every match once (paginate-list.js:31-98, 134-164).
THEOREM WindowIsTrue == Session => []PageIsTrue
  <1>1. WalkInv => PageIsTrue
    <2> SUFFICES ASSUME WalkInv, step = "done"
                 PROVE  /\ result = IF Asked THEN Slice(Matched, offset, offset + limit) ELSE <<>>
                        /\ needTotal => total = UpTo(N)
      BY DEF PageIsTrue
    <2>1. WindowInv /\ Whole /\ (needTotal => total = UpTo(N))
      BY DEF WalkInv, ListInv, NoListYet, WindowInv
    <2>2. Target(UpTo(N)) = Slice(Matched, offset, offset + limit)
      BY MatchedFacts DEF Target, Stretch, Slice
    <2> QED
      BY <2>1, <2>2 DEF Whole
  <1> QED
    BY <1>1, WalkKept, PTL

-----------------------------------------------------------------------------
LEMMA BetweenFacts ==
    ASSUME NEW a \in Nat, NEW b \in Nat
    PROVE  /\ Between(a, b) \subseteq 1..N
           /\ \A i \in 1..N : i \in Between(a, b) <=> Match(i) /\ a < UpTo(i) /\ UpTo(i) <= b
  <1> DEFINE last == Lesser(b, UpTo(N))
  <1>1. /\ UpTo(N) \in Nat /\ last \in Nat /\ last <= UpTo(N) /\ last <= b
        /\ (b <= UpTo(N) => last = b) /\ (UpTo(N) <= b => last = UpTo(N))
    BY MatchedFacts DEF Lesser
  <1>2. Between(a, b) = {Matched[k] : k \in (a + 1)..last}
    BY DEF Between
  <1> HIDE DEF last
  <1>3. (a + 1)..last \subseteq 1..UpTo(N)
    BY <1>1
  <1>4. Between(a, b) \subseteq 1..N
    BY <1>2, <1>3, MatchedFacts
  <1>5. ASSUME NEW i \in 1..N, i \in Between(a, b)
        PROVE  Match(i) /\ a < UpTo(i) /\ UpTo(i) <= b
    <2>1. PICK k \in (a + 1)..last : i = Matched[k]
      BY <1>2, <1>5
    <2>2. Match(i) /\ UpTo(i) = k
      BY <1>3, <2>1, MatchedFacts
    <2> QED
      BY <1>1, <2>2
  <1>6. ASSUME NEW i \in 1..N, Match(i), a < UpTo(i), UpTo(i) <= b
        PROVE  i \in Between(a, b)
    <2>1. UpTo(i) \in 1..UpTo(N) /\ Matched[UpTo(i)] = i
      BY <1>6, MatchedFacts
    <2>2. UpTo(i) \in (a + 1)..last
      BY <1>1, <1>6, <2>1
    <2> QED
      BY <1>2, <2>1, <2>2
  <1> QED
    BY <1>4, <1>5, <1>6

\* The window a followed link asks for.
LEMMA NextWindow ==
    ASSUME WalkInv, via = "next", AsAsked(page.offset, page.limit)
    PROVE  /\ PageOfList(before) /\ page.limit = before.limit
           /\ page.offset = Lesser(MaxOffset, before.offset + before.limit)
  <1>1. /\ PageOfList(before) /\ before.next = <<before.offset + before.limit>>
        /\ query = [offset |-> before.next, limit |-> <<before.limit>>]
    BY DEF WalkInv, QueryInv, PageOfList
  <1>2. before.offset \in Nat /\ before.limit \in 1..Lesser(MaxLimit, PolicyMaxLimit)
    BY <1>1, Links DEF PageOfList
  <1>3. page.limit = before.limit
    BY <1>1, <1>2, AskedAgain DEF AsAsked
  <1>4. page.offset = Lesser(MaxOffset, Greater(0, before.offset + before.limit))
    BY <1>1, <1>2 DEF AsAsked, ParsedOffset
  <1>5. Greater(0, before.offset + before.limit) = before.offset + before.limit
    BY <1>1, <1>2, Links DEF Greater
  <1> QED
    BY <1>1, <1>3, <1>4, <1>5

LEMMA PrevWindow ==
    ASSUME WalkInv, via = "prev", AsAsked(page.offset, page.limit)
    PROVE  /\ PageOfList(before) /\ page.limit = before.limit /\ before.offset > 0
           /\ page.offset = Greater(0, before.offset - before.limit)
  <1>1. /\ PageOfList(before) /\ before.prev # NoLink
        /\ query = [offset |-> before.prev, limit |-> <<before.limit>>]
    BY DEF WalkInv, QueryInv
  <1>2. before.offset > 0 /\ before.prev = <<Greater(0, before.offset - before.limit)>>
    BY <1>1 DEF PageOfList
  <1>3. /\ before.offset \in 0..MaxOffset /\ before.limit \in Nat \ {0} /\ MaxOffset \in Nat
        /\ before.limit \in 1..Lesser(MaxLimit, PolicyMaxLimit)
    BY <1>1, Links, Policy DEF PageOfList
  <1>4. page.limit = before.limit
    BY <1>1, <1>3, AskedAgain DEF AsAsked
  <1>5. page.offset = Lesser(MaxOffset, Greater(0, Greater(0, before.offset - before.limit)))
    BY <1>1, <1>2 DEF AsAsked, ParsedOffset
  <1>6. page.offset = Greater(0, before.offset - before.limit)
    BY <1>3, <1>5 DEF Greater, Lesser
  <1> QED
    BY <1>1, <1>2, <1>4, <1>6

\* Links lead to pages that adjoin, as long as no offset within the list is clamped: on
\* a longer list a `next` beyond MaxOffset leads back to MaxOffset, into the page it
\* stands on (parse-paging.js:10-11, pagination-links.js:5-21).
THEOREM PagesAdjoin ==
    ASSUME N <= MaxOffset
    PROVE  Session => []LinksAdjoin
  <1>1. HandlerInv /\ WalkInv => LinksAdjoin
    <2> SUFFICES ASSUME HandlerInv, WalkInv, InHand PROVE LinksAdjoin
      BY DEF LinksAdjoin
    <2>1. PageOfList(page) /\ AsAsked(page.offset, page.limit)
      BY DEF InHand, HandlerInv, NoRequest, WalkInv
    <2>2. UpTo(N) \in Nat /\ UpTo(N) <= MaxOffset /\ MaxOffset \in Nat /\ N \in Nat
      <3>1. UpTo(N) \in Nat /\ UpTo(0) = 0 /\ UpTo(N) - UpTo(0) <= N - 0 /\ N \in Nat
        BY Growth, Policy
      <3> QED
        BY <3>1, Policy
    <2>3. /\ page.offset \in Nat /\ page.limit \in Nat \ {0}
          /\ page.rows = Between(page.offset, page.offset + page.limit)
      BY <2>1, Links DEF PageOfList
    <2>4. /\ \A i \in 1..N : UpTo(i) \in Nat /\ UpTo(i) <= UpTo(N)
          /\ \A i, j \in 1..N : i <= j => UpTo(i) <= UpTo(j)
          /\ \A i, j \in 1..N : Match(j) /\ i < j => UpTo(i) < UpTo(j)
      <3>1. \A i, j \in 1..N : i <= j => UpTo(i) \in Nat /\ UpTo(i) <= UpTo(j)
        BY <2>2, Growth
      <3>2. \A i, j \in 1..N : Match(j) /\ i < j => UpTo(i) < UpTo(j)
        BY CountsRise
      <3>3. \A i \in 1..N : UpTo(i) \in Nat /\ UpTo(i) <= UpTo(N)
        BY <2>2, <3>1
      <3> QED
        BY <3>1, <3>2, <3>3
    <2>5. ASSUME via = "next", before.rows # {}, NEW i \in 1..N
          PROVE  /\ i \in page.rows => \A j \in before.rows : j < i
                 /\ Match(i) /\ (\A j \in before.rows : j < i) =>
                        page.rows # {} /\ \E j \in page.rows : j <= i
      <3> DEFINE o == before.offset
                 l == before.limit
      <3>1. /\ o \in Nat /\ l \in Nat \ {0} /\ before.rows = Between(o, o + l)
            /\ page.limit = l /\ page.offset = Lesser(MaxOffset, o + l)
        BY <2>1, <2>5, NextWindow, Links DEF PageOfList
      <3> HIDE DEF o, l
      <3>2. /\ before.rows \subseteq 1..N
            /\ \A j \in 1..N : j \in before.rows <=> Match(j) /\ o < UpTo(j) /\ UpTo(j) <= o + l
        BY <3>1, BetweenFacts
      <3>3. \A j \in 1..N : j \in page.rows <=>
                Match(j) /\ page.offset < UpTo(j) /\ UpTo(j) <= page.offset + page.limit
        BY <2>3, BetweenFacts
      <3>4. ASSUME i \in page.rows, NEW j \in before.rows
            PROVE  j < i
        <4>1. UpTo(j) <= o + l /\ page.offset < UpTo(i) /\ UpTo(i) <= UpTo(N) /\ j \in 1..N
          BY <2>4, <3>2, <3>3, <3>4
        <4>2. UpTo(j) < UpTo(i)
          BY <2>2, <2>4, <3>1, <4>1 DEF Lesser
        <4> QED
          BY <2>4, <4>1, <4>2
      <3>5. ASSUME Match(i), \A j \in before.rows : j < i
            PROVE  \E j \in page.rows : j <= i
        <4>1. PICK j \in before.rows : TRUE
          BY <2>5
        <4>2. j \in 1..N /\ o < UpTo(j) /\ UpTo(j) <= UpTo(i)
          BY <2>4, <3>2, <3>5, <4>1
        <4>3. i \notin before.rows
          BY <3>5
        <4>4. o + l < UpTo(i)
          BY <2>4, <3>1, <3>2, <3>5, <4>2, <4>3
        <4>5. page.offset = o + l
          BY <2>2, <2>4, <3>1, <4>4 DEF Lesser
        <4>6. o + l + 1 \in 1..UpTo(N)
          BY <2>2, <2>4, <3>1, <4>4
        <4> DEFINE m == Matched[o + l + 1]
        <4>7. m \in 1..N /\ Match(m) /\ UpTo(m) = o + l + 1
          BY <4>6, MatchedFacts
        <4> HIDE DEF m
        <4>8. m \in page.rows
          BY <3>1, <3>3, <4>5, <4>7
        <4>9. m <= i
          BY <2>4, <3>1, <4>4, <4>7
        <4> QED
          BY <4>8, <4>9
      <3> QED
        BY <3>4, <3>5
    <2>6. ASSUME via = "prev"
          PROVE  /\ page.offset < before.offset
                 /\ page.offset + page.limit >= before.offset
                 /\ page.offset + page.limit > before.offset => page.offset = 0
                 /\ before.rows # {} =>
                        \A i \in 1..N :
                            Match(i) /\ (\A j \in page.rows : j < i) =>
                                \E j \in before.rows : j <= i
      <3> DEFINE o == before.offset
                 l == before.limit
      <3>1. /\ o \in Nat /\ o > 0 /\ l \in Nat \ {0} /\ before.rows = Between(o, o + l)
            /\ page.limit = l /\ page.offset = Greater(0, o - l)
        BY <2>1, <2>6, PrevWindow, Links DEF PageOfList
      <3> HIDE DEF o, l
      <3>2. /\ page.offset < o /\ page.offset + page.limit >= o
            /\ page.offset + page.limit > o => page.offset = 0
        BY <3>1 DEF Greater
      <3>3. ASSUME before.rows # {}, NEW i \in 1..N, Match(i), \A j \in page.rows : j < i
            PROVE  \E j \in before.rows : j <= i
        <4>1. /\ before.rows \subseteq 1..N
              /\ \A j \in 1..N : j \in before.rows <=> Match(j) /\ o < UpTo(j) /\ UpTo(j) <= o + l
          BY <3>1, BetweenFacts
        <4>2. \A j \in 1..N : j \in page.rows <=>
                  Match(j) /\ page.offset < UpTo(j) /\ UpTo(j) <= page.offset + page.limit
          BY <2>3, BetweenFacts
        <4>3. PICK some \in before.rows : TRUE
          BY <3>3
        <4>4. o < UpTo(N)
          BY <2>2, <2>4, <3>1, <4>1, <4>3
        <4> DEFINE last == Matched[o]
                   m == Matched[o + 1]
        <4>5. o \in 1..UpTo(N) /\ o + 1 \in 1..UpTo(N)
          BY <2>2, <3>1, <4>4
        <4>6. /\ last \in 1..N /\ Match(last) /\ UpTo(last) = o
              /\ m \in 1..N /\ Match(m) /\ UpTo(m) = o + 1
          BY <4>5, MatchedFacts
        <4> HIDE DEF last, m
        <4>7. last \in page.rows
          BY <2>3, <3>1, <3>2, <4>2, <4>6
        <4>8. o < UpTo(i)
          BY <2>4, <3>3, <4>6, <4>7
        <4>9. m <= i
          BY <2>4, <3>1, <4>6, <4>8
        <4>10. m \in before.rows
          BY <3>1, <4>1, <4>6
        <4> QED
          BY <4>9, <4>10
      <3> QED
        BY <3>2, <3>3 DEF o
    <2> QED
      BY <2>5, <2>6 DEF LinksAdjoin
  <1> QED
    BY <1>1, WalkKept, PTL

\* Stretches that overlap or adjoin make one.
LEMMA JoinBetween ==
    ASSUME NEW a \in Nat, NEW b \in Nat, NEW c \in Nat, NEW d \in Nat,
           a <= b, c <= d, c <= b, a <= d
    PROVE  Between(a, b) \cup Between(c, d) = Between(Lesser(a, c), Greater(b, d))
  <1> DEFINE e == Lesser(a, c)
             f == Greater(b, d)
  <1>1. /\ e \in Nat /\ f \in Nat /\ e <= a /\ e <= c /\ b <= f /\ d <= f
        /\ (e = a \/ e = c) /\ (f = b \/ f = d)
    BY DEF Lesser, Greater
  <1> HIDE DEF e, f
  <1>2. /\ Between(a, b) \subseteq 1..N /\ Between(c, d) \subseteq 1..N /\ Between(e, f) \subseteq 1..N
        /\ \A i \in 1..N : i \in Between(a, b) <=> Match(i) /\ a < UpTo(i) /\ UpTo(i) <= b
        /\ \A i \in 1..N : i \in Between(c, d) <=> Match(i) /\ c < UpTo(i) /\ UpTo(i) <= d
        /\ \A i \in 1..N : i \in Between(e, f) <=> Match(i) /\ e < UpTo(i) /\ UpTo(i) <= f
    BY <1>1, BetweenFacts
  <1>3. \A i \in 1..N : UpTo(i) \in Nat
    BY Policy, Growth
  <1>4. ASSUME NEW i \in 1..N
        PROVE  i \in Between(e, f) <=> i \in Between(a, b) \/ i \in Between(c, d)
    <2>1. UpTo(i) \in Nat
      BY <1>3
    <2> QED
      BY <1>1, <1>2, <2>1
  <1>5. Between(a, b) \cup Between(c, d) = Between(e, f)
    BY <1>2, <1>4
  <1> QED
    BY <1>5 DEF e, f

\* A page that is shown adds to what was seen, and leaves no gap.
LEMMA SeenGrows ==
    ASSUME WalkInv, PageOfList(page), AsAsked(page.offset, page.limit),
           NEW a \in 0..UpTo(N), NEW b \in 0..UpTo(N), a <= b, seen = Between(a, b),
           via # "none" => Around(before, a, b),
           via = "none" => seen = {}
    PROVE  \E c, d \in 0..UpTo(N) :
               c <= d /\ seen \cup page.rows = Between(c, d) /\ Around(page, c, d)
  <1> DEFINE M == UpTo(N)
             o == page.offset
             l == page.limit
             e == Lesser(o + l, M)
  <1>1. /\ M \in Nat /\ o \in Nat /\ l \in Nat \ {0} /\ page.rows = Between(o, o + l)
        /\ a \in 0..M /\ b \in 0..M
    BY MatchedFacts, Links DEF PageOfList
  <1>2. e \in 0..M /\ (o < M => o < e)
    BY <1>1 DEF Lesser
  <1>3. Between(o, e) = Between(o, o + l)
    <2>1. Lesser(e, M) = Lesser(o + l, M)
      BY <1>1 DEF Lesser
    <2> QED
      BY <2>1 DEF Between
  <1>4. ASSUME NEW c, NEW d, o < M => c <= o /\ e <= d, o >= M /\ c < d => d = M
        PROVE  Around(page, c, d)
    BY <1>4 DEF Around
  <1>5. Between(0, 0) = {} /\ (o >= M => Between(o, e) = {})
    BY <1>1, <1>2 DEF Between, Lesser
  <1>6. CASE seen = {}
    <2>1. CASE o < M
      <3>1. Around(page, o, e)
        BY <1>1, <1>2, <1>4, <2>1
      <3> QED
        BY <1>1, <1>2, <1>3, <1>6, <2>1, <3>1
    <2>2. CASE o >= M
      <3>1. Around(page, 0, 0)
        BY <1>1, <1>4, <2>2
      <3> QED
        BY <1>1, <1>3, <1>5, <1>6, <2>2, <3>1
    <2> QED
      BY <1>1, <2>1, <2>2
  <1>7. CASE seen # {}
    <2>1. a < b
      <3>1. a = b => Between(a, b) = {}
        BY <1>1 DEF Between, Lesser
      <3> QED
        BY <1>1, <1>7, <3>1
    <2> DEFINE p == before.offset
               q == before.limit
    <2>2. /\ PageOfList(before) /\ p \in 0..MaxOffset /\ q \in Nat \ {0} /\ MaxOffset \in Nat
          /\ l = q
          /\ o = Lesser(MaxOffset, p + q) \/ (p > 0 /\ o = Greater(0, p - q))
      <3>1. via = "next" \/ via = "prev"
        BY <1>7 DEF WalkInv
      <3>2. PageOfList(before)
        BY <3>1 DEF WalkInv
      <3>3. p \in 0..MaxOffset /\ q \in Nat \ {0} /\ MaxOffset \in Nat
        BY <3>2, Links, Policy DEF PageOfList
      <3> QED
        BY <3>1, <3>2, <3>3, NextWindow, PrevWindow
    <2>3. /\ p < M => a <= p /\ Lesser(p + q, M) <= b
          /\ p >= M => b = M
      BY <1>7, <2>1 DEF WalkInv, Around
    <2> HIDE DEF M, o, l, e, p, q
    <2>4. CASE o >= M
      <3>1. b = M
        BY <1>1, <2>2, <2>3, <2>4 DEF Lesser, Greater
      <3>2. Around(page, a, b)
        BY <1>1, <1>4, <2>4, <3>1
      <3> QED
        BY <1>1, <1>3, <1>5, <2>4, <3>2 DEF M
    <2>5. CASE o < M
      <3>1. o <= b /\ a <= e
        BY <1>1, <1>2, <2>1, <2>2, <2>3, <2>5 DEF Lesser, Greater, e
      <3> DEFINE c == Lesser(a, o)
                 d == Greater(b, e)
      <3>2. c \in 0..M /\ d \in 0..M /\ c <= d /\ c <= o /\ e <= d
        BY <1>1, <1>2, <2>5, <3>1 DEF Lesser, Greater
      <3>3. Between(a, b) \cup Between(o, e) = Between(c, d)
        BY <1>1, <1>2, <2>1, <2>5, <3>1, JoinBetween
      <3>4. Around(page, c, d)
        BY <1>1, <1>4, <2>5, <3>2
      <3> HIDE DEF c, d
      <3> QED
        BY <1>1, <1>3, <3>2, <3>3, <3>4 DEF M
    <2> QED
      BY <1>1, <2>4, <2>5
  <1> QED
    BY <1>6, <1>7

\* Where the client stands does not change with a step that shows it nothing.
LEMMA SeenUndisturbed ==
    ASSUME SeenInv, UNCHANGED <<filtered, before, via, seen>>,
           Shown' => Shown /\ page' = page, pc' # "done" => pc # "done"
    PROVE  SeenInv'
  <1>1. Matched' = Matched /\ UpTo(N)' = UpTo(N)
    BY MatchesKept
  <1>2. PICK a, b \in 0..UpTo(N) :
            /\ a <= b /\ seen = Between(a, b)
            /\ Shown => Around(page, a, b)
            /\ pc # "done" /\ via # "none" => Around(before, a, b)
            /\ pc # "done" /\ via = "none" => seen = {}
    BY DEF SeenInv
  <1>3. Between(a, b)' = Between(a, b)
    BY <1>1 DEF Between, Lesser
  <1>4. page' = page => Around(page, a, b)' = Around(page, a, b)
    BY <1>1 DEF Around, Lesser
  <1>5. Around(before, a, b)' = Around(before, a, b)
    BY <1>1 DEF Around, Lesser
  <1>6. a \in 0..(UpTo(N))' /\ b \in 0..(UpTo(N))'
    BY <1>1
  <1>7. /\ a <= b /\ seen' = Between(a, b)'
        /\ Shown' => Around(page, a, b)'
        /\ pc' # "done" /\ via' # "none" => Around(before, a, b)'
        /\ pc' # "done" /\ via' = "none" => seen' = {}
    BY <1>2, <1>3, <1>4, <1>5
  <1> QED
    BY <1>6, <1>7 DEF SeenInv

LEMMA SeenShown ==
    ASSUME HandlerInv, WalkInv, SeenInv, Respond
    PROVE  SeenInv'
  <1>1. /\ pc = "answer" /\ pc' = "done" /\ told' \in {status, told}
        /\ UNCHANGED <<request, calls, vars, caller, query, via, before, page>>
        /\ seen' = IF told' = 200 /\ calls = <<"getList">> /\ request.method = "GET"
                   THEN seen \cup page.rows ELSE seen
    BY DEF Respond, H!Respond, H!body, walk
  <1>2. told = 0 /\ caller = "rest"
    BY <1>1 DEF HandlerInv, NoRequest, Progress
  <1>3. UNCHANGED <<filtered, needTotal>>
    BY <1>1 DEF vars
  <1>4. CASE ~(told' = 200 /\ calls = <<"getList">> /\ request.method = "GET")
    <2>1. ~Shown'
      BY <1>1, <1>4 DEF Shown
    <2> QED
      BY <1>1, <1>3, <1>4, <2>1, SeenUndisturbed
  <1>5. CASE told' = 200 /\ calls = <<"getList">> /\ request.method = "GET"
    <2>1. PageOfList(page) /\ AsAsked(page.offset, page.limit)
      BY <1>1, <1>2, <1>5 DEF WalkInv
    <2>2. PICK a, b \in 0..UpTo(N) :
              /\ a <= b /\ seen = Between(a, b)
              /\ via # "none" => Around(before, a, b)
              /\ via = "none" => seen = {}
      BY <1>1 DEF SeenInv
    <2>3. PICK c, d \in 0..UpTo(N) :
              c <= d /\ seen \cup page.rows = Between(c, d) /\ Around(page, c, d)
      BY <2>1, <2>2, SeenGrows
    <2>4. Matched' = Matched /\ UpTo(N)' = UpTo(N)
      BY <1>3, MatchesKept
    <2>5. Between(c, d)' = Between(c, d) /\ Around(page, c, d)' = Around(page, c, d)
      BY <1>1, <2>4 DEF Between, Around, Lesser
    <2>6. c \in 0..(UpTo(N))' /\ d \in 0..(UpTo(N))'
      BY <2>3, <2>4
    <2>7. c <= d /\ seen' = Between(c, d)' /\ Around(page, c, d)'
      BY <1>1, <1>5, <2>3, <2>5
    <2> QED
      BY <1>1, <2>6, <2>7 DEF SeenInv
  <1> QED
    BY <1>4, <1>5

LEMMA SeenFollowed ==
    ASSUME SeenInv, FollowNext \/ FollowPrev
    PROVE  SeenInv'
  <1>1. /\ Shown /\ via' \in {"next", "prev"} /\ before' = page /\ pc' = "start"
        /\ UNCHANGED <<vars, seen>>
    BY DEF FollowNext, FollowPrev, Follow
  <1>2. PICK a, b \in 0..UpTo(N) : a <= b /\ seen = Between(a, b) /\ Around(page, a, b)
    BY <1>1 DEF SeenInv
  <1>3. Matched' = Matched /\ UpTo(N)' = UpTo(N)
    BY <1>1, MatchesKept DEF vars
  <1>4. Between(a, b)' = Between(a, b) /\ Around(before, a, b)'
    BY <1>1, <1>2, <1>3 DEF Between, Around, Lesser
  <1>5. a \in 0..(UpTo(N))' /\ b \in 0..(UpTo(N))' /\ ~Shown'
    BY <1>1, <1>3 DEF Shown
  <1>6. a <= b /\ seen' = Between(a, b)' /\ Around(before, a, b)'
    BY <1>1, <1>2, <1>4
  <1> QED
    BY <1>1, <1>5, <1>6 DEF SeenInv

LEMMA SeenStart ==
    ASSUME SessionInit
    PROVE  SeenInv
  <1>1. seen = {} /\ ~Shown /\ (via = "none")
    BY DEF SessionInit, RestInit, ProgramInit, H!Init, Shown
  <1>2. 0 \in 0..UpTo(N) /\ Between(0, 0) = {}
    BY MatchedFacts DEF Between, Lesser
  <1> QED
    BY <1>1, <1>2 DEF SeenInv

LEMMA SeenStep ==
    ASSUME HandlerInv, WalkInv, SeenInv, [SessionNext]_all
    PROVE  SeenInv'
  <1>1. CASE Respond
    BY <1>1, SeenShown
  <1>2. CASE FollowNext \/ FollowPrev
    BY <1>2, SeenFollowed
  <1>3. CASE Route \/ CallOther \/ ReturnOther \/ Fail
    <2>1. /\ UNCHANGED <<vars, walk, page, seen, told>> /\ pc # "done"
      BY <1>3 DEF Route, CallOther, ReturnOther, Fail, H!Malformed, H!MethodNotAllowed, H!Dispatch,
                  H!BodyRead, H!RefuseLoad, H!RefuseSort, H!Call, H!AdapterReturns,
                  H!AdapterMisses, H!AdapterThrows, H!outcome
    <2>2. told = 0
      BY <2>1 DEF HandlerInv, NoRequest, Progress
    <2> QED
      BY <2>1, <2>2, SeenUndisturbed DEF vars, walk, Shown
  <1>4. CASE CallList
    BY <1>4, SeenUndisturbed DEF CallList, H!Call, walk, Shown
  <1>5. CASE ReturnList
    BY <1>5, SeenUndisturbed DEF ReturnList, H!AdapterReturns, H!Answer, vars, walk, Shown
  <1>6. CASE ReadList
    <2>1. /\ UNCHANGED <<filtered, before, via, seen, page, pc, told, calls, request>>
      BY <1>6 DEF ReadList, Next, CountOffset, SkipOffset, CountFiltered, Collect, CountRest,
                  Fixed, http, walk
    <2> QED
      BY <2>1, SeenUndisturbed DEF Shown
  <1>7. CASE Stream \/ Network \/ UNCHANGED all
    <2>1. UNCHANGED <<vars, walk, page, seen, pc, told, calls, request>>
      BY <1>7 DEF Stream, Network, H!Client, H!End, H!StreamError, H!Gone, H!Data, H!outcome,
                  all, http
    <2> QED
      BY <2>1, SeenUndisturbed DEF vars, walk, Shown
  <1> QED
    BY <1>1, <1>2, <1>3, <1>4, <1>5, <1>6, <1>7 DEF SessionNext, Server, Service

\* What a client was shown is a stretch of the matches without a gap, up to the page it
\* holds, whichever links it followed and however its offsets were clamped.
THEOREM SeenKept == Session => []SeenInv
  <1>1. SessionInit => SeenInv
    BY SeenStart
  <1>2. HandlerInv /\ WalkInv /\ SeenInv /\ [SessionNext]_all => SeenInv'
    BY SeenStep
  <1> QED
    BY <1>1, <1>2, WalkKept, PTL DEF Session

\* A client at a page without a next one missed no match since the first it was shown.
THEOREM NothingMissed == Session => []AllSeen
  <1>1. HandlerInv /\ WalkInv /\ SeenInv => AllSeen
    <2> SUFFICES ASSUME HandlerInv, WalkInv, SeenInv, Shown, page.next = NoLink,
                        NEW i \in seen, NEW j \in 1..N, i < j, Match(j)
                 PROVE  j \in seen
      BY DEF AllSeen
    <2>1. PageOfList(page)
      BY DEF Shown, HandlerInv, NoRequest, Progress, WalkInv
    <2>2. /\ page.offset \in Nat /\ page.limit \in Nat \ {0} /\ UpTo(N) \in Nat
          /\ page.offset + page.limit >= UpTo(N)
      <3>1. page.offset \in Nat /\ page.limit \in Nat \ {0} /\ UpTo(N) \in Nat
        BY <2>1, Links, MatchedFacts
      <3>2. page.next # <<page.offset + page.limit>>
        BY DEF NoLink
      <3> QED
        BY <2>1, <3>1, <3>2 DEF PageOfList
    <2>3. PICK a, b \in 0..UpTo(N) : seen = Between(a, b) /\ Around(page, a, b)
      BY DEF SeenInv
    <2>4. /\ seen \subseteq 1..N
          /\ \A k \in 1..N : k \in seen <=> Match(k) /\ a < UpTo(k) /\ UpTo(k) <= b
      BY <2>2, <2>3, BetweenFacts
    <2>5. /\ i \in 1..N /\ a < UpTo(i) /\ UpTo(i) <= b
          /\ UpTo(i) \in Nat /\ UpTo(j) \in Nat /\ UpTo(i) < UpTo(j) /\ UpTo(j) <= UpTo(N)
      BY <2>4, Policy, Growth, CountsRise
    <2>6. b = UpTo(N)
      BY <2>2, <2>3, <2>5 DEF Around, Lesser
    <2> QED
      BY <2>2, <2>4, <2>5, <2>6
  <1> QED
    BY <1>1, WalkKept, SeenKept, PTL

LEMMA HttpTyped ==
    ASSUME HandlerInv
    PROVE  H!TypeOK
  <1>1. /\ calls = <<>> \/ (\E op \in DOMAIN H!Routes : calls = <<op>>)
        /\ status \in {0, 200, 204, 400, 404, 405, 409, 413, 422, 429, 500, 503}
        /\ (answers = <<>> /\ told = 0) \/ (answers = <<status>> /\ told \in {0, status})
        /\ pc \in {"start", "body", "call", "adapter", "answer", "done"}
    <2>1. /\ status \in {0, 200, 204, 400, 404, 405, 409, 413, 422, 429, 500, 503}
          /\ pc \in {"start", "body", "call", "adapter", "answer", "done"}
      BY DEF HandlerInv, NoRequest, Progress, StatusTrue
    <2>2. (answers = <<>> /\ told = 0) \/ (answers = <<status>> /\ told \in {0, status})
      BY DEF HandlerInv, NoRequest, Progress
    <2>3. calls = <<>> \/ Called
      BY DEF HandlerInv, NoRequest, Progress
    <2> QED
      BY <2>1, <2>2, <2>3 DEF Called, H!Operations
  <1>2. Len(calls) <= 1 /\ \A i \in DOMAIN calls : calls[i] \in DOMAIN H!Routes
    <2>1. CASE calls = <<>>
      BY <2>1
    <2>2. CASE \E op \in DOMAIN H!Routes : calls = <<op>>
      <3>1. PICK op \in DOMAIN H!Routes : calls = <<op>>
        BY <2>2
      <3>2. Len(calls) = 1 /\ DOMAIN calls = {1} /\ calls[1] = op
        BY <3>1
      <3> QED
        BY <3>2
    <2> QED
      BY <1>1, <2>1, <2>2
  <1>3. Len(answers) <= 2 /\ told \in {0} \cup {answers[i] : i \in DOMAIN answers}
    <2>1. CASE answers = <<>>
      BY <1>1, <2>1
    <2>2. CASE answers = <<status>>
      <3>1. DOMAIN answers = {1} /\ answers[1] = status /\ Len(answers) = 1
        BY <2>2
      <3> QED
        BY <1>1, <3>1
    <2> QED
      BY <1>1, <2>1, <2>2
  <1> QED
    BY <1>1, <1>2, <1>3 DEF HandlerInv, ReaderInv, H!TypeOK

\* Every variable keeps to its type: the windows to the policy's bounds, what is read
\* and shown to the rows of the range, the handler to the statuses it knows.
THEOREM SessionTyped == Session => []SessionTypeOK
  <1>1. HandlerInv /\ WalkInv /\ SeenInv => SessionTypeOK
    <2> SUFFICES ASSUME HandlerInv, WalkInv, SeenInv PROVE SessionTypeOK
      OBVIOUS
    <2>1. TypeOK
      <3>1. CASE WindowInv
        BY <3>1, WindowTyped
      <3>2. CASE NoListYet /\ WindowTypes
        BY <3>2, MatchedFacts DEF NoListYet, WindowTypes, TypeOK
      <3> QED
        BY <3>1, <3>2 DEF WalkInv, ListInv
    <2>2. H!TypeOK
      BY HttpTyped
    <2>3. /\ page.offset \in 0..MaxOffset /\ page.limit \in 0..Lesser(MaxLimit, PolicyMaxLimit)
          /\ page.rows \subseteq 1..N
      <3>1. CASE page = NoPage
        BY <3>1, Policy DEF NoPage
      <3>2. CASE PageOfList(page)
        <4>1. page.offset \in Nat /\ page.offset + page.limit \in Nat
          BY <3>2, Links
        <4> QED
          BY <3>2, <4>1, BetweenFacts, Policy DEF PageOfList
      <3> QED
        BY <3>1, <3>2 DEF WalkInv
    <2>4. seen \subseteq 1..N
      <3>1. PICK a, b \in 0..UpTo(N) : seen = Between(a, b)
        BY DEF SeenInv
      <3>2. a \in Nat /\ b \in Nat
        BY MatchedFacts
      <3> QED
        BY <3>1, <3>2, BetweenFacts
    <2> QED
      BY <2>1, <2>2, <2>3, <2>4 DEF SessionTypeOK, HandlerInv, WalkInv
  <1> QED
    BY <1>1, WalkKept, SeenKept, PTL

(***************************************************************************)
(* ListRequest.                                                            *)
(***************************************************************************)
-----------------------------------------------------------------------------
\* What a request is made into.

Left(r, index) ==
    {r.clauses[i] : i \in DOMAIN r.clauses \ Promoted(r.clauses, KeySchema(index))}

SearchConditions(r) ==
    IF r.search = {} \/ Searched(r) = {} THEN {}
    ELSE {[attrs |-> {Mirror[f] : f \in Searched(r)}, op |-> "ct", accepts |-> r.search]}

AgeConditions(r) ==
    IF r.asOf = {} THEN {}
    ELSE {[attrs |-> {CreatedAt}, op |-> "range", accepts |-> r.asOf]}

HidingConditions(r, keyed) ==
    IF r.descriptor \/ keyed THEN {}
    ELSE {[attrs |-> {PartitionKey}, op |-> "ne", accepts |-> Values \ {DescriptorKey}]}

ListKey(r, index) ==
    [i \in DOMAIN r.example \cup Promoted(r.clauses, KeySchema(index)) |->
        IF i \in Promoted(r.clauses, KeySchema(index)) THEN r.clauses[i] ELSE r.example[i]]

\* A list is sent with every clause in the key or in the filter, and with the search,
\* the age and what hides the descriptor in the filter.
LEMMA ListSent ==
    ASSUME NEW r, Filters(r), NEW index
    PROVE  ListParams(r, index) =
              [index |-> index, consistent |-> r.consistent, key |-> ListKey(r, index),
               filter |-> Left(r, index) \cup SearchConditions(r) \cup AgeConditions(r)
                            \cup HidingConditions(r, DOMAIN ListKey(r, index) # {}),
               fields |-> IF Indirect(index) THEN KeyAttributes ELSE r.fields]
  <1> DEFINE fields == IF Indirect(index) THEN KeyAttributes ELSE r.fields
             Sent(key, filter) == [index |-> index, consistent |-> r.consistent, key |-> key,
                                   filter |-> filter, fields |-> fields]
             built == BuildListParams(r, index)
             hop == IF Indirect(index) THEN [built EXCEPT !.fields = KeyAttributes] ELSE built
             key == ListKey(r, index)
             left == Left(r, index)
  <1>1. hop = Sent(r.example, {})
    BY DEF BuildListParams, Filters
  <1>2. ApplyFilter(Sent(r.example, {}), r.clauses) = Sent(key, left)
    <2> DEFINE p == Sent(r.example, {})
               q == Sent(key, {})
    <2>1. p.index = index /\ p.key = r.example
      OBVIOUS
    <2>2. /\ \A k : [p EXCEPT !.key = k] = Sent(k, {})
          /\ [q EXCEPT !.filter = q.filter \cup left] = Sent(key, left)
      <3> HIDE DEF key, left, fields
      <3> QED
        OBVIOUS
    <2>3. {r.clauses[i] : i \in DOMAIN r.clauses \ Promoted(r.clauses, KeySchema(index))} = left
      BY DEF Left
    <2>4. ApplyFilter(p, r.clauses) = [[p EXCEPT !.key = key] EXCEPT !.filter =
                                          [p EXCEPT !.key = key].filter \cup left]
      <3> HIDE DEF p, left
      <3> QED
        BY <2>1, <2>3, Zenon DEF ApplyFilter, ListKey
    <2> HIDE DEF left, key, p, q, Sent
    <2> QED
      BY <2>2, <2>4 DEF p, q
  <1>3. BuildSearch(Sent(key, left), r.search, r.fields) = Sent(key, left \cup SearchConditions(r))
    <2>1. Searched(r) = IF r.fields = AllFields THEN DOMAIN Mirror ELSE DOMAIN Mirror \cap r.fields
      BY DEF Searched
    <2> HIDE DEF key, left, fields
    <2> QED
      BY <2>1 DEF BuildSearch, SearchConditions
  <1>4. ASSUME NEW filter
        PROVE  ApplyAsOf(Sent(key, filter), r.asOf) = Sent(key, filter \cup AgeConditions(r))
    <2> HIDE DEF key, fields
    <2> QED
      BY DEF ApplyAsOf, AgeConditions
  <1>5. ASSUME NEW filter
        PROVE  HideDescriptor(Sent(key, filter), r.descriptor)
                  = Sent(key, filter \cup HidingConditions(r, DOMAIN key # {}))
    <2> HIDE DEF key, fields
    <2> QED
      BY DEF HideDescriptor, HidingConditions
  <1> HIDE DEF hop, Sent, key, left
  <1>6. ListParams(r, index)
          = HideDescriptor(ApplyAsOf(BuildSearch(ApplyFilter(hop, r.clauses), r.search, r.fields),
                                     r.asOf), r.descriptor)
    BY DEF ListParams, hop, built
  <1>7. ListParams(r, index)
          = Sent(key, (left \cup SearchConditions(r) \cup AgeConditions(r))
                        \cup HidingConditions(r, DOMAIN key # {}))
    BY <1>1, <1>2, <1>3, <1>4, <1>5, <1>6
  <1> QED
    BY <1>7 DEF Sent, key, left, fields

\* A mass operation is sent with its example and what hides the descriptor, and with
\* the age.
LEMMA MassSent ==
    ASSUME NEW r, ~Filters(r), NEW index
    PROVE  MassParams(r, index) =
              [index |-> index, consistent |-> r.consistent, key |-> r.example,
               filter |-> AgeConditions(r) \cup HidingConditions(r, DOMAIN r.example # {}),
               fields |-> IF r.op = "delete" THEN KeyAttributes ELSE AllFields]
  <1> DEFINE fields == IF r.op = "delete" THEN KeyAttributes ELSE AllFields
             Sent(filter) == [index |-> index, consistent |-> r.consistent, key |-> r.example,
                              filter |-> filter, fields |-> fields]
             built == BuildListParams(r, index)
             keys == IF r.op = "delete" THEN [built EXCEPT !.fields = KeyAttributes] ELSE built
  <1>1. keys = Sent({})
    BY DEF BuildListParams, Filters
  <1>2. ApplyAsOf(Sent({}), r.asOf) = Sent(AgeConditions(r))
    <2> HIDE DEF fields
    <2> QED
      BY DEF ApplyAsOf, AgeConditions
  <1>3. ASSUME NEW filter
        PROVE  HideDescriptor(Sent(filter), r.descriptor)
                  = Sent(filter \cup HidingConditions(r, DOMAIN r.example # {}))
    <2> HIDE DEF fields
    <2> QED
      BY DEF HideDescriptor, HidingConditions
  <1> HIDE DEF keys, Sent
  <1>4. MassParams(r, index) = HideDescriptor(ApplyAsOf(keys, r.asOf), r.descriptor)
    BY DEF MassParams, keys, built
  <1>5. MassParams(r, index) = Sent(AgeConditions(r) \cup HidingConditions(r, DOMAIN r.example # {}))
    BY <1>1, <1>2, <1>3, <1>4
  <1> QED
    BY <1>5 DEF Sent, fields

-----------------------------------------------------------------------------
\* Conditions.

\* Attributes that an index has are in its rows as they are in the items.
LEMMA RowMeets ==
    ASSUME NEW item, NEW index, NEW c, index = Base \/ c.attrs \subseteq Projected(index)
    PROVE  Meets(IndexRow(item, index), c) <=> Meets(item, c)
  <1>1. CASE index = Base
    BY <1>1 DEF IndexRow
  <1>2. CASE index # Base
    <2> DEFINE kept == DOMAIN item \cap Projected(index)
    <2>1. IndexRow(item, index) = [a \in kept |-> item[a]]
      BY <1>2 DEF IndexRow, Restrict
    <2>2. \A a \in c.attrs : Value(IndexRow(item, index), a) = Value(item, a)
      BY <1>2, <2>1 DEF Value
    <2> QED
      BY <2>2 DEF Meets
  <1> QED
    BY <1>1, <1>2

\* The search finds what it is for, if there is a field to search in.
LEMMA SearchMeets ==
    ASSUME NEW r, r.search # {} => Searched(r) # {}, NEW item
    PROVE  (\A c \in SearchConditions(r) : Meets(item, c))
              <=> (r.search # {} =>
                      \E f \in DOMAIN Mirror :
                          (r.fields = AllFields \/ f \in r.fields) /\ Value(item, Mirror[f]) \in r.search)
  <1>1. CASE r.search = {}
    BY <1>1 DEF SearchConditions
  <1>2. CASE r.search # {}
    <2> DEFINE c == [attrs |-> {Mirror[f] : f \in Searched(r)}, op |-> "ct", accepts |-> r.search]
    <2>1. SearchConditions(r) = {c}
      BY <1>2 DEF SearchConditions
    <2>2. Meets(item, c) <=> \E f \in Searched(r) : Value(item, Mirror[f]) \in r.search
      BY DEF Meets
    <2> HIDE DEF c
    <2> QED
      BY <1>2, <2>1, <2>2 DEF Searched
  <1> QED
    BY <1>1, <1>2

LEMMA AgeMeets ==
    ASSUME NEW r, NEW item
    PROVE  (\A c \in AgeConditions(r) : Meets(item, c))
              <=> (r.asOf # {} => Value(item, CreatedAt) \in r.asOf)
  <1> DEFINE c == [attrs |-> {CreatedAt}, op |-> "range", accepts |-> r.asOf]
  <1>1. Meets(item, c) <=> Value(item, CreatedAt) \in r.asOf
    BY DEF Meets
  <1>2. AgeConditions(r) = IF r.asOf = {} THEN {} ELSE {c}
    BY DEF AgeConditions
  <1> HIDE DEF c
  <1> QED
    BY <1>1, <1>2

LEMMA HidingMeets ==
    ASSUME NEW r, NEW keyed, NEW item, PartitionKey \in DOMAIN item, item[PartitionKey] \in Values
    PROVE  (\A c \in HidingConditions(r, keyed) : Meets(item, c))
              <=> (r.descriptor \/ keyed \/ ~IsDescriptor(item))
  <1> DEFINE c == [attrs |-> {PartitionKey}, op |-> "ne", accepts |-> Values \ {DescriptorKey}]
  <1>1. Meets(item, c) <=> ~IsDescriptor(item)
    BY DEF Meets, Value, IsDescriptor
  <1>2. HidingConditions(r, keyed) = IF r.descriptor \/ keyed THEN {} ELSE {c}
    BY DEF HidingConditions
  <1> HIDE DEF c
  <1> QED
    BY <1>1, <1>2

\* Everything that was asked for is in the key or in the filter of a list, and nothing
\* else but the search, the age and the descriptor.
LEMMA ListMeets ==
    ASSUME NEW r \in Requests, Filters(r), NEW index, NEW row
    PROVE  Meeting(row, ListParams(r, index)) <=>
              /\ \A c \in Conditions(r) : Meets(row, c)
              /\ \A c \in SearchConditions(r) \cup AgeConditions(r)
                            \cup HidingConditions(r, DOMAIN ListKey(r, index) # {}) : Meets(row, c)
  <1> DEFINE promoted == Promoted(r.clauses, KeySchema(index))
             others == SearchConditions(r) \cup AgeConditions(r)
                            \cup HidingConditions(r, DOMAIN ListKey(r, index) # {})
  <1>1. promoted \subseteq DOMAIN r.clauses
    BY DEF Promoted, EarliestOf
  <1>2. DOMAIN r.example \cap promoted = {}
    BY <1>1, RequestAssumption
  <1>3. /\ ListParams(r, index).key = ListKey(r, index)
        /\ ListParams(r, index).filter = Left(r, index) \cup others
    BY ListSent
  <1>4. (\A i \in DOMAIN ListKey(r, index) : Meets(row, ListKey(r, index)[i])) <=>
            /\ \A i \in DOMAIN r.example : Meets(row, r.example[i])
            /\ \A i \in promoted : Meets(row, r.clauses[i])
    <2>1. /\ DOMAIN ListKey(r, index) = DOMAIN r.example \cup promoted
          /\ \A i \in promoted : ListKey(r, index)[i] = r.clauses[i]
          /\ \A i \in DOMAIN r.example : ListKey(r, index)[i] = r.example[i]
      <3> HIDE DEF promoted
      <3> QED
        BY <1>2 DEF ListKey, promoted
    <2> HIDE DEF promoted
    <2> QED
      BY <2>1
  <1>5. (\A c \in Left(r, index) : Meets(row, c))
            <=> \A i \in DOMAIN r.clauses \ promoted : Meets(row, r.clauses[i])
    BY DEF Left
  <1>6. (\A c \in Conditions(r) : Meets(row, c)) <=>
            /\ \A i \in DOMAIN r.example : Meets(row, r.example[i])
            /\ \A i \in DOMAIN r.clauses : Meets(row, r.clauses[i])
    BY DEF Conditions
  <1> HIDE DEF others, promoted
  <1>7. Meeting(row, ListParams(r, index)) <=>
            /\ \A i \in DOMAIN ListKey(r, index) : Meets(row, ListKey(r, index)[i])
            /\ \A c \in Left(r, index) : Meets(row, c)
            /\ \A c \in others : Meets(row, c)
    BY <1>3 DEF Meeting
  <1> QED
    BY <1>1, <1>4, <1>5, <1>6, <1>7 DEF others

LEMMA MassMeets ==
    ASSUME NEW r \in Requests, ~Filters(r), DOMAIN r.clauses = {}, NEW index, NEW row
    PROVE  Meeting(row, MassParams(r, index)) <=>
              /\ \A c \in Conditions(r) : Meets(row, c)
              /\ \A c \in AgeConditions(r) \cup HidingConditions(r, DOMAIN r.example # {}) : Meets(row, c)
  <1>1. /\ MassParams(r, index).key = r.example
        /\ MassParams(r, index).filter = AgeConditions(r) \cup HidingConditions(r, DOMAIN r.example # {})
    BY MassSent
  <1>2. (\A c \in Conditions(r) : Meets(row, c)) <=> \A i \in DOMAIN r.example : Meets(row, r.example[i])
    BY DEF Conditions
  <1> QED
    BY <1>1, <1>2 DEF Meeting

-----------------------------------------------------------------------------
\* What is read.

\* A row of the index meets what is not about keys as its item does.
LEMMA OthersMeet ==
    ASSUME FiltersProjected, NEW r \in Requests, NEW index \in Targets(r),
           r.search # {} => Searched(r) # {},
           NEW item \in Table, NEW keyed
    PROVE  LET row == IndexRow(item, index)
           IN  /\ (\A c \in Conditions(r) : Meets(row, c)) <=> \A c \in Conditions(r) : Meets(item, c)
               /\ (\A c \in SearchConditions(r) : Meets(row, c)) <=>
                      (r.search # {} =>
                         \E f \in DOMAIN Mirror :
                             (r.fields = AllFields \/ f \in r.fields) /\ Value(item, Mirror[f]) \in r.search)
               /\ (\A c \in AgeConditions(r) : Meets(row, c))
                      <=> (r.asOf # {} => Value(item, CreatedAt) \in r.asOf)
               /\ (\A c \in HidingConditions(r, keyed) : Meets(row, c))
                      <=> (r.descriptor \/ keyed \/ ~IsDescriptor(item))
  <1> DEFINE row == IndexRow(item, index)
  <1>1. ASSUME NEW c, index = Base \/ c.attrs \subseteq Projected(index)
        PROVE  Meets(row, c) <=> Meets(item, c)
    BY <1>1, RowMeets
  <1>2. \A c \in Conditions(r) : index = Base \/ c.attrs \subseteq Projected(index)
    BY DEF FiltersProjected
  <1>3. \A c \in SearchConditions(r) : index = Base \/ c.attrs \subseteq Projected(index)
    <2>1. r.search # {} /\ index # Base => \A f \in Searched(r) : Mirror[f] \in Projected(index)
      BY DEF FiltersProjected
    <2> QED
      BY <2>1 DEF SearchConditions
  <1>4. \A c \in AgeConditions(r) : index = Base \/ c.attrs \subseteq Projected(index)
    <2>1. r.asOf # {} /\ index # Base => CreatedAt \in Projected(index)
      BY DEF FiltersProjected
    <2> QED
      BY <2>1 DEF AgeConditions
  <1>5. \A c \in HidingConditions(r, keyed) : index = Base \/ c.attrs \subseteq Projected(index)
    BY DEF HidingConditions, Projected, KeyAttributes
  <1>6. PartitionKey \in DOMAIN item /\ item[PartitionKey] \in Values
    BY TableAssumption DEF KeyAttributes
  <1> HIDE DEF row
  <1>7. (\A c \in Conditions(r) : Meets(row, c)) <=> \A c \in Conditions(r) : Meets(item, c)
    BY <1>1, <1>2
  <1>8. (\A c \in SearchConditions(r) : Meets(row, c)) <=> \A c \in SearchConditions(r) : Meets(item, c)
    BY <1>1, <1>3
  <1>9. (\A c \in AgeConditions(r) : Meets(row, c)) <=> \A c \in AgeConditions(r) : Meets(item, c)
    BY <1>1, <1>4
  <1>10. (\A c \in HidingConditions(r, keyed) : Meets(row, c))
            <=> \A c \in HidingConditions(r, keyed) : Meets(item, c)
    BY <1>1, <1>5
  <1>11. (\A c \in SearchConditions(r) : Meets(row, c)) <=>
            (r.search # {} =>
               \E f \in DOMAIN Mirror :
                   (r.fields = AllFields \/ f \in r.fields) /\ Value(item, Mirror[f]) \in r.search)
    BY <1>8, SearchMeets, Zenon
  <1>12. (\A c \in AgeConditions(r) : Meets(row, c))
            <=> (r.asOf # {} => Value(item, CreatedAt) \in r.asOf)
    BY <1>9, AgeMeets, Zenon
  <1>13. (\A c \in HidingConditions(r, keyed) : Meets(row, c))
            <=> (r.descriptor \/ keyed \/ ~IsDescriptor(item))
    BY <1>6, <1>10, HidingMeets
  <1> QED
    BY <1>7, <1>11, <1>12, <1>13, Zenon DEF row

\* A request that names a partition does not come upon the descriptor unasked.
LEMMA KeyedSparesDescriptor ==
    ASSUME DescriptorUnnamed, NEW r \in Requests, NEW index \in Targets(r),
           NEW p, p.index = index, DOMAIN p.key # {}, Valid(p),
           \A i \in DOMAIN p.key : p.key[i] \in Conditions(r),
           NEW item \in Table, InIndex(item, index), \A c \in Conditions(r) : Meets(item, c)
    PROVE  r.descriptor \/ ~IsDescriptor(item)
  <1>1. PICK i \in DOMAIN p.key : p.key[i].attrs = {KeySchema(index).pk} /\ p.key[i].op = "eq"
    BY DEF Valid
  <1> QED
    BY <1>1 DEF DescriptorUnnamed

\* Of what an index holds of an item the key and the filter of a list select what was
\* asked for.
LEMMA ListSelects ==
    ASSUME FiltersProjected, SearchesSomething, DescriptorUnnamed,
           NEW r \in Requests, Filters(r), NEW index \in Targets(r), Valid(ListParams(r, index)),
           NEW item \in Table, InIndex(item, index)
    PROVE  Meeting(IndexRow(item, index), ListParams(r, index)) <=> Wanted(r, index, item)
  <1> DEFINE p == ListParams(r, index)
             keyed == DOMAIN ListKey(r, index) # {}
  <1>1. p.index = index /\ p.key = ListKey(r, index)
    BY ListSent
  <1>2. \A i \in DOMAIN p.key : p.key[i] \in Conditions(r)
    <2>1. Promoted(r.clauses, KeySchema(index)) \subseteq DOMAIN r.clauses
      BY DEF Promoted, EarliestOf
    <2> QED
      BY <1>1, <2>1 DEF ListKey, Conditions
  <1>3. ASSUME keyed, \A c \in Conditions(r) : Meets(item, c)
        PROVE  r.descriptor \/ ~IsDescriptor(item)
    <2> HIDE DEF p
    <2>1. Valid(p)
      BY DEF p
    <2> QED
      BY <1>1, <1>2, <1>3, <2>1, KeyedSparesDescriptor
  <1>4. r.search # {} => Searched(r) # {}
    BY DEF SearchesSomething
  <1> HIDE DEF p, keyed
  <1>5. Meeting(IndexRow(item, index), ListParams(r, index)) <=>
            /\ \A c \in Conditions(r) : Meets(IndexRow(item, index), c)
            /\ \A c \in SearchConditions(r) : Meets(IndexRow(item, index), c)
            /\ \A c \in AgeConditions(r) : Meets(IndexRow(item, index), c)
            /\ \A c \in HidingConditions(r, keyed) : Meets(IndexRow(item, index), c)
    BY ListMeets DEF keyed
  <1> QED
    BY <1>3, <1>4, <1>5, OthersMeet DEF Wanted

\* A mass operation that is not filtered selects the same.
LEMMA MassSelects ==
    ASSUME FiltersProjected, DescriptorUnnamed, MassUnfiltered,
           NEW r \in Requests, ~Filters(r), NEW index \in Targets(r), Valid(MassParams(r, index)),
           NEW item \in Table, InIndex(item, index)
    PROVE  Meeting(IndexRow(item, index), MassParams(r, index)) <=> Wanted(r, index, item)
  <1> DEFINE p == MassParams(r, index)
             keyed == DOMAIN r.example # {}
  <1>1. p.index = index /\ p.key = r.example
    BY MassSent
  <1>2. \A i \in DOMAIN p.key : p.key[i] \in Conditions(r)
    BY <1>1 DEF Conditions
  <1>3. ASSUME keyed, \A c \in Conditions(r) : Meets(item, c)
        PROVE  r.descriptor \/ ~IsDescriptor(item)
    <2> HIDE DEF p
    <2>1. Valid(p)
      BY DEF p
    <2> QED
      BY <1>1, <1>2, <1>3, <2>1, KeyedSparesDescriptor
  <1>4. DOMAIN r.clauses = {} /\ r.search = {}
    BY DEF MassUnfiltered
  <1> HIDE DEF p, keyed
  <1>5. Meeting(IndexRow(item, index), MassParams(r, index)) <=>
            /\ \A c \in Conditions(r) : Meets(IndexRow(item, index), c)
            /\ \A c \in AgeConditions(r) : Meets(IndexRow(item, index), c)
            /\ \A c \in HidingConditions(r, keyed) : Meets(IndexRow(item, index), c)
    BY <1>4, MassMeets DEF keyed
  <1> QED
    BY <1>3, <1>4, <1>5, OthersMeet DEF Wanted

\* The fields that are read.
FieldsRead(r, index) ==
    IF Filters(r) THEN IF Indirect(index) THEN KeyAttributes ELSE r.fields
    ELSE IF r.op = "delete" THEN KeyAttributes ELSE AllFields

\* So a read is a selection: what was asked for and is there.
LEMMA ReadSelects ==
    ASSUME FiltersProjected, SearchesSomething, DescriptorUnnamed,
           NEW r \in Requests, Filters(r) \/ MassUnfiltered, NEW index \in Targets(r),
           Valid(Params(r, index)), table \subseteq Table
    PROVE  Selection(Params(r, index)) =
              {Project(IndexRow(item, index), FieldsRead(r, index)) :
                  item \in {item \in table : Wanted(r, index, item)}}
  <1> DEFINE p == Params(r, index)
  <1>1. p.index = index /\ p.fields = FieldsRead(r, index)
    BY ListSent, MassSent DEF Params, FieldsRead
  <1>2. ASSUME NEW item \in table, InIndex(item, index)
        PROVE  Meeting(IndexRow(item, index), p) <=> Wanted(r, index, item)
    BY <1>2, ListSelects, MassSelects DEF Params
  <1>3. \A item : Wanted(r, index, item) => InIndex(item, index)
    BY DEF Wanted
  <1> HIDE DEF p
  <1> QED
    BY <1>1, <1>2, <1>3 DEF Selection, p

-----------------------------------------------------------------------------
\* One request through its stages.

\* What was sent is what was made of the request, for one of the indices it may be
\* read from.
Sent ==
    /\ options \in Requests
    /\ stage # "asked" /\ outcome # "refused" =>
          \E index \in Targets(options) : params = Params(options, index) /\ params.index = index

\* The items that were asked for.
Meant == {item \in Table : Wanted(options, params.index, item)}

\* Nobody writes new items before the request does, and what it does next follows what
\* it has read.
Stages ==
    /\ stage \in {"asked", "sent", "hop", "write", "done"}
    /\ stage # "done" => outcome = "none"
    /\ outcome # "written" => table \subseteq Table /\ (interfered \/ table = Table)
    /\ stage = "hop" =>
          Filters(options) /\ Indirect(params.index)
          /\ rows \subseteq {Project(IndexRow(item, params.index), KeyAttributes) : item \in Meant}
    /\ stage = "write" => ~Filters(options) /\ Valid(params)

\* Of an indirect index a list has read keys, of any other what was asked for.
Listed == ListIsSelection /\ HopIsSound

RequestInv == Sent /\ Stages /\ Listed

LEMMA ParamsIndex ==
    ASSUME NEW r, NEW index
    PROVE  Params(r, index).index = index
  BY ListSent, MassSent DEF Params

LEMMA KeysOfRows ==
    ASSUME NEW item \in Table, NEW index, NEW fields, fields = AllFields \/ KeyAttributes \subseteq fields
    PROVE  LET row == Project(IndexRow(item, index), fields)
           IN  KeyOf(row) = KeyOf(item) /\ KeyAttributes \subseteq DOMAIN row
  <1> DEFINE row == IndexRow(item, index)
  <1>1. KeyAttributes \subseteq DOMAIN item
    BY TableAssumption
  <1>2. KeyAttributes \subseteq DOMAIN row /\ \A a \in KeyAttributes : row[a] = item[a]
    BY <1>1 DEF IndexRow, Restrict, Projected
  <1> HIDE DEF row
  <1>3. /\ KeyAttributes \subseteq DOMAIN Project(row, fields)
        /\ \A a \in KeyAttributes : Project(row, fields)[a] = item[a]
    BY <1>2 DEF Project, Restrict
  <1> QED
    BY <1>3 DEF KeyOf, Restrict, row

LEMMA RequestStart == ListInit => RequestInv
  BY DEF ListInit, RequestInv, Sent, Stages, Listed, ListIsSelection, HopIsSound

LEMMA RequestStep ==
    ASSUME FiltersProjected, SearchesSomething, DescriptorUnnamed,
           RequestInv, [ListNext]_listVars
    PROVE  RequestInv'
  <1> USE DEF RequestInv
  <1>1. CASE Refuse
    BY <1>1 DEF Refuse, Sent, Stages, Listed, ListIsSelection, HopIsSound
  <1>2. CASE Build
    BY <1>2, ParamsIndex DEF Build, Sent, Stages, Listed, ListIsSelection, HopIsSound
  <1>3. CASE Reject
    BY <1>3 DEF Reject, Sent, Stages, Listed, ListIsSelection, HopIsSound
  <1>4. CASE Read
    <2>1. PICK index \in Targets(options) : params = Params(options, index) /\ params.index = index
      BY <1>4 DEF Read, Sent, Stages
    <2>2. /\ options \in Requests /\ table \subseteq Table /\ (interfered \/ table = Table)
          /\ outcome = "none"
      BY <1>4 DEF Read, Sent, Stages
    <2>3. UNCHANGED <<options, params, table, interfered>> /\ Valid(params) /\ rows' = Selection(params)
      BY <1>4 DEF Read
    <2>4. Sent'
      BY <1>4, <2>3, <2>2 DEF Read, Sent, Stages
    <2>5. CASE ~Filters(options)
      <3>1. stage' = "write" /\ outcome' = "none"
        BY <1>4, <2>2, <2>5 DEF Read
      <3> QED
        BY <2>2, <2>3, <2>4, <2>5, <3>1 DEF Stages, Listed, ListIsSelection, HopIsSound, Filters
    <2>6. CASE Filters(options)
      <3>1. rows' = {Project(IndexRow(item, index), FieldsRead(options, index)) :
                        item \in {item \in table : Wanted(options, index, item)}}
        BY <2>1, <2>2, <2>3, <2>6, ReadSelects
      <3>2. CASE Indirect(index) /\ rows' # {}
        <4>1. stage' = "hop" /\ outcome' = "none"
          BY <1>4, <2>1, <2>2, <2>6, <3>2 DEF Read
        <4>2. rows' \subseteq {Project(IndexRow(item, params.index), KeyAttributes) : item \in Meant}
          BY <2>1, <2>2, <2>6, <3>1, <3>2 DEF FieldsRead, Meant
        <4>3. Meant' = Meant
          BY <2>3 DEF Meant
        <4> QED
          BY <2>1, <2>2, <2>3, <2>4, <2>6, <3>2, <4>1, <4>2, <4>3
             DEF Stages, Listed, ListIsSelection, HopIsSound
      <3>3. CASE ~(Indirect(index) /\ rows' # {})
        <4>1. stage' = "done" /\ outcome' = "listed"
          BY <1>4, <2>1, <2>6, <3>3 DEF Read
        <4>2. ListIsSelection'
          BY <2>1, <2>3, <2>6, <3>1 DEF ListIsSelection, FieldsRead
        <4>3. HopIsSound'
          BY <2>1, <2>3, <3>3 DEF HopIsSound
        <4> QED
          BY <2>2, <2>3, <2>4, <4>1, <4>2, <4>3 DEF Stages, Listed
      <3> QED
        BY <3>2, <3>3
    <2> QED
      BY <2>5, <2>6
  <1>5. CASE Hop
    <2>1. /\ UNCHANGED <<options, params, table, interfered>> /\ stage' = "done" /\ outcome' = "listed"
          /\ table \subseteq Table /\ (interfered \/ table = Table) /\ Indirect(params.index)
          /\ rows \subseteq {Project(IndexRow(item, params.index), KeyAttributes) : item \in Meant}
      BY <1>5 DEF Hop, Stages
    <2>2. ASSUME NEW item \in table, NEW row \in rows, KeyOf(item) = KeyOf(row)
          PROVE  Wanted(options, params.index, item)
      <3>1. PICK found \in Meant : row = Project(IndexRow(found, params.index), KeyAttributes)
        BY <2>1, <2>2
      <3>2. KeyOf(row) = KeyOf(found) /\ found \in Table
        BY <3>1, KeysOfRows DEF Meant
      <3>3. found = item
        BY <2>1, <2>2, <3>2, TableAssumption
      <3> QED
        BY <3>1, <3>3 DEF Meant
    <2>3. rows' \subseteq {Project(item, options.fields) :
                    item \in {item \in table : Wanted(options, params.index, item)}}
      BY <1>5, <2>2 DEF Hop
    <2>4. ListIsSelection' /\ HopIsSound'
      BY <2>1, <2>3 DEF ListIsSelection, HopIsSound
    <2> QED
      BY <1>5, <2>1, <2>4 DEF Hop, Sent, Stages, Listed
  <1>6. CASE Write
    BY <1>6 DEF Write, Sent, Stages, Listed, ListIsSelection, HopIsSound
  <1>7. CASE OtherDeletes
    <2>1. /\ UNCHANGED <<options, params, stage, outcome, rows>> /\ interfered' = TRUE
          /\ table' \subseteq table /\ outcome = "none"
      BY <1>7 DEF OtherDeletes, Stages
    <2>2. Meant' = Meant
      BY <2>1 DEF Meant
    <2> QED
      BY <2>1, <2>2 DEF Sent, Stages, Listed, ListIsSelection, HopIsSound
  <1>8. CASE UNCHANGED listVars
    BY <1>8 DEF listVars, Sent, Stages, Meant, Listed, ListIsSelection, HopIsSound
  <1> QED
    BY <1>1, <1>2, <1>3, <1>4, <1>5, <1>6, <1>7, <1>8 DEF ListNext, Done

LEMMA RequestKept ==
    ASSUME FiltersProjected, SearchesSomething, DescriptorUnnamed
    PROVE  ListSpec => []RequestInv
  BY RequestStart, RequestStep, PTL DEF ListSpec

\* A list reads what was asked for, nothing more and nothing less, whatever of it went
\* into the key condition and whatever into the filter (adapter.js:1079-1184, 1949-1982).
THEOREM ListsSelect ==
    ASSUME FiltersProjected, SearchesSomething, DescriptorUnnamed
    PROVE  ListSpec => []ListIsSelection
  <1>1. RequestInv => ListIsSelection
    BY DEF RequestInv, Listed
  <1> QED
    BY <1>1, RequestKept, PTL

\* An item that a second hop reads is one that was asked for, whatever was deleted
\* between the hops (adapter.js:1981-1997).
THEOREM HopsAreSound ==
    ASSUME FiltersProjected, SearchesSomething, DescriptorUnnamed
    PROVE  ListSpec => []HopIsSound
  <1>1. RequestInv => HopIsSound
    BY DEF RequestInv, Listed
  <1> QED
    BY <1>1, RequestKept, PTL

-----------------------------------------------------------------------------
\* The mass operations.

\* Without a filter a mass operation has read what was asked for, before it writes.
MassRead ==
    stage = "write" /\ ~interfered =>
        rows = {Project(IndexRow(item, params.index), FieldsRead(options, params.index)) : item \in Meant}

MassInv == RequestInv /\ MassRead /\ WritesWanted

\* Copies have keys that no item has.
LEMMA CopiesAreNew ==
    ASSUME NEW a \in Table, NEW index, NEW fields, fields = AllFields \/ KeyAttributes \subseteq fields
    PROVE  LET row == Project(IndexRow(a, index), fields)
           IN  /\ KeyOf(CopyOf(row)) = KeyOf(CopyOf(a))
               /\ \A b \in Table : KeyOf(CopyOf(a)) # KeyOf(b)
               /\ \A b \in Table : KeyOf(CopyOf(a)) = KeyOf(CopyOf(b)) => a = b
  <1> DEFINE row == Project(IndexRow(a, index), fields)
  <1>1. /\ KeyOf(row) = KeyOf(a) /\ KeyAttributes \subseteq DOMAIN row
        /\ PartitionKey \in KeyAttributes
    BY KeysOfRows DEF KeyAttributes
  <1>2. \A b \in Table : /\ KeyAttributes \subseteq DOMAIN b /\ b[PartitionKey] \in Values
                         /\ b[PartitionKey] \in Nat \ {0}
    BY TableAssumption
  <1>3. ASSUME NEW x, KeyAttributes \subseteq DOMAIN x
        PROVE  KeyOf(CopyOf(x)) = [k \in KeyAttributes |-> IF k = PartitionKey THEN -KeyOf(x)[PartitionKey]
                                                          ELSE KeyOf(x)[k]]
    BY <1>1, <1>3 DEF CopyOf, KeyOf, Restrict
  <1>4. \A b \in Table : KeyOf(b)[PartitionKey] = b[PartitionKey]
    BY <1>1 DEF KeyOf, Restrict
  <1> HIDE DEF row
  <1>5. KeyOf(CopyOf(row)) = KeyOf(CopyOf(a))
    BY <1>1, <1>2, <1>3
  <1>6. \A b \in Table : KeyOf(CopyOf(b))[PartitionKey] = -b[PartitionKey]
    BY <1>1, <1>2, <1>3, <1>4
  <1>7. ASSUME NEW b \in Table
        PROVE  KeyOf(CopyOf(a)) # KeyOf(b)
    BY <1>2, <1>4, <1>6
  <1>8. ASSUME NEW b \in Table, KeyOf(CopyOf(a)) = KeyOf(CopyOf(b))
        PROVE  a = b
    <2>1. a[PartitionKey] = b[PartitionKey]
      BY <1>2, <1>6, <1>8
    <2>2. \A k \in KeyAttributes \ {PartitionKey} : KeyOf(a)[k] = KeyOf(b)[k]
      BY <1>2, <1>3, <1>8
    <2>3. KeyOf(a) = KeyOf(b)
      <3>1. \A k \in KeyAttributes : KeyOf(a)[k] = KeyOf(b)[k]
        BY <1>4, <2>1, <2>2
      <3>2. /\ KeyOf(a) = [k \in KeyAttributes |-> KeyOf(a)[k]]
            /\ KeyOf(b) = [k \in KeyAttributes |-> KeyOf(b)[k]]
        BY DEF KeyOf, Restrict
      <3> QED
        BY <3>1, <3>2
    <2> QED
      BY <2>3, TableAssumption
  <1> QED
    BY <1>5, <1>7, <1>8 DEF row

LEMMA MassStep ==
    ASSUME FiltersProjected, SearchesSomething, DescriptorUnnamed, MassUnfiltered,
           MassInv, [ListNext]_listVars
    PROVE  MassInv'
  <1>1. RequestInv'
    BY RequestStep DEF MassInv
  <1>2. CASE Read
    <2>1. PICK index \in Targets(options) : params = Params(options, index) /\ params.index = index
      BY <1>2 DEF Read, MassInv, RequestInv, Sent, Stages
    <2>2. /\ options \in Requests /\ table \subseteq Table /\ (interfered \/ table = Table)
          /\ outcome = "none" /\ outcome' # "written"
      BY <1>2 DEF Read, MassInv, RequestInv, Sent, Stages
    <2>3. UNCHANGED <<options, params, table, interfered>> /\ Valid(params) /\ rows' = Selection(params)
      BY <1>2 DEF Read
    <2>4. rows' = {Project(IndexRow(item, index), FieldsRead(options, index)) :
                        item \in {item \in table : Wanted(options, index, item)}}
      BY <2>1, <2>2, <2>3, ReadSelects
    <2>5. MassRead'
      BY <2>1, <2>2, <2>3, <2>4 DEF MassRead, Meant
    <2> QED
      BY <1>1, <2>2, <2>5 DEF MassInv, WritesWanted
  <1>3. CASE Write
    <2>1. /\ UNCHANGED <<options, params, rows, interfered>> /\ stage' = "done"
          /\ (interfered \/ table = Table) /\ options.op \in {"delete", "clone", "move"}
      BY <1>3, RequestAssumption DEF Write, MassInv, RequestInv, Sent, Stages, Filters
    <2>2. SUFFICES ASSUME ~interfered, NEW item \in Table
          PROVE  /\ options.op \in {"delete", "move"} /\ Wanted(options, params.index, item) <=> item \notin table'
                 /\ options.op \in {"clone", "move"} /\ Wanted(options, params.index, item) <=>
                       \E copy \in table' : KeyOf(copy) = KeyOf(CopyOf(item))
      BY <1>1, <2>1 DEF MassInv, MassRead, WritesWanted
    <2>3. /\ table = Table
          /\ rows = {Project(IndexRow(i, params.index), FieldsRead(options, params.index)) : i \in Meant}
      BY <1>3, <2>1, <2>2 DEF Write, MassInv, MassRead
    <2> DEFINE index == params.index
               fields == FieldsRead(options, index)
    <2>4. fields = AllFields \/ KeyAttributes \subseteq fields
      BY <2>1 DEF FieldsRead, Filters
    <2>5. Removed(table) = Meant
      <3>1. \A i \in Table, j \in Meant :
                KeyOf(i) = KeyOf(Project(IndexRow(j, index), fields)) <=> i = j
        BY <2>4, KeysOfRows, TableAssumption DEF Meant
      <3> HIDE DEF index, fields
      <3> QED
        BY <2>3, <3>1 DEF Removed, index, fields, Meant
    <2> DEFINE copies == {CopyOf(row) : row \in rows}
    <2>6. \A copy \in copies : \E i \in Meant : KeyOf(copy) = KeyOf(CopyOf(i))
      BY <2>3, <2>4, CopiesAreNew DEF Meant
    <2>7. \A i \in Meant : \E copy \in copies : KeyOf(copy) = KeyOf(CopyOf(i))
      BY <2>3, <2>4, CopiesAreNew DEF Meant
    <2>8. /\ \A a, b \in Table : KeyOf(CopyOf(a)) # KeyOf(b)
          /\ \A a, b \in Table : KeyOf(CopyOf(a)) = KeyOf(CopyOf(b)) => a = b
      BY <2>4, CopiesAreNew
    <2> HIDE DEF copies
    <2>9. item \in Meant <=> Wanted(options, params.index, item)
      BY DEF Meant
    <2>10. Meant \subseteq Table
      BY DEF Meant
    <2>11. item \notin copies
      BY <2>6, <2>8, <2>10
    <2>12. (\E copy \in copies : KeyOf(copy) = KeyOf(CopyOf(item))) <=> item \in Meant
      BY <2>6, <2>7, <2>8, <2>10
    <2>13. CASE options.op = "delete"
      <3>1. table' = Table \ Meant
        BY <1>3, <2>3, <2>5, <2>13 DEF Write
      <3> QED
        BY <2>8, <2>9, <2>13, <3>1
    <2>14. CASE options.op = "clone"
      <3>1. table' = Table \cup copies
        BY <1>3, <2>3, <2>14 DEF Write, copies
      <3> QED
        BY <2>8, <2>9, <2>12, <2>14, <3>1
    <2>15. CASE options.op = "move"
      <3>1. table' = (Table \ Meant) \cup copies
        BY <1>3, <2>3, <2>5, <2>15 DEF Write, copies
      <3> QED
        BY <2>8, <2>9, <2>11, <2>12, <2>15, <3>1
    <2> QED
      BY <2>1, <2>13, <2>14, <2>15
  <1>4. CASE ~Read /\ ~Write
    <2>1. /\ UNCHANGED <<options, interfered>> \/ interfered' = TRUE
          /\ stage' # "write" \/ UNCHANGED <<options, params, rows, stage, interfered>>
          /\ outcome' # "written" \/ UNCHANGED <<options, params, table, interfered, outcome>>
                \/ interfered' = TRUE
      BY <1>4 DEF ListNext, Refuse, Build, Reject, Hop, OtherDeletes, Done, listVars,
                  MassInv, RequestInv, Stages
    <2> QED
      BY <1>1, <2>1 DEF MassInv, MassRead, WritesWanted, Meant
  <1> QED
    BY <1>2, <1>3, <1>4

\* A mass operation writes what was asked for and nothing else, as long as there is
\* nothing to filter by: what it would filter by it does not look at (adapter.js:
\* 2037-2051, 2184-2199, and handler.js:184).
THEOREM MassWritesWanted ==
    ASSUME FiltersProjected, SearchesSomething, DescriptorUnnamed, MassUnfiltered
    PROVE  ListSpec => []WritesWanted
  <1>1. ListInit => MassInv
    BY RequestStart DEF ListInit, MassInv, MassRead, WritesWanted
  <1>2. MassInv => WritesWanted
    BY DEF MassInv
  <1> QED
    BY <1>1, <1>2, MassStep, PTL DEF ListSpec

-----------------------------------------------------------------------------
\* What DynamoDB accepts.

LEMMA AtMostOne ==
    ASSUME NEW S, IsFiniteSet(S)
    PROVE  Cardinality(S) <= 1 <=> \A a, b \in S : a = b
  <1>1. ASSUME NEW a \in S, NEW b \in S, Cardinality(S) <= 1
        PROVE  a = b
    <2>1. SUFFICES ASSUME a # b PROVE FALSE
      OBVIOUS
    <2>2. IsFiniteSet({a}) /\ Cardinality({a}) = 1
      BY FS_Singleton
    <2>3. Cardinality({a} \cup {b}) = 2
      <3>1. b \notin {a}
        BY <2>1
      <3>2. Cardinality({a} \cup {b}) = Cardinality({a}) + 1
        BY <2>2, <3>1, FS_AddElement
      <3> QED
        BY <2>2, <3>2
    <2>4. Cardinality({a} \cup {b}) <= Cardinality(S) /\ Cardinality(S) \in Nat
      <3>1. {a} \cup {b} \in SUBSET S
        OBVIOUS
      <3> QED
        BY <3>1, FS_Subset, FS_CardinalityType
    <2> QED
      BY <1>1, <2>3, <2>4
  <1>2. ASSUME \A a, b \in S : a = b
        PROVE  Cardinality(S) <= 1
    <2>1. CASE S = {}
      <3>1. Cardinality(S) = 0
        BY <2>1, FS_EmptySet
      <3> QED
        BY <3>1
    <2>2. ASSUME NEW a \in S
          PROVE  Cardinality(S) <= 1
      <3>1. S = {a}
        BY <1>2
      <3>2. Cardinality(S) = 1
        BY <3>1, FS_Singleton
      <3> QED
        BY <3>2
    <2> QED
      BY <2>1, <2>2
  <1> QED
    BY <1>1, <1>2

ClausesOn(r, a) == {i \in DOMAIN r.clauses : r.clauses[i].attrs = {a}}

Once(r, a) ==
    Cardinality(ClausesOn(r, a)) <= IF \E i \in DOMAIN r.example : r.example[i].attrs = {a} THEN 0 ELSE 1

LEMMA OnceOnly ==
    ASSUME NEW r \in Requests, NEW a, Once(r, a)
    PROVE  /\ \A i, j \in ClausesOn(r, a) : i = j
           /\ (\E i \in DOMAIN r.example : r.example[i].attrs = {a}) => ClausesOn(r, a) = {}
  <1>1. IsFiniteSet(ClausesOn(r, a))
    <2>1. IsFiniteSet(DOMAIN r.clauses)
      <3>1. Len(r.clauses) \in Nat /\ DOMAIN r.clauses = 1..Len(r.clauses)
        BY RequestAssumption
      <3>2. \A n \in Nat : IsFiniteSet(1..n)
        BY FS_Interval
      <3> QED
        BY <3>1, <3>2
    <2>2. ClausesOn(r, a) \subseteq DOMAIN r.clauses
      BY DEF ClausesOn
    <2> QED
      BY <2>1, <2>2, FS_Subset
  <1>2. Cardinality(ClausesOn(r, a)) \in Nat
    BY <1>1, FS_CardinalityType
  <1>3. Cardinality(ClausesOn(r, a)) <= 1
    BY <1>2 DEF Once
  <1>4. (\E i \in DOMAIN r.example : r.example[i].attrs = {a}) => Cardinality(ClausesOn(r, a)) = 0
    BY <1>2 DEF Once
  <1> QED
    BY <1>1, <1>3, <1>4, AtMostOne, FS_EmptySet

\* Filters on the key are an error of DynamoDB's, and so are other operators there.
LEMMA PlainIsValid ==
    ASSUME KeysUnsearched, NEW r \in Requests, NEW index \in Targets(r), ~r.consistent,
           NEW pk, NEW sk, pk = KeySchema(index).pk, sk = KeySchema(index).sk,
           Once(r, pk), Once(r, sk),
           \A i \in ClausesOn(r, pk) : r.clauses[i].op = "eq",
           \A i \in ClausesOn(r, sk) : r.clauses[i].op \in RangeOps,
           \/ ClausesOn(r, sk) = {} \/ ClausesOn(r, pk) # {}
           \/ \E i \in DOMAIN r.example : r.example[i].attrs = {pk}
    PROVE  Valid(Params(r, index))
  <1> DEFINE p == Params(r, index)
             On(a) == {i \in DOMAIN p.key : p.key[i].attrs = {a}}
             cp == ClausesOn(r, pk)
             cs == ClausesOn(r, sk)
  <1>1. /\ \A i \in DOMAIN r.example : i = 0 /\ r.example[i].op = "eq" /\ r.example[i].attrs = {pk}
        /\ DOMAIN r.clauses \subseteq Nat \ {0}
        /\ \A i \in DOMAIN r.clauses : \E f : r.clauses[i].attrs = {f}
    <2>1. Len(r.clauses) \in Nat /\ DOMAIN r.clauses = 1..Len(r.clauses)
      BY RequestAssumption
    <2>2. \A i \in DOMAIN r.clauses : \E f \in r.clauses[i].attrs : r.clauses[i].attrs = {f}
      BY RequestAssumption
    <2>3. \A i \in DOMAIN r.example : i = 0 /\ r.example[i].op = "eq" /\ r.example[i].attrs = {pk}
      BY RequestAssumption
    <2>4. \A n \in Nat : 1..n \subseteq Nat \ {0}
      OBVIOUS
    <2> HIDE DEF p, On, cp, cs
    <2>5. DOMAIN r.clauses \subseteq Nat \ {0}
      BY <2>1, <2>4
    <2> QED
      BY <2>2, <2>3, <2>5
  <1>2. /\ \A i, j \in cp : i = j
        /\ \A i, j \in cs : i = j
        /\ DOMAIN r.example # {} => cp = {}
    BY <1>1, OnceOnly
  <1>3. cp \subseteq DOMAIN r.clauses /\ cs \subseteq DOMAIN r.clauses
    BY DEF ClausesOn
  <1>4. p.index = index /\ ~p.consistent
    BY ListSent, MassSent DEF Params
  <1>5. /\ DOMAIN p.key = DOMAIN r.example \cup (IF Filters(r) THEN cp \cup cs ELSE {})
        /\ \A i \in DOMAIN r.example : p.key[i] = r.example[i]
        /\ Filters(r) => \A i \in cp \cup cs : p.key[i] = r.clauses[i]
        /\ DOMAIN p.key # {} => \A c \in p.filter : c.attrs \cap {pk, sk} = {}
    <2>1. \A c \in AgeConditions(r) : c.attrs \cap {pk, sk} = {}
      <3>1. r.asOf # {} => CreatedAt \notin {pk, sk}
        BY DEF KeysUnsearched
      <3> QED
        BY <3>1 DEF AgeConditions
    <2>2. CASE Filters(r)
      <3>1. Promoted(r.clauses, KeySchema(index)) = cp \cup cs
        <4>1. {i \in DOMAIN r.clauses : r.clauses[i].op = "eq" /\ r.clauses[i].attrs = {pk}} = cp
          BY DEF ClausesOn
        <4>2. {i \in DOMAIN r.clauses : r.clauses[i].op \in RangeOps /\ r.clauses[i].attrs = {sk}} = cs
          BY DEF ClausesOn
        <4>3. EarliestOf(cp) = cp /\ EarliestOf(cs) = cs
          <5> HIDE DEF cp, cs
          <5> QED
            BY <1>1, <1>2, <1>3 DEF EarliestOf
        <4> QED
          BY <4>1, <4>2, <4>3 DEF Promoted
      <3>2. p.key = ListKey(r, index)
        BY <2>2, ListSent DEF Params
      <3>3. /\ DOMAIN p.key = DOMAIN r.example \cup (cp \cup cs)
            /\ \A i \in cp \cup cs : p.key[i] = r.clauses[i]
            /\ \A i \in DOMAIN r.example : p.key[i] = r.example[i]
        <4> HIDE DEF cp, cs, p
        <4> QED
          BY <1>1, <1>3, <3>1, <3>2 DEF ListKey
      <3>4. p.filter = Left(r, index) \cup SearchConditions(r) \cup AgeConditions(r)
                            \cup HidingConditions(r, DOMAIN p.key # {})
        BY <2>2, <3>2, ListSent DEF Params
      <3>5. \A c \in Left(r, index) : c.attrs \cap {pk, sk} = {}
        BY <1>1, <3>1 DEF Left, ClausesOn
      <3>6. \A c \in SearchConditions(r) : c.attrs \cap {pk, sk} = {}
        <4>1. r.search # {} => \A f \in DOMAIN Mirror : Mirror[f] \notin {pk, sk}
          BY DEF KeysUnsearched
        <4> QED
          BY <4>1 DEF SearchConditions, Searched
      <3>7. DOMAIN p.key # {} => HidingConditions(r, DOMAIN p.key # {}) = {}
        BY DEF HidingConditions
      <3> HIDE DEF p, cp, cs
      <3>8. DOMAIN p.key # {} => \A c \in p.filter : c.attrs \cap {pk, sk} = {}
        BY <2>1, <3>4, <3>5, <3>6, <3>7
      <3> QED
        BY <2>2, <3>3, <3>8
    <2>3. CASE ~Filters(r)
      <3>1. /\ p.key = r.example
            /\ p.filter = AgeConditions(r) \cup HidingConditions(r, DOMAIN r.example # {})
        BY <2>3, MassSent DEF Params
      <3>2. DOMAIN r.example # {} => HidingConditions(r, DOMAIN r.example # {}) = {}
        BY DEF HidingConditions
      <3> HIDE DEF p
      <3> QED
        BY <2>1, <2>3, <3>1, <3>2
    <2> QED
      BY <2>2, <2>3
  <1>6. (\A i \in cp : r.clauses[i].attrs = {pk}) /\ \A i \in cs : r.clauses[i].attrs = {sk}
    BY DEF ClausesOn
  <1>7. (\A i \in cp : r.clauses[i].op = "eq") /\ (cs = {} \/ cp # {} \/ DOMAIN r.example # {})
    OBVIOUS
  <1>8. {pk} = {sk} => cp = cs
    BY DEF ClausesOn
  <1> HIDE DEF p, cp, cs
  <1>9. ASSUME DOMAIN p.key # {}
        PROVE  /\ \E i \in On(pk) : p.key[i].op = "eq" /\ On(pk) = {i}
               /\ Cardinality(On(sk)) <= 1
               /\ DOMAIN p.key = On(pk) \cup On(sk)
    <2>1. \A i \in DOMAIN p.key : i \in DOMAIN r.example \/ (Filters(r) /\ i \in cp \cup cs)
      BY <1>5
    <2>2. DOMAIN p.key = On(pk) \cup On(sk)
      BY <1>1, <1>5, <1>6, <2>1
    <2>3. \A i, j \in On(pk) : i = j
      BY <1>1, <1>2, <1>5, <1>6, <1>8, <2>1
    <2>4. \A i, j \in On(sk) : i = j
      BY <1>1, <1>2, <1>5, <1>6, <1>8, <2>1
    <2>5. \E i \in On(pk) : p.key[i].op = "eq"
      BY <1>1, <1>5, <1>6, <1>7, <1>9, <2>1
    <2>6. Cardinality(On(sk)) <= 1
      <3>1. IsFiniteSet(On(sk))
        <4>1. On(sk) = {} \/ \E i \in On(sk) : On(sk) = {i}
          BY <2>4
        <4>2. IsFiniteSet({}) /\ \A i : IsFiniteSet({i})
          BY FS_EmptySet, FS_Singleton
        <4> HIDE DEF On
        <4> QED
          BY <4>1, <4>2, Zenon
      <3> HIDE DEF On
      <3> QED
        BY <2>4, <3>1, AtMostOne
    <2> HIDE DEF On
    <2> QED
      BY <2>2, <2>3, <2>5, <2>6
  <1> QED
    BY <1>4, <1>5, <1>9 DEF Valid, p

Rejected ==
    /\ stage # "done" => outcome = "none"
    /\ outcome = "rejected" => stage = "done" /\ ~Valid(params)

LEMMA RejectionStep ==
    ASSUME Sent, Rejected, [ListNext]_listVars
    PROVE  Sent' /\ Rejected'
  <1>1. CASE Build
    BY <1>1, ParamsIndex DEF Build, Sent, Rejected
  <1>2. CASE Refuse \/ Reject
    BY <1>2 DEF Refuse, Reject, Sent, Rejected
  <1>3. CASE Read \/ Hop \/ Write
    BY <1>3 DEF Read, Hop, Write, Sent, Rejected
  <1>4. CASE OtherDeletes \/ UNCHANGED listVars
    BY <1>4 DEF OtherDeletes, listVars, Sent, Rejected
  <1> QED
    BY <1>1, <1>2, <1>3, <1>4 DEF ListNext, Done

\* Every request is accepted whose filters on a key attribute are one at most, of an
\* operator a key condition has, and with the partition if they name the sort key: no
\* such filter is left out of the key condition (adapter.js:1118-1131).
THEOREM PlainsAreAccepted ==
    ASSUME KeysUnsearched
    PROVE  ListSpec => []PlainIsAccepted
  <1>1. ListInit => Sent /\ Rejected
    BY DEF ListInit, Sent, Rejected
  <1>2. Sent /\ Rejected => PlainIsAccepted
    <2> SUFFICES ASSUME Sent, Rejected, outcome = "rejected", ~options.consistent
                 PROVE  PlainIsAccepted
      BY DEF PlainIsAccepted
    <2>1. PICK index \in Targets(options) : params = Params(options, index) /\ params.index = index
      BY DEF Sent, Rejected
    <2>2. ~Valid(Params(options, index)) /\ options \in Requests
      BY <2>1 DEF Sent, Rejected
    <2> DEFINE pk == KeySchema(index).pk
               sk == KeySchema(index).sk
    <2>3. \/ ~Once(options, pk) \/ ~Once(options, sk)
          \/ \E i \in ClausesOn(options, pk) : options.clauses[i].op # "eq"
          \/ \E i \in ClausesOn(options, sk) : options.clauses[i].op \notin RangeOps
          \/ /\ ClausesOn(options, sk) # {} /\ ClausesOn(options, pk) = {}
             /\ ~\E i \in DOMAIN options.example : options.example[i].attrs = {pk}
      BY <2>2, PlainIsValid
    <2> QED
      BY <2>1, <2>3 DEF PlainIsAccepted, Once, ClausesOn
  <1> QED
    BY <1>1, <1>2, RejectionStep, PTL DEF ListSpec
=============================================================================
