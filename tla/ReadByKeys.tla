----------------------------- MODULE ReadByKeys -----------------------------
(***************************************************************************)
(* getByKeys (src/adapter/adapter.js) over readByKeys, getBatch and        *)
(* batchGet: the keys a caller wants are cut into chunks, each asked for   *)
(* until no key is left unprocessed; what came back, in any order and in   *)
(* several answers, is realigned with the wanted keys by the key           *)
(* attributes of the items.  An indirect read does all of it twice.        *)
(* Meanwhile others write.  The loop of batchGet is that of batchWrite,    *)
(* with keys in the place of writes.                                       *)
(***************************************************************************)
EXTENDS BatchWrite, Sequences, FiniteSets

CONSTANTS
    Keys,           \* primary keys
    Wanted,         \* the keys the caller passes, in order
    Limit,          \* BATCH_GET_LIMIT
    KeysProjected,  \* the fields asked for include the key attributes
    MaxChanges      \* bound: writes of others during the call

ASSUME WantedAssumption == Wanted \in Seq(Keys)
ASSUME NumberAssumption ==
    Limit \in Nat \ {0} /\ MaxAttempts \in Nat \ {0} /\ MaxChanges \in Nat
ASSUME ProjectionAssumption == KeysProjected \in BOOLEAN

VARIABLES
    item,       \* item[k]: what is stored under k, 0 when nothing is
    past,       \* past[k]: everything stored under k since the call (history)
    changes,    \* writes of others so far
    indirect,   \* the read goes through an index declared `indirect`
    hop,        \* 1, or 2 in the second BatchGet of an indirect read
    asked,      \* the positions of Wanted that this hop asks for
    from,       \* offset of the current chunk
    got,        \* got[k]: the item of k among the responses, or 0
    result      \* what the call returned, position by position

Positions == 1..Len(Wanted)

loop == <<unsent, attempts, status>>
table == <<item, past, changes>>
vars == <<table, indirect, hop, asked, from, got, result, loop>>

Values == 0..(MaxChanges + 1)

TypeOK ==
    /\ BatchTypeOK
    /\ unsent \subseteq Keys
    /\ item \in [Keys -> Values]
    /\ past \in [Keys -> SUBSET Values]
    /\ changes \in 0..MaxChanges
    /\ indirect \in BOOLEAN
    /\ hop \in {1, 2}
    /\ asked \subseteq Positions
    /\ from \in Nat
    /\ got \in [Keys -> Values]
    /\ result \in {<<>>} \cup [Positions -> Values]

Init ==
    /\ BatchInit
    /\ item \in [Keys -> {0, 1}]
    /\ past = [k \in Keys |-> {item[k]}]
    /\ changes = 0
    /\ indirect \in BOOLEAN
    /\ hop = 1
    /\ asked = Positions
    /\ from = 0
    /\ got = [k \in Keys |-> 0]
    /\ result = <<>>

Returned == result # <<>>

\* Somebody else puts or deletes an item.
Change(k) ==
    /\ ~Returned /\ ~Threw
    /\ changes < MaxChanges
    /\ changes' = changes + 1
    /\ \E value \in {0, changes + 2} \ {item[k]} :
          /\ item' = [item EXCEPT ![k] = value]
          /\ past' = [past EXCEPT ![k] = @ \cup {value}]
    /\ UNCHANGED <<indirect, hop, asked, from, got, result, loop>>

\* The place of position i among those that are asked for.
Rank(i) == Cardinality({j \in asked : j <= i})

Chunk(offset) == {i \in asked : offset < Rank(i) /\ Rank(i) <= offset + Limit}

KeysOf(is) == {Wanted[i] : i \in is}

\* BatchGetItem refuses a request that names a key twice.
Duplicates(is) == Cardinality(KeysOf(is)) < Cardinality(is)

\* Cut the next chunk and hand it to batchGet.
NextChunk ==
    /\ status = "idle"
    /\ from < Cardinality(asked)
    /\ ~Duplicates(Chunk(from))
    /\ Load(KeysOf(Chunk(from)))
    /\ UNCHANGED <<table, indirect, hop, asked, from, got, result>>

RefuseChunk ==
    /\ status = "idle"
    /\ from < Cardinality(asked)
    /\ Duplicates(Chunk(from))
    /\ status' = "failed"
    /\ UNCHANGED <<table, indirect, hop, asked, from, got, result, unsent, attempts>>

\* An answer: some keys, or all of them, are processed, each read as it was at
\* some time since the call began (the reads are eventually consistent).
Answer ==
    \E done \in SUBSET unsent : \E read \in [done -> Values] :
        /\ \A k \in done : read[k] \in past[k]
        /\ Deliver(done)
        /\ got' = [k \in Keys |-> IF k \in done THEN read[k] ELSE got[k]]
        /\ from' = IF BatchDone(done) THEN from + Limit ELSE from
        /\ UNCHANGED <<table, indirect, hop, asked, result>>

ThrottleAnswer ==
    /\ Throttle
    /\ UNCHANGED <<table, indirect, hop, asked, from, got, result>>

Error ==
    /\ Raise({})
    /\ UNCHANGED <<table, indirect, hop, asked, from, got, result>>

Pause ==
    /\ Wake
    /\ UNCHANGED <<table, indirect, hop, asked, from, got, result>>

-----------------------------------------------------------------------------
\* Realigning.

HopDone == status = "idle" /\ ~Returned /\ from >= Cardinality(asked)

\* The first hop of an indirect read asks for the keys only, any other for
\* what the caller's fields say.  An item without its key attributes is filed
\* under no key.
Filed(k) == IF (indirect /\ hop = 1) \/ KeysProjected THEN got[k] ELSE 0

\* The positions the first hop found.
FoundIndexes == {i \in asked : Filed(Wanted[i]) # 0}

\* Misses stay misses, and what was found goes back to its position.
Remapped == [i \in Positions |-> IF i \in asked THEN Filed(Wanted[i]) ELSE 0]

\* An indirect read that found something goes on to the base table ...
SecondHop ==
    /\ HopDone
    /\ indirect /\ hop = 1 /\ FoundIndexes # {}
    /\ hop' = 2
    /\ asked' = FoundIndexes
    /\ from' = 0
    /\ got' = [k \in Keys |-> 0]
    /\ UNCHANGED <<table, indirect, result, loop>>

\* ... any other has its answer.
Return ==
    /\ HopDone
    /\ ~(indirect /\ hop = 1 /\ FoundIndexes # {})
    /\ result' = Remapped
    /\ UNCHANGED <<table, indirect, hop, asked, from, got, loop>>

Next ==
    \/ \E k \in Keys : Change(k)
    \/ NextChunk \/ RefuseChunk \/ Answer \/ ThrottleAnswer \/ Error \/ Pause
    \/ SecondHop \/ Return

\* The call goes on as long as the table answers and timers fire.
Spec ==
    /\ Init /\ [][Next]_vars
    /\ WF_vars(NextChunk \/ RefuseChunk \/ Answer \/ ThrottleAnswer \/ Error \/ Pause
               \/ SecondHop \/ Return)

-----------------------------------------------------------------------------
\* result[i] answers keys[i]: it is an item that was stored under that key
\* during the call, and a miss only when there was none at some time of it,
\* however the answers were cut, delayed and ordered.  A key that is wanted twice
\* gets one answer, although the item may change between the chunks that read it
\* (adapter.d.ts:753, read-by-keys.js:22-41, adapter.js:1904-1924).
PositionsAreTrue ==
    Returned =>
        /\ \A i \in Positions : result[i] \in past[Wanted[i]]
        /\ \A i, j \in Positions : Wanted[i] = Wanted[j] => result[i] = result[j]

\* However the table answers, the call returns or throws (batch-get.js:33).  It throws
\* too when the second hop names a key twice and is refused (adapter.js:1920).
Settles == <>(Returned \/ Threw)
=============================================================================
