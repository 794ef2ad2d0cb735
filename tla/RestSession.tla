----------------------------- MODULE RestSession -----------------------------
(***************************************************************************)
(* The node:http handler at work: Handler serves the requests of a client, *)
(* a GET of the collection has PaginateList read a window of the list, and *)
(* the client turns pages over the `prev` and `next` links of the          *)
(* envelopes it got.  A program may call paginateList itself.  The list    *)
(* does not change while the client turns its pages.                       *)
(***************************************************************************)
EXTENDS PaginateList

CONSTANTS
    Paths, MaxBodyBytes, ChunkSizes, MaxBytes,  \* of Handler
    MaxOffset, PolicyMaxLimit, DefaultLimit,    \* the policy's; MaxLimit is paginateList's
    AskedOffsets, AskedLimits   \* in queries; <<>> stands for none, or for no number

ASSUME PolicyAssumption ==
    /\ MaxOffset \in Nat /\ PolicyMaxLimit \in Nat \ {0} /\ DefaultLimit \in Nat \ {0}
    /\ AskedOffsets \subseteq Seq(Int) /\ AskedLimits \subseteq Seq(Int)
ASSUME HttpAssumption ==
    /\ <<>> \in Paths
    /\ MaxBodyBytes \in Nat /\ MaxBytes \in Nat /\ ChunkSizes \subseteq Nat \ {0}

VARIABLES
    request, stream, sent, size, reader, socket, pc, calls, effect, status, answers, told,
    caller,     \* of paginateList: "program", or the handler for "rest"
    query,      \* ?offset= and ?limit=
    page,       \* the last envelope: [offset, limit, rows, prev, next]
    via,        \* the link that was followed: "none", "prev" or "next"
    before,     \* the page it stands on
    seen        \* rows the client was shown

H == INSTANCE Handler

http == <<request, stream, sent, size, reader, socket, pc, calls, effect, status, answers, told>>
walk == <<query, via, before>>
all == <<vars, http, caller, walk, page, seen>>

Greater(a, b) == IF a > b THEN a ELSE b

-----------------------------------------------------------------------------
\* Mutation: an offset is not held against 0.
ParsedNegative(raw) == IF raw = <<>> THEN 0 ELSE Lesser(MaxOffset, raw[1])

\* parsePaging
ParsedOffset(raw) == IF raw = <<>> THEN 0 ELSE Lesser(MaxOffset, Greater(0, raw[1]))

ParsedLimit(raw) ==
    Lesser(PolicyMaxLimit, IF raw = <<>> \/ raw[1] <= 0 THEN DefaultLimit ELSE raw[1])

NoLink == <<>>

Prev == IF offset > 0 THEN <<Greater(0, offset - limit)>> ELSE NoLink

\* Mutation: off by one at the end of the list.
NextShort == IF needTotal /\ offset + limit + 1 >= total THEN NoLink ELSE <<offset + limit>>

\* Mutation: the total is not looked at.
NextAlways == <<offset + limit>>

\* Mutation: the limit that was asked for, not the one that was used.
NextAsAsked ==
    IF needTotal /\ offset + limit >= total THEN NoLink
    ELSE <<offset + ParsedLimit(query.limit)>>

\* paginationLinks; without a total there is always a next page.
NextPage == IF needTotal /\ offset + limit >= total THEN NoLink ELSE <<offset + limit>>

\* buildEnvelope
Envelope ==
    [offset |-> offset, limit |-> limit, rows |-> {result[i] : i \in DOMAIN result},
     prev |-> Prev, next |-> NextPage]

NoPage == [offset |-> 0, limit |-> 0, rows |-> {}, prev |-> NoLink, next |-> NoLink]

-----------------------------------------------------------------------------
GetOfList == [method |-> "GET", path |-> <<>>, names |-> FALSE, decodes |-> TRUE, sortable |-> TRUE]

\* No list has been read, and none is asked for in another request.
NoListYet ==
    /\ offset = -1 /\ limit = 0
    /\ step = "collect" /\ pos = 0 /\ skipped = 0 /\ total = 0 /\ result = <<>>

RestInit ==
    /\ caller = "rest"
    /\ H!Init
    /\ NoListYet
    /\ IF "getList" \in H!Operations(request)
       THEN /\ filtered \in BOOLEAN /\ needTotal \in BOOLEAN
            /\ cut \in IF filtered THEN Cuts ELSE {[p \in 0..N |-> N]}
            /\ query \in [offset : AskedOffsets, limit : AskedLimits]
       ELSE /\ filtered = FALSE /\ needTotal = FALSE
            /\ cut = [p \in 0..N |-> N]
            /\ query = [offset |-> <<>>, limit |-> <<>>]

ProgramInit ==
    /\ caller = "program"
    /\ Init
    /\ request = GetOfList
    /\ stream = "open" /\ sent = 0 /\ size = 0 /\ reader = "idle" /\ socket = "open"
    /\ pc = "done" /\ calls = <<>> /\ effect = "none"
    /\ status = 0 /\ answers = <<>> /\ told = 0
    /\ query = [offset |-> <<>>, limit |-> <<>>]

SessionInit ==
    /\ RestInit \/ ProgramInit
    /\ page = NoPage /\ before = NoPage /\ via = "none" /\ seen = {}

-----------------------------------------------------------------------------
\* handleGetAll calls getList with what the query asks for, clamped.
CallList ==
    /\ H!Call
    /\ calls' = <<"getList">>
    /\ offset' = ParsedOffset(query.offset)
    /\ limit' = Lesser(MaxLimit, ParsedLimit(query.limit))
    /\ UNCHANGED <<filtered, needTotal, cut>>
    /\ step' = FirstStep'
    /\ pos' = 0 /\ skipped' = 0 /\ total' = 0 /\ result' = <<>>
    /\ UNCHANGED <<caller, walk, page, seen>>

CallOther ==
    /\ H!Call
    /\ calls' # <<"getList">>
    /\ UNCHANGED <<vars, caller, walk, page, seen>>

Route ==
    /\ H!Malformed \/ H!MethodNotAllowed \/ H!Dispatch
           \/ H!BodyRead \/ H!RefuseLoad \/ H!RefuseSort
    /\ UNCHANGED <<vars, caller, walk, page, seen>>

\* A response to HEAD has no body.
Respond ==
    /\ H!Respond
    /\ seen' = IF told' = 200 /\ calls = <<"getList">> /\ request.method = "GET"
               THEN seen \cup page.rows ELSE seen
    /\ UNCHANGED <<vars, caller, walk, page>>

Reading == caller = "program" \/ (pc = "adapter" /\ calls = <<"getList">>)

\* paginateList gets on, page by page.
ReadList ==
    /\ Reading /\ step # "done"
    /\ Next
    /\ UNCHANGED <<http, caller, walk, page, seen>>

ReturnList ==
    /\ H!AdapterReturns
    /\ calls = <<"getList">> /\ step = "done"
    /\ page' = Envelope
    /\ UNCHANGED <<vars, caller, walk, seen>>

ReturnOther ==
    /\ H!AdapterReturns
    /\ calls # <<"getList">>
    /\ UNCHANGED <<vars, caller, walk, page, seen>>

\* A list may fail on any of its pages.
Fail ==
    /\ H!AdapterMisses \/ H!AdapterThrows
    /\ UNCHANGED <<vars, caller, walk, page, seen>>

Stream ==
    /\ H!Client
    /\ UNCHANGED <<vars, caller, walk, page, seen>>

Network ==
    /\ H!Gone \/ \E chunk \in ChunkSizes : H!Data(chunk)
    /\ caller = "rest"
    /\ UNCHANGED <<vars, caller, walk, page, seen>>

\* The client holds an envelope.
Shown == pc = "done" /\ told = 200 /\ calls = <<"getList">> /\ request.method = "GET"

\* The client follows a link of the envelope it got.  A link has an offset and the
\* limit of its page.
Follow(link, name) ==
    /\ Shown
    /\ link # NoLink
    /\ query' = [offset |-> link, limit |-> <<page.limit>>]
    /\ via' = name
    /\ before' = page
    /\ pc' = "start" /\ stream' = "open" /\ socket' = "open"
    /\ calls' = <<>> /\ effect' = "none" /\ status' = 0 /\ answers' = <<>> /\ told' = 0
    /\ UNCHANGED <<request, sent, size, reader, vars, caller, page, seen>>

FollowNext == Follow(page.next, "next")
FollowPrev == Follow(page.prev, "prev")

Server == Route \/ CallList \/ CallOther \/ Respond
Service == ReturnList \/ ReturnOther \/ Fail

SessionNext ==
    Server \/ Service \/ ReadList \/ Stream \/ Network \/ FollowNext \/ FollowPrev

\* Calls of the Adapter and of DynamoDB end; a client ends its request or loses the
\* connection (the server closes one that stalls).  That it turns the page is
\* needed for WalkEnds only.
Session ==
    /\ SessionInit /\ [][SessionNext]_all
    /\ WF_all(Server) /\ WF_all(Service) /\ WF_all(ReadList) /\ WF_all(Stream)
    /\ WF_all(FollowNext)

-----------------------------------------------------------------------------
SessionTypeOK ==
    /\ TypeOK
    /\ H!TypeOK
    /\ caller \in {"rest", "program"} /\ via \in {"none", "prev", "next"}
    /\ page.offset \in 0..MaxOffset /\ page.limit \in 0..Lesser(MaxLimit, PolicyMaxLimit)
    /\ page.rows \subseteq 1..N /\ seen \subseteq 1..N

\* Whatever the stream of a request reports before, while and after the Adapter
\* works, and through however many pages a list is read: there is one answer, at
\* the end, and the Adapter never works on a part of a body, or on one over the cap.
RaceSettled == H!AnsweredOnce /\ H!WholeBody

\* The status a client gets tells it what became of its write.
ToldTruth == H!ToldTruth

\* Every request is answered, those that wait for a body and those that read a list
\* of many pages included, and no error is lost on the way.  A call of paginateList
\* comes back, whatever its window and wherever its pages end, unless the service
\* fails it: every loop leaves at a page without a LastEvaluatedKey
\* (read-json-body.js:20-48, paginate-list.js:44, 62, 79, 96).
Answered ==
    /\ pc = "start" ~> answers # <<>>
    /\ step # "done" /\ Reading ~> step = "done" \/ ~Reading

InHand == pc = "answer" /\ status = 200 /\ calls = <<"getList">>

\* "Link to the next page", "... the previous page": the page behind `next` begins
\* with the first match behind this page, and the one behind `prev` ends where this
\* one begins, or overlaps it at the head of the list, whatever was asked for and
\* clamped on the way and wherever DynamoDB ended its pages (pagination-links.js:5-21).
LinksAdjoin ==
    /\ InHand /\ via = "next" /\ before.rows # {} =>
        \A i \in 1..N :
            /\ i \in page.rows => \A j \in before.rows : j < i
            /\ Match(i) /\ (\A j \in before.rows : j < i) =>
                   page.rows # {} /\ \E j \in page.rows : j <= i
    /\ InHand /\ via = "prev" =>
        /\ page.offset < before.offset
        /\ page.offset + page.limit >= before.offset
        /\ page.offset + page.limit > before.offset => page.offset = 0
        /\ before.rows # {} =>
               \A i \in 1..N :
                   Match(i) /\ (\A j \in page.rows : j < i) => \E j \in before.rows : j <= i

\* A client that gets no next page has seen every match behind the first one it saw.
AllSeen ==
    Shown /\ page.next = NoLink =>
        \A i \in seen, j \in 1..N : i < j /\ Match(j) => j \in seen

\* With a total the links lead to an end: a client that keeps following `next`
\* comes to a page without one, or to an answer that is no page.
WalkEnds ==
    needTotal /\ pc = "start" ~>
        pc = "done" /\ (~Shown \/ page.next = NoLink \/ via = "prev")
=============================================================================
