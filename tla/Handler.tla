------------------------------- MODULE Handler -------------------------------
(***************************************************************************)
(* One request to the node:http handler (src/handler/): routing, the body  *)
(* reader, at most one call of the Adapter, and the answer.  Events of the *)
(* request stream arrive whenever they like once the reader listens; what  *)
(* an Adapter call comes to is left open here.                             *)
(***************************************************************************)
EXTENDS Integers, Sequences

CONSTANTS
    Paths,          \* sequences of segments: "key", or the name of a method
    MaxBodyBytes,
    ChunkSizes,
    MaxBytes        \* bound on what a client sends

VARIABLES
    request,    \* method, path, whether it has ?names=, a path and a ?sort= that make sense
    stream,     \* the request stream: "open", "ended" or "failed"
    sent,       \* bytes the client has sent ...
    size,       \* ... and those the reader has counted
    reader,     \* "idle", "reading", or what readJsonBody settled with
    socket,     \* "open" or "closed"
    pc,
    calls,      \* calls of the Adapter
    effect,     \* what they wrote: "none", "some" or "all"
    status,     \* of the answer that is being sent
    answers,    \* what the handler answered ...
    told        \* ... and what the client heard, 0 for nothing

vars == <<request, stream, sent, size, reader, socket, pc, calls, effect, status, answers, told>>

MethodNames ==
    {"by-names", "load", "clone", "move", "clone-by-names", "move-by-names", "other"}
HttpMethods == {"HEAD", "GET", "POST", "PUT", "PATCH", "DELETE"}

Settled == {"none", "object", "array", "garbled", "tooLarge", "broken"}
Bodies == {"none", "object", "array"}

-----------------------------------------------------------------------------
\* Routing.

\* matchRoute: the kind of a path and the method it names.
MatchRoute(path) ==
    CASE path = <<>> -> <<"root", "">>
      [] Len(path) = 1 /\ path[1] \in MethodNames -> <<"collectionMethod", path[1]>>
      [] Len(path) = 1 /\ path[1] \notin MethodNames -> <<"item", "">>
      [] Len(path) = 2 /\ path[2] \in MethodNames -> <<"itemMethod", path[2]>>
      [] OTHER -> <<"unknown", "">>

EffectiveMethod(r) == IF r.method = "HEAD" THEN "GET" ELSE r.method

\* Which operation of the Adapter answers which route.
Routes ==
    [getList            |-> <<"GET", <<"root", "">>>>,
     post               |-> <<"POST", <<"root", "">>>>,
     deleteListByParams |-> <<"DELETE", <<"root", "">>>>,
     getByKeys          |-> <<"GET", <<"collectionMethod", "by-names">>>>,
     deleteByKeys       |-> <<"DELETE", <<"collectionMethod", "by-names">>>>,
     putItems           |-> <<"PUT", <<"collectionMethod", "load">>>>,
     cloneListByParams  |-> <<"PUT", <<"collectionMethod", "clone">>>>,
     moveListByParams   |-> <<"PUT", <<"collectionMethod", "move">>>>,
     cloneByKeys        |-> <<"PUT", <<"collectionMethod", "clone-by-names">>>>,
     moveByKeys         |-> <<"PUT", <<"collectionMethod", "move-by-names">>>>,
     getByKey           |-> <<"GET", <<"item", "">>>>,
     put                |-> <<"PUT", <<"item", "">>>>,
     patch              |-> <<"PATCH", <<"item", "">>>>,
     delete             |-> <<"DELETE", <<"item", "">>>>,
     clone              |-> <<"PUT", <<"itemMethod", "clone">>>>,
     move               |-> <<"PUT", <<"itemMethod", "move">>>>]

Operations(r) ==
    {op \in DOMAIN Routes : Routes[op] = <<EffectiveMethod(r), MatchRoute(r.path)>>}

Reads == {"getList", "getByKeys", "getByKey"}
SingleWrites == {"post", "put", "patch", "delete", "clone", "move"}
ListRequests == {"getList", "deleteListByParams", "cloneListByParams", "moveListByParams"}

\* deleteByKeys takes its names from the body when the query has none.
ReadsBody(op, r) ==
    \/ op \in {"post", "put", "patch", "clone", "move", "putItems", "cloneListByParams",
               "moveListByParams", "cloneByKeys", "moveByKeys"}
    \/ op = "deleteByKeys" /\ ~r.names

-----------------------------------------------------------------------------
\* ?names= makes a difference to by-names only, ?sort= to requests without a key.
Requests ==
    {r \in [method : HttpMethods, path : Paths, names : BOOLEAN, decodes : BOOLEAN,
            sortable : BOOLEAN] :
        /\ r.names => r.path = <<"by-names">>
        /\ ~r.sortable => MatchRoute(r.path)[1] \in {"root", "collectionMethod"}}

Init ==
    /\ request \in Requests
    /\ stream = "open" /\ sent = 0 /\ size = 0
    /\ reader = "idle"
    /\ socket = "open"
    /\ pc = "start"
    /\ calls = <<>> /\ effect = "none"
    /\ status = 0 /\ answers = <<>> /\ told = 0

body == <<stream, sent, size, reader, socket>>
outcome == <<calls, effect, answers, told>>

\* Throw, or return sendError: the answer is on its way.
Answer(s) == pc' = "answer" /\ status' = s

\* The URL or the key in it cannot be decoded: an error without a status.
Malformed ==
    /\ pc = "start" /\ ~request.decodes
    /\ Answer(500)
    /\ UNCHANGED <<request, body, outcome>>

MethodNotAllowed ==
    /\ pc = "start" /\ request.decodes
    /\ Operations(request) = {}
    /\ Answer(405)
    /\ UNCHANGED <<request, body, outcome>>

\* The handler of a route starts to read the body, or goes on without one.
Dispatch ==
    /\ pc = "start" /\ request.decodes
    /\ \E op \in Operations(request) :
        IF ReadsBody(op, request)
        THEN pc' = "body" /\ reader' = "reading"
        ELSE pc' = "call" /\ UNCHANGED reader
    /\ UNCHANGED <<request, stream, sent, size, socket, outcome, status>>

-----------------------------------------------------------------------------
\* readJsonBody.  The promise settles once; events may go on.

Settle(result) == reader' = IF reader = "reading" THEN result ELSE reader

Listening == reader # "idle"

\* The flag is set with the rejection.
Aborted == reader = "tooLarge"

\* Mutation: the cap is held against each chunk.
OverCapByChunk(chunk) == chunk > MaxBodyBytes

OverCap(chunk) == size + chunk > MaxBodyBytes

\* A chunk; the one that exceeds the cap makes the reader reject and destroy
\* the request, and its socket with it.
Data(chunk) ==
    /\ Listening /\ stream = "open"
    /\ sent + chunk <= MaxBytes
    /\ sent' = sent + chunk
    /\ IF Aborted THEN UNCHANGED <<size, reader, socket>>
       ELSE /\ size' = size + chunk
            /\ IF OverCap(chunk) THEN Settle("tooLarge") /\ socket' = "closed"
               ELSE UNCHANGED <<reader, socket>>
    /\ UNCHANGED <<request, stream, pc, outcome, status>>

\* Anything may be in a body; an empty one is null.
End ==
    /\ Listening /\ stream = "open"
    /\ stream' = "ended"
    /\ IF Aborted THEN UNCHANGED reader
       ELSE \E content \in {"object", "array", "garbled"} :
                Settle(IF size = 0 THEN "none" ELSE content)
    /\ UNCHANGED <<request, sent, size, socket, pc, outcome, status>>

\* Mutation: nothing listens for errors.
Unheard ==
    /\ Listening /\ stream = "open"
    /\ stream' = "failed" /\ socket' = "closed"
    /\ UNCHANGED <<request, sent, size, reader, pc, outcome, status>>

\* The connection breaks, which the stream reports as an error.
StreamError ==
    /\ Listening /\ stream = "open"
    /\ stream' = "failed" /\ socket' = "closed"
    /\ Settle("broken")
    /\ UNCHANGED <<request, sent, size, pc, outcome, status>>

\* The client goes when all it had to say is said.
Gone ==
    /\ socket = "open" /\ (~Listening \/ stream = "ended")
    /\ socket' = "closed"
    /\ UNCHANGED <<request, stream, sent, size, reader, pc, outcome, status>>

\* The awaited body: the handler goes on, or throws what the reader rejected with.
BodyRead ==
    /\ pc = "body" /\ reader \in Settled
    /\ CASE reader \in Bodies -> pc' = "call" /\ UNCHANGED status
         [] reader = "garbled" -> Answer(400)
         [] reader = "tooLarge" -> Answer(413)
         [] reader = "broken" -> Answer(500)
    /\ UNCHANGED <<request, body, outcome>>

-----------------------------------------------------------------------------
\* The call.

NoArray(op) == op = "putItems" /\ reader # "array"

\* No declared index sorts by the field of ?sort=.
Unsortable(op) == op \in ListRequests /\ ~request.sortable

RefuseLoad ==
    /\ pc = "call"
    /\ \E op \in Operations(request) : NoArray(op)
    /\ Answer(400)
    /\ UNCHANGED <<request, body, outcome>>

\* NoIndexForSortField: an error of the toolkit, which has no status.
RefuseSort ==
    /\ pc = "call"
    /\ \E op \in Operations(request) : Unsortable(op)
    /\ Answer(500)
    /\ UNCHANGED <<request, body, outcome>>

Call ==
    /\ pc = "call"
    /\ \E op \in Operations(request) :
        /\ ~NoArray(op) /\ ~Unsortable(op)
        /\ calls' = Append(calls, op)
    /\ pc' = "adapter"
    /\ UNCHANGED <<request, body, effect, status, answers, told>>

\* Errors of the service by what they say about a single write: refused ones
\* have no effect, of the others nothing is known.
Refusals == {"ConditionalCheckFailed", "TransactionCanceled", "TransactionConflict",
             "Validation", "ProvisionedThroughputExceeded", "LimitExceeded"}
Failures == {"InternalServerError", "Http5xx", "Other"}

\* Mutation: an internal error is taken for a conflict.
MapErrorAsConflict(err) ==
    CASE err \in {"ConditionalCheckFailed", "TransactionCanceled", "TransactionConflict",
                  "InternalServerError"} -> 409
      [] err = "Validation" -> 422
      [] err \in {"ProvisionedThroughputExceeded", "LimitExceeded"} -> 429
      [] err = "Http5xx" -> 503
      [] err = "Other" -> 500

MapErrorStatus(err) ==
    CASE err \in {"ConditionalCheckFailed", "TransactionCanceled", "TransactionConflict"} -> 409
      [] err = "Validation" -> 422
      [] err \in {"ProvisionedThroughputExceeded", "LimitExceeded"} -> 429
      [] err \in {"InternalServerError", "Http5xx"} -> 503
      [] err = "Other" -> 500

\* What a failed call may have written.
Written(op, err) ==
    CASE op \in Reads -> {"none"}
      [] op \in SingleWrites /\ err \in Refusals -> {"none"}
      [] op \in SingleWrites /\ err \in Failures -> {"none", "all"}
      [] OTHER -> {"none", "some", "all"}

AdapterReturns ==
    /\ pc = "adapter"
    /\ effect' = IF calls[1] \in Reads THEN "none" ELSE "all"
    /\ Answer(IF calls[1] \in {"post", "put", "patch", "delete", "clone", "move"} THEN 204 ELSE 200)
    /\ UNCHANGED <<request, body, calls, answers, told>>

\* getByKey, clone and move return undefined when there is no item.
AdapterMisses ==
    /\ pc = "adapter" /\ calls[1] \in {"getByKey", "clone", "move"}
    /\ Answer(404)
    /\ UNCHANGED <<request, body, outcome>>

AdapterThrows ==
    /\ pc = "adapter"
    /\ \E err \in Refusals \cup Failures :
        /\ effect' \in Written(calls[1], err)
        /\ Answer(MapErrorStatus(err))
    /\ UNCHANGED <<request, body, calls, answers, told>>

\* sendJson or sendNoContent; nothing arrives over a closed socket.
Respond ==
    /\ pc = "answer"
    /\ answers' = Append(answers, status)
    /\ told' = IF socket = "open" THEN status ELSE told
    /\ pc' = "done"
    /\ UNCHANGED <<request, body, calls, effect, status>>

-----------------------------------------------------------------------------
\* The client ends its request, or the connection breaks.
Client == End \/ StreamError

-----------------------------------------------------------------------------
TypeOK ==
    /\ request \in Requests
    /\ stream \in {"open", "ended", "failed"}
    /\ sent \in 0..MaxBytes /\ size \in 0..sent
    /\ reader \in Settled \cup {"idle", "reading"}
    /\ socket \in {"open", "closed"}
    /\ pc \in {"start", "body", "call", "adapter", "answer", "done"}
    /\ Len(calls) <= 1 /\ \A i \in DOMAIN calls : calls[i] \in DOMAIN Routes
    /\ effect \in {"none", "some", "all"}
    /\ status \in {0, 200, 204, 400, 404, 405, 409, 413, 422, 429, 500, 503}
    /\ Len(answers) <= 2 /\ told \in {0} \cup {answers[i] : i \in DOMAIN answers}

\* A request is answered once, and only when nothing is under way any more:
\* whatever its stream reports before, while or after the Adapter works.
AnsweredOnce ==
    /\ Len(answers) <= 1
    /\ answers # <<>> => pc = "done"

\* The Adapter is called with a body only when all of it arrived, within the cap,
\* and made sense, in whatever pieces and whatever else the stream reported.
WholeBody ==
    \A i \in DOMAIN calls :
        ReadsBody(calls[i], request) =>
            stream = "ended" /\ sent <= MaxBodyBytes /\ reader \in Bodies

\* What a client is told is true: a success means that all was written, and a
\* status that says the request was refused that a single write had no effect.
ToldTruth ==
    /\ told \in {200, 204} => \A i \in DOMAIN calls : calls[i] \in Reads \/ effect = "all"
    /\ told \in {400, 404, 405, 413} => effect = "none"
    /\ told \in {409, 422, 429} =>
        \A i \in DOMAIN calls : calls[i] \in SingleWrites => effect = "none"
=============================================================================
