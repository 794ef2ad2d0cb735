# dynamodb-toolkit in TLA+

TLA+ specifications of the parts of dynamodb-toolkit that keep state across
requests or carry an order that matters within one, the TLC configurations that
check them on small instances, and TLAPS proofs of what matters most. Paths such
as `adapter/adapter.js:894`, `adapter.js:894` for short, are below `src/` of the
repository, `README.md` and `llms-full.txt` at its root. `PROJECT.json` maps every
definition to the lines it models.

The toolkit has no server and no locks. What it adds to DynamoDB is
*protocol*: which conditions a request carries, in which order requests are
sent, what is retried, and what a caller can rely on when something fails
between two of them. So the specifications are about requests. An action is
one request and its answer, or the code that runs between two answers; a table
is a function or a set; items, keys and messages are reduced to what the
properties tell apart. Around that protocol stand three sequential layers whose
mistakes show only after a combination of calls, and which are specified as
well: what is stored for an item, how a list is asked for, and how expressions
share one params object. The HTTP handler is the component where events race.

## Inventory

| Component | State it keeps | Operations | Why it is hard |
|---|---|---|---|
| Adapter, single items (`adapter/adapter.js`) | none of its own: the version attribute in the item, and the item its caller holds | post, put, patch, edit, delete, clone, move, getByKey | read and conditional write are two requests; reads are eventually consistent; items are deleted and made again in between |
| Adapter, subtree operations | the walk; the table | rename, cloneWithOverwrite, move-, clone-, deleteAllUnder(By) | two requests per row that may fail singly; crash between them; root before or behind the descendants; resumed by cursor |
| Adapter, mass writes, `mass/move-list.js` | the walk; the batch | move-, clone-, delete-, editListByParams; putItems, deleteByKeys, cloneByKeys, moveByKeys | puts and deletes of one batch are processed in any order and in part |
| resumable walk (`mass/run-paged.js`, `cursor.js`) | ExclusiveStartKey, envelope, cap | runPaged | soft cap, cursor at page ends, re-run after a throw |
| pagination (`mass/paginate-list.js`) | offset, counters, position | paginateList with and without a filter | windows across pages that end anywhere; counting and listing are different requests |
| batch writes (`batch/apply-batch.js`, `batch-write.js`, `backoff.js`) | what is unprocessed, attempts | applyBatch, batchWrite | partial processing, throttling, cap on attempts |
| batch reads (`batch/get-batch.js`, `batch-get.js`, `mass/read-by-keys.js`) | chunk, what is unprocessed, items by key | getBatch, readByKeys, getByKeys | answers out of order, realignment, two hops for indirect indexes, writes of others in between |
| transactions (`batch/*-transaction.js`) | none | applyTransaction, getTransaction | one atomic request each |
| provisioning (`provisioning/`) | table, indexes, descriptor record; plan | ensureTable, verifyTable, executePlan | several processes plan from one description; DynamoDB takes one change at a time |
| declaration, keys, hooks (`adapter/`) | none of its own: structural key, mirrors and label in the record | prepare, revive, typeOf, swapPrefix; edit as a difference | attributes that repeat others are kept in step by seven operations, some of which see a part of the item only |
| list building (`adapter/adapter.js`) | none | applyFilter, buildSearch, asOf, descriptor, choice of an index, second hop | conditions are divided between key condition and filter; an index shows a part of the items; two requests |
| expressions (`expressions/`) | the params object being built | buildUpdate, buildCondition, addProjection, ..., cleanParams | aliases are allocated by counting, by builders that do not know of each other |
| handler, rest-core | one request | routing, body reading, Adapter call, status; paging and links | stream events come at any time; clamping moves the window that a link was made for |
| paths, marshalling, errors, CLI | none | conversions | none |

How they interact: the Adapter builds requests with the expression builders
and sends them itself (single items, subtree operations) or hands them to
`applyBatch`, `readByKeys` or `paginateList`; every mass and subtree operation
is a handler called by `runPaged` for each page. The HTTP handler maps a route
to one call of the Adapter, in the middle of which `paginateList` may read many
pages, and makes links of the window it got. On the way to the table every item
passes through `prepare`, and through `revive` on the way back. Provisioning
shares with the Adapter only the declaration. Nothing but the table is shared by
two callers.

What makes each component correct:

* single items: a conditional write replaces only what its caller read; the
  version of an item grows; a version handed to a caller is a version stored;
* subtree operations: no row is lost, no occupied destination overwritten, the
  envelope accounts for every row, the root comes in its order, a repeated
  and resumed call comes to its end;
* mass writes: what `mapFn` drops stays; a row is lost only together with an
  error; a call without a cursor has handled every row (but see *Other
  disagreements*);
* batches: to return means that everything was processed; nothing processed
  is sent again; the loop ends;
* reads by key: position *i* answers key *i*, and a miss is a miss;
* pagination: the window is the window, the total is the total;
* provisioning: to return means that the indexes are there; a verdict is
  sound; a descriptor is backed by the table;
* stored shape: a record sits at the key its fields name; mirrors and label are
  those of its fields; an edit is a cheaper put;
* list building: what is listed, deleted, copied or moved is what was asked for;
* expressions: an alias means what its builder meant; a cleaned request is one
  that DynamoDB accepts;
* handler: one answer to a request, which tells the truth about a write; a body
  is read whole or not at all; pages adjoin, and a walk over them ends.

## Modules

| Module | Models | Uses |
|---|---|---|
| `VersionedItem` | single-item operations on a table with `versionField` | |
| `AtomicItem` | what optimistic concurrency promises (abstract) | instantiated by `VersionedItem` |
| `BatchWrite` | one BatchWriteItem and its retries | extended by the next two, instantiated by `MassWrite` |
| `ApplyBatch` | `applyBatch` over `batchWrite` | `BatchWrite` |
| `ReadByKeys` | `getByKeys` over `readByKeys`, `getBatch`, `batchGet` | `BatchWrite` (the loop of `batchGet` is the same, with keys for writes) |
| `RunPaged` | `runPaged`: walk, cap, cursor, resume | extended by the next two |
| `MassWrite` | moveListByParams, cloneListByParams, deleteListByParams, cloneWithOverwrite, cloneAllUnder, deleteAllUnder | `RunPaged`, `BatchWrite` |
| `SubtreeRename` | rename, moveAllUnder | `RunPaged` |
| `PaginateList` | `paginateList`, `paginateListFiltered`, `getTotal` | extended by `RestSession` |
| `Handler` | one request to the node:http handler | instantiated by `RestSession` |
| `RestSession` | the handler, a list read by it, and a client that turns pages | `PaginateList`, `Handler` |
| `Provisioning` | ensureTable, executePlan, verifyTable, descriptor | |
| `ExpressionParams` | every expression builder, cleanParams | |
| `ListRequest` | a list request from its options to the rows, and the mass operations on it | |
| `StoredShape` | prepare, revive, and the operations that go through them | |
| `VersionedItemProofs`, `SubtreeRenameProofs`, `MassWriteProofs`, `ProvisioningProofs`, `ExpressionParamsProofs`, `StoredShapeProofs` | theorems | their component, TLAPS |
| `BatchProofs` | theorems about both users of the batch loop | `ApplyBatch`, `ReadByKeys`, TLAPS |
| `ListProofs` | theorems about lists and the requests for them | `RestSession`, `ListRequest`, TLAPS |
| `MC...` | constants and symmetry for TLC | their component |

### VersionedItem

`log[k]` is the history of the item under key `k`: its last entry is what the
table holds, an earlier one is what an eventually consistent GetItem may still
return. An operation is two actions. The client's half (`Post`, `Clone`, `Put`,
`Patch`, `Edit`, `Delete`, `Move`, `GetByKey`) takes what was read and puts a
request into `pending[c]`, as `makePost`, `makePut` and the others do; the
table's half (`ExecutePut`, `ExecuteUpdate`, `ExecuteDelete`, `ExecuteMove`)
evaluates its condition and applies it atomically. Everything interleaves in
between. The conditions are those of `_addVersionCondition`
(`VersionCondition`) and `_checkExistence`, the versions those of
`_applyVersionToItem` (`NextVersion`) and the `ADD` clause (`AddedVersion`).
Version 0 is an item without a version attribute. A put may carry an item read
under the same key or a new one; a clone, or a post, carries the version of the
item it copies. Two fields of an entry, `by` and `base`, are history.

`AtomicItem` is the promise: every operation takes effect at once, on the item
as it is at that moment. `AtomicSpec` says that `VersionedItem` implements it,
with `hist <- log`.

### BatchWrite, ApplyBatch, ReadByKeys

`BatchWrite` has the state of the loop: `unsent` (RequestItems of the next
request), `attempts` and `status`. `Deliver(done)` is an answer in which the
table processed `done`; `Throttle` is ProvisionedThroughputExceededException;
`Raise(done)` is any other error, which may hide writes that took place; `Wake`
is the end of a pause. The modules that use it supply the effect. `ApplyBatch`
adds the chunks and the total. `ReadByKeys` adds the stored items and what was
ever stored during the call (`past`), the positions that are asked for (`asked`:
all of them, or those of the second hop), cut into the chunks of `getBatch` by
their `Rank`, the items that came back (`got`) and the result; `Change` is
another client. BatchGetItem refuses a request that names a key twice
(`RefuseChunk`).

### RunPaged, MassWrite, SubtreeRename

The rows of the range stand at the positions `1..Last`; a cursor is a
position. `ReadLastPage` and `ReadFullPage` let DynamoDB cut a page anywhere.
`FirstCall`, `Resume`, `Repeat` and `RepeatReturned` are the caller, who passes
cursors on, repeats what threw, and may repeat without need; `Throw` is an
error or a crash.

`MassWrite` has one of six operations and a flag for the subtree variant. A
slice of a page goes to `BatchWrite`; a conditional clone and cloneWithOverwrite
go row by row (`Turn`, `ClearRow`, `PutRow`). A page that ends at the cap gives
its caller a cursor (`StopAtBudget`), but for the call of a subtree clone that
copies the root: its envelope is merged with the root's (`MergesRoot`), and the
merge drops the cursor (`StopWithoutCursor`). `SubtreeRename` has a put and a
delete per row; `Bucket` files a row under `processed`, `skipped` or `failed`.
In both, position 0 is the root of the subtree, which the walk does not
return.

### PaginateList

`step` is the loop that runs: count the offset with COUNT requests, skip,
collect, count the rest. `UpTo(row)` is the number of matches up to a row; the
page a caller should get is the stretch of matches behind the first `offset` of
them. For the filtered variant DynamoDB is taken to cut a page that is read
twice at the same row (`cut`), which the code relies on. It is checked within
`RestSession`, whose callers are programs, which ask for every window directly,
and the handler, which clamps what a query asks for.

### Handler, RestSession

`Handler` is one request. `stream` and `socket` are what node knows of it,
`reader` is the promise of `readJsonBody`, `pc` the place in the async function,
`answers` what was written to the response and `told` what arrived. `Data`,
`End`, `StreamError` and `Gone` are events, which come whenever they like; the
rest is the handler: `Malformed`, `MethodNotAllowed` and `Dispatch` stand for
routing (`MatchRoute`, `Routes`), `BodyRead` for the awaited body, `RefuseLoad`
and `RefuseSort` for errors ahead of the call, `Call` and `AdapterReturns`,
`AdapterMisses`, `AdapterThrows` for the call, `Respond` for the answer.
`MapErrorStatus` is the table of statuses, `Written` says what a failed call may
have done (external: it is DynamoDB's word on its errors).

`RestSession` lets the request of `Handler` run, and `paginateList` inside a GET
of the collection: `CallList` hands over the window `parsePaging` makes of the
query, `ReadList` reads page by page while stream events go on, `ReturnList`
makes the envelope with its links. `FollowNext` and `FollowPrev` are the client,
whose next request carries what the link says.

### ExpressionParams

`names` and `values` are the two alias maps, an alias is a prefix and a number,
and the number is how many aliases the map holds (`From`). `refs` remembers what
each use of an alias in an expression was meant to stand for. One action is one
builder: those of `expressions/` and the private ones of the Adapter.
`DropProjection` is what a COUNT request and the first hop of an indirect list do
to the projection; `CleanParams` is the last step before a request.

### ListRequest

`options` is the request and `stage` how far it got. An item is a function from
attributes to values, a condition the set of values it accepts; the key conditions
are a function from the clauses they were promoted from, 0 being the example.
`Refuse` is an error of the toolkit; `Build` makes the request:
`ListParams` for a list, `MassParams` for the operations on lists. `Reject` is
DynamoDB's validation (`Valid`), `Read` the query over the index with the
attributes it projects (`IndexRow`), `Hop` the second request of an indirect
index, `Write` what delete, clone and move make of the rows. `OtherDeletes` is
another client between two of these.

Not every request that the options allow gets what it says (see *Other
disagreements*). `FiltersProjected`, `SearchesSomething`, `DescriptorUnnamed`,
`MassUnfiltered` and `KeysUnsearched` name what a caller keeps to, and are the
hypotheses of the theorems. The requests of the instance keep to them:
`MCListRequest` has TLC evaluate that (`PlainKeepTo`).

### StoredShape

`Prepare` and `Revive` are the built-in hooks: structural key, search mirrors,
type label; `Stripped` are the managed fields that the technical prefix marks.
`Post`, `Put`, `Patch` and `Delete` are requests of anyone; one client holds what
it has read, whole or in part, and writes it back by `PutBack`, `Clone`, `Move`,
`Edit`, or `EditMoves` and `EditMoved`, which read and move in two steps. What it
holds may be stale by then. An edit is the difference that `_diffForUpdate`
computes (`Sets`, `Removes`), applied to the record as it is now.

### Provisioning

A schema is a function from parts (global indexes; base keys; local indexes)
to shapes. Callers with their own declarations describe, plan (`Ensure`; a plan
is the set of steps that are left, taken in the order of the declaration),
execute step by step (`Step`, `RejectStep`, `LoseStep`), write the descriptor
and verify (`Describe`, `ReadDescriptor`); `Settle` is DynamoDB finishing what
it builds. `Accepted` is external: a table is created once, and takes one new
index at a time while it is ACTIVE. A table found may have base keys that a
caller does not declare; `KeysFit` tells, since DynamoDB may then refuse the
descriptor record, in `WriteDescriptor` as in `ReadDescriptor`.

## Runs

| Run | Instance | Distinct states | Shows |
|---|---|---|---|
| `VersionedItem_keep` | 2 clients, 1 key, 5 calls: post (also as a clone), put, patch, edit | 400,787 | `AtomicSpec`, `HeldVersionIsStored` |
| `VersionedItem_recreate` | 2 clients, 2 keys, 3 calls; removals, forced puts, clones, moves | 1,743,471 | `NoLostUpdate`, `VersionsRise` |
| `ApplyBatch_chunks` | 7 writes in chunks of 3, 4 attempts | 292 | `ReturnMeansApplied`, `NoResend`, `ApplySettles` |
| `ReadByKeys_batch` | 3 keys, 5 positions, chunks of 2, 3 attempts, 2 writes of others | 79,106 | `PositionsAreTrue`, `Settles` |
| `MassWrite_resume` | root and 5 rows, pages of at most 5, cap 2, slices of 2 and batches of 4, 2 attempts, 3 faults | 172,230 | `FinishedHandledAll`, `SparedStay`, `LostOnlyByThrow`, `RootInOrder`, `EventuallyHandled` |
| `SubtreeRename_walk` | root and 4 rows, pages of at most 3, cap 2, 3 faults | 10,759 | `NoItemLost`, `OccupiedKept`, `EnvelopeTellsAll`, `RootLast`, `EventuallyComplete` |
| `Provisioning_callers` | 2 callers, 3 indexes, 2 fixed parts, 2 shapes, 1 lost answer | 11,447 | `DescriptorIsBacked`, `ReturnedIsProvisioned`, `VerdictIsSound`, `EventuallyProvisioned` |
| `ExpressionParams_builders` | 2 attributes, 1 value, 4 paths, 3 builders | 544,847 | `Meant`, `Accepted` |
| `ListRequest_selection` | 5 rows, one of them the descriptor; 4 indexes, one of them indirect; 10 clauses in lists of up to 2; 1 deletion by another client | 102,487 | `ListIsSelection`, `HopIsSound`, `WritesWanted`, `PlainIsAccepted` |
| `StoredShape_roundTrip` | 3 key fields with gaps, a searchable field with 2 values, another one, 3 projections of an edit | 80,899 | `KeyMatches`, `RoundTrips`, `EditIsExact` |
| `Rest_session` | every route, bodies of up to 4 bytes in chunks of 1 and 2, cap 2; a list of 4 rows, 3 matches; offsets and limits from below 0 to beyond the end | 593,531 | `SessionTypeOK`, `PageIsTrue`, `RaceSettled`, `ToldTruth`, `LinksAdjoin`, `AllSeen`, `Answered`, `WalkEnds` |
| `ListRequest_filteredDelete` | mass deletions with a filter or a search | | `WritesWanted` is violated, see below |

Type invariants are proved and not run as well, but for `SessionTypeOK`, which
covers three modules. ListRequest has none; its requests are taken from the
instance.

Why the bounds are enough. Lost updates take two writers of one item and a
reader in between; a removal and a re-creation take two more operations on the
same key, which two clients with three calls reach, reads being free.
`VersionedItem_keep` gives one key five calls, so that an edit follows an edit
that another client raced. In `ApplyBatch` two chunks are full and the last is
short, and the cap on attempts falls into the middle of a chunk. In the walks
a page can end at every row, the cap of two falls inside and at the end of
pages, the last page may be empty, one row is dropped by `mapFn` and one has an
occupied destination, and three faults allow a crash in the repetition of a
repetition. MassWrite keeps the relation of the code's numbers: the puts and
deletes of a slice fit into one batch (12 + 12 <= 25, here 2 + 2 <= 4). In
`ReadByKeys` a key comes back in a later chunk, and two writes change it in
between. In `Provisioning` the declarations share an index and disagree on its
shape, and each has one that the other lacks; the table that is found may have
other base keys than both.

A clash of aliases takes two builders, and one between that makes the counts
differ or drops what was counted; a path may name an attribute twice, two
builders the same attribute. Values are not told apart: their aliases are.
In `ListRequest` the rows and clauses are such that each clause separates rows
and a pair of clauses can compete for each component of each key; pairs in both
orders decide which is promoted. The instance leaves out filters on what an
indirect index does not project (see *Other disagreements*) and mass operations
with a filter, which are the violation. In `StoredShape` one value for a key
field is enough, because a key changes by losing or gaining a tier; the
searchable field needs two, so that a stale mirror is visible. In `Rest_session`
the cap on bodies can be hit exactly, crossed by one chunk, or crossed by the
sum of chunks each below it; the windows lie before, across and beyond the end
of a list whose filter leaves gaps; the limit of a query can be below, at and
above what the policy and the Adapter allow.

Bounds that stand in guards: `MaxCalls` (operations started, builders called),
`MaxFaults` (failures, lost answers and needless repetitions), `MaxChanges`
(writes of others), `MaxBytes` (what a client sends). Deadlock is not checked
where a bounded system comes to rest.

Fairness. `WF_vars` on what goes on by itself: an answer of DynamoDB arrives,
a timer fires, the code between two answers runs. In the walks it includes the
caller who passes a cursor on and repeats what threw; without such a caller
nothing is promised, and the code says so (`mass/run-paged.js:9-10`). Where the
code drops the cursor, the caller has nothing to pass on, and `EventuallyHandled`
promises no more than the rows up to the last page. Faults,
repetitions without need, and other clients have no fairness. In
`Provisioning` the caller repeats what threw (`WF` on `Ensure` until it
returned) and `Settle` is fair: DynamoDB finishes building a table or an index.
Throttling is never assumed to end; the loops end because attempts are capped.
In `Rest_session` the handler, the Adapter and the reads of a list get on, and a
client ends its request or loses the connection (node closes one that stalls);
that the client turns pages is assumed for `WalkEnds` only.

`WalkEnds` is checked with `MaxOffset` not below the length of the list. Beyond
`MaxOffset` it is false: a next link that points past it is clamped on its way
back in and shows a page that was shown before (see below).

### What the violation shows

`ListRequest_filteredDelete`: `DELETE /?eq-name=...` and `DELETE /?search=...`
are routed to `deleteListByParams` with the filter and the search in the options
(`handler/handler.js:184`), but `_buildListParams` does not look at them
(`adapter.js:2270-2274`) and neither does `deleteListByParams`: every item of the
table is deleted. `llms-full.txt:568` gives the route with both, and the comment
at `adapter.js:1957-1959` says that the mass operations honour them. Clone and
move do the same. What does hold, in `ListRequest_selection`, is that mass
operations take what index, example, age and descriptor option select.

## Proofs

| Module | Theorem | Says | Under |
|---|---|---|---|
| `VersionedItemProofs` | `TypeCorrect` | `[]TypeOK` | |
| | `LostUpdateExcluded` | `[]NoLostUpdate` | `Discipline` |
| | `VersionsRiseAlways` | `[]VersionsRise` | `Discipline` |
| | `HeldVersionIsTrue` | `[]HeldVersionIsStored` | `Discipline` |
| | `Refinement` | `AtomicSpec` | `NoDeletes`, `NoForce` |
| `BatchProofs` | `ApplyTypeCorrect`, `ReturnIsComplete`, `CountIsSound`, `NothingResent` | `[]ApplyTypeOK`, `[]ReturnMeansApplied`, `[]CountedAreApplied`, `[]NoResend` | |
| | `TypeCorrect`, `AnswersAreTrue` | `[]TypeOK`, `[]PositionsAreTrue` | `KeysProjected` |
| `SubtreeRenameProofs` | `TypeCorrect`, `NoRowLost`, `NoDestinationOverwritten`, `EnvelopeIsComplete`, `RootMovesLast` | `[]TypeOK`, `[]NoItemLost`, `[]OccupiedKept`, `[]EnvelopeTellsAll`, `RootLast` | |
| `MassWriteProofs` | `TypeCorrect`, `FinishedIsComplete`, `SparedAreUntouched`, `LossIsReported`, `RootKeepsItsPlace` | `[]TypeOK`, `[]FinishedHandledAll`, `[]SparedStay`, `LostOnlyByThrow`, `RootInOrder` | |
| `ProvisioningProofs` | `TypeCorrect`, `DescriptorNeverAhead`, `ReturnedHasIndexes`, `VerdictStaysSound` | `[]TypeOK`, `[]DescriptorIsBacked`, `[]ReturnedIsProvisioned`, `[]VerdictIsSound` | |
| `ExpressionParamsProofs` | `TypeCorrect`, `NothingClobbered`, `CleanedIsAccepted` | `[]TypeOK`, `[]Meant`, `[]Accepted` | |
| `StoredShapeProofs` | `TypeCorrect`, `RecordsMatchKeys` | `[]TypeOK`, `[]KeyMatches` | |
| | `EditsAreExact` | `EditIsExact` | |
| | `RecordsRoundTrip` | `[]RoundTrips` | `Technical`, `MirrorsKept` |
| `ListProofs` | `WindowIsTrue` | `[]PageIsTrue` | |
| | `RequestSettles`, `ToldIsTrue` | `[]RaceSettled`, `[]ToldTruth` | |
| | `PagesAdjoin` | `[]LinksAdjoin` | `N <= MaxOffset` |
| | `NothingMissed` | `[]AllSeen` | |
| | `SessionTyped`; `HandlerKept`, `WalkKept`, `SeenKept` | `[]SessionTypeOK`; the invariants the others rest on | |
| | `ListsSelect`, `HopsAreSound` | `[]ListIsSelection`, `[]HopIsSound` | `FiltersProjected`, `SearchesSomething`, `DescriptorUnnamed` |
| | `MassWritesWanted` | `[]WritesWanted` | these three, `MassUnfiltered` |
| | `PlainsAreAccepted` | `[]PlainIsAccepted` | `KeysUnsearched` |

They hold for any clients, keys, sizes, caps, declarations, hierarchies, tables,
windows, filters and numbers of calls, from the assumptions that the modules
name. Most say of what kind a constant is. The others are facts of the code:
a limit and a cap are at least 1 (`WindowAssumption`, `PolicyAssumption`), every
item has its keys and no two the same, a copy has a new key
(`TableAssumption`), an example names the partition key of the index and a
clause one attribute (`RequestAssumption`).

**VersionedItem.** `NoLostUpdate` speaks of the history only, and a step can
break it only through a request that is under way. The inductive invariant
adds what the requests carry: `RequestsTrue` (a conditional request holds the
version of the state its client read), `HeldTrue` (a client's item is a state
of the history, with its version), `VersionsRise` (two states of one life never
have the same version, so a matching version is a matching state), `Stays`
(nothing vanishes unless somebody removes it) and `Written` (only the
operations in use write). Every step leaves a history alone or appends one
entry in the right relation to the current one (`NewEntry`, `Grows`), and each
part of the invariant is preserved by such growth; then each operation is
shown to grow histories that way.
`Discipline` is `"edit" \in Calls => NoDeletes`: edits and removals do not meet
in one system. Without it the theorem is false, because the code lets an edit
of an item removed meanwhile create part of it again and hand back a version
that is not the stored one (`adapter.js:1407`, `1449-1452`).
`Refinement` needs `NoForce` as well, since a forced put replaces what its
caller did not read.

**ApplyBatch.** `ChunkInv` ties `total` and `applied` to `start`: the chunks
before it are applied, those behind untouched, and of the current one exactly
what is not in `unsent` is. From it follow the three properties.

**SubtreeRename.** `TableInv` says that a row whose delete is due has its copy;
`WalkInv` that every row the walk has been past has moved or is in a bucket,
where "been past" is read off `startKey`, `page` and `more`. `RootLast` is an
action property, proved from the invariant at the step of the put.

**MassWrite.** The walk is the same, but a row is handled by a batch that may
end half done. `WalkInv` says that every row the walk has been past is done with
(handled, or its failure reported) or its last request is still in the batch
(`Pending`); rows up to the token of the call are done with for good, which is
what a resumed or repeated call relies on. Of a call that returned without a
cursor it says the same of every row, or, when the cap cut a subtree clone short
(`CutShort`), of those up to its last page: this is `FinishedHandledAll`. `LoopInv` says what the batch may
hold, and of a move that a delete in the batch has its put in it too, or the copy
stands already: so a row can only be lost by giving the batch up, which throws.
`RootInv` follows the turn of the root. `RootInOrder` and `LostOnlyByThrow` are
action properties, proved from the invariant.

**ReadByKeys.** `PastTrue` says that whatever came back was stored during the
call; `ChunksAnswered` that all keys of earlier chunks came back, and of the
current one all but those in `unsent`; `HopsTrue` that a position the second hop
leaves out was missing at some time, and that two positions of one key are both
asked for or both not. `KeysProjected` says that the fields asked for include
the key attributes; without them every answer is a miss (see below).

**Provisioning.** No step takes a part from the table or changes its shape
(`Grows`), except that the table comes to life, when it had none. With that, what
a caller has concluded stays true: its plan creates the table or covers every
declared index that is missing (`PlansCover`), a finished plan leaves none
missing (`PlansDone`), and a clean comparison stays clean (`VerdictsMatched`).

**ExpressionParams.** `Numbered` says that every number in use is below the
count that the next one is drawn from; so a new alias is no old one, whatever its
prefix, as long as nothing is dropped, and cleaning is the last call. `Drawn`
says which count that is: the search builder numbers its value by the names,
which is safe because no other builder has its prefix.

**StoredShape.** `KeyMatches` is inductive with the domain of the table
(`KeyInv`) and `HeldInv` (what the client holds was read under a key, and what it
is about to move has a partition key): a full write computes the structural key
anew, a patch strips key fields, an edit that changes one becomes a move, and
DynamoDB refuses an update of the sort key.
`RoundTrips` needs that a record is whole (`TableWhole`: mirrors and label are
those of its fields) and that what the client holds is whole in the part it read
(`HeldWhole`). An edit of a stale or partial copy then moves a field and its
mirror together, because `Lower` tells apart what the field does.

`EditIsExact` is an action property and needs no invariant: the difference
between what was read and what is wanted, applied to what was read, gives what is
wanted (`DiffIsExact`), and fields that the client had not read are not touched
(`DiffSpares`). A mirror is the mirror of one field (`MappedInOne`).

**PaginateList.** A page that should come is a stretch of the matches (`Stretch`).
`WindowInv` says of each loop what its counters are in terms of `UpTo(pos)`: while
rows are counted or skipped, `skipped` is the number of matches up to `pos`; while
they are collected, `result` is the stretch from `offset` on. The hard case is the
filtered COUNT request whose page goes beyond the offset: the code goes back to
where that page began and reads it again, now for its rows (`Overshot`). This is
right because the page is cut at the same row (`cut`).

**Handler.** `ReaderInv` ties the promise of the reader to the stream: a body
that settled is the whole of what was sent and within the cap. `Progress` follows
the handler: an operation is called at most once and not before its body arrived,
the status says of the call what is true of it (`StatusTrue`), and there is one
answer. `RaceSettled` and `ToldTruth` follow, in whatever order data, end, error and
close come.

**RestSession.** `WalkInv` says that from the call of getList on the window is
the one the query asks for, and that a page is what `WindowInv` makes of it, with
its links. `SeenInv` says that what a client has seen is one stretch of the
matches, which reaches around its page; a next or previous page adjoins it or lies
within it, so no match is left out. `LinksAdjoin` needs `N <= MaxOffset`: beyond
it a next link is clamped and overlaps the page it stands on. `AllSeen` does not:
a client that is led in a circle never sees a last page.

**ListRequest.** The lemmas are about the operators: each clause ends up in the
key condition or in the filter, none in both, and the two together select what
the request means (`Wanted`); on attributes that an index projects, its rows agree
with their items. `RequestInv` carries that through the two hops and a
deletion by another client in between; `MassInv` adds that a mass operation
writes what was read. The hypotheses exclude what the code gets wrong:
filters on what an index leaves out, a search in no field, the descriptor's
partition named by a filter, filters of mass operations (the violation above),
and a search mirror or the age as a key of the index, which DynamoDB rejects.

Only model-checked: liveness, that is `ApplySettles`, `Settles`,
`EventuallyHandled`, `EventuallyComplete`, `EventuallyProvisioned`, `Answered`
and `WalkEnds` (the prover has no ENABLED). Every other property of a passing run
is stated by a theorem. Induction over data and recursive operators are out of
the prover's reach; the modules use none, apart from the library's sequences in
PaginateList, which are described by what they select.

## Other disagreements met

Not runs of their own, but modelled or seen. The hypotheses in the last
column of the table above are the places where the theorems leave them aside.

Single items:

* With `expectedVersion`, a patch is sent under `attribute_not_exists(pk) OR
  version = :v` (`adapter.js:1297`), which an item that was deleted meanwhile
  satisfies: a part of an item appears, although `adapter.js:1290` says that a
  patch always requires the item to exist.
* An edit of an item deleted meanwhile re-creates a part of it and returns a
  version the table does not hold (`adapter.js:1407`, `1449-1452`; the comment
  at `1505` expects a failed condition).
* An item stored before `versionField` was declared is refused by put and edit
  for ever (`adapter.js:903`).
* A clone, move or post of an item that was read starts above version 1
  (`adapter.js:1240`; `llms-full.txt:754` says 1).
* Delete and re-post start the versions again, so that an old version can match
  a new item (`adapter.js:879`). This is why `NoLostUpdate` speaks of one life.
* A move deletes its source whatever happened to it since it was read
  (`adapter.js:2225`).
* `options.consistent` is ignored by getByKey and getByKeys
  (`adapter.js:1872-1901`; `adapter.d.ts:280`).

Stored shape:

* A patch that deletes a searchable field leaves its mirror, and an edit whose
  `readFields` name a field without its mirror, or that changes its case only
  while a patch changes the field, leaves one that does not fit: a search finds
  what is no longer there. A patch that deletes a key field takes the record off
  its key (`adapter.js:1302`). `llms-full.txt:89` says that patches leave mirrors
  to the user; `prepare` writes those of the fields a patch sets.
* Without a technical prefix the managed fields come back to callers and go in
  again as if they were theirs; the prefix is not demanded of `typeField`,
  although the comment at `adapter.js:415-417` says that every managed name is
  checked. With `typeField: 'kind'`, as in `README.md:86`, a clone or move to
  another depth keeps the old label (`adapter.js:549`).
* Key fields with a gap give the structural key of what stands before the gap,
  which is the key of another record.
* An edit with `readFields` and `allowKeyChange` moves the fields it has read and
  deletes the rest with the source (`adapter.js:1436-1442`). One whose
  `readFields` name key fields but not the structural key is refused by DynamoDB,
  because the structural key it did not read looks like a change of it; the code
  adds no fields to the projection, as `adapter.d.ts:351-352` and the comment at
  `adapter.js:1427-1429` say. It returns the mapped item also when the move found
  nothing (`adapter.js:1441`).

Reads and lists:

* `getByKeys` projects the caller's `fields` without adding the keys
  (`adapter.js:1895-1898`; `adapter.d.ts:751-752`), and `readByKeys` files items
  under their key attributes: with fields that leave out the keys every answer is
  a miss. The second hop of an indirect getByKeys may name a key twice in one
  request, which DynamoDB refuses (`adapter.js:1920`).
* Two clauses on the partition key: the second stays in the filter, on an
  attribute of the key condition, and DynamoDB rejects the request
  (`adapter.js:1131`). So it does when the sort key is filtered and the partition
  key is not (`adapter.js:1120-1122`). `PlainIsAccepted` states what is accepted.
  `asOf` over an index keyed by the creation date, and a search over one keyed by
  a mirror, are filters on a key attribute too (`KeysUnsearched`).
* `?eq-<pk>=<descriptorKey>` lists the descriptor: a query is not told to hide it
  (`adapter.js:936`; the reason given at `930-932` is true of queries only).
* Filters on attributes that an indirect index does not project find nothing: they
  are evaluated on the first hop (`adapter.js:1963`; `llms-full.txt:263`).
* A mass move over an index that projects a part of the attributes writes that
  part and deletes the rest with the source (`adapter.js:2189`).
* A search with `fields` that name no searchable field lists everything
  (`expressions/search.js:20`; `search.d.ts:20-21` speaks of an empty query only).
* `?sort=` on a list without a key condition chooses an index and no order: a Scan
  has none (`handler/handler.js:142`; `llms-full.txt:587`).
* `getTotal` inside paginateList counts matches before the offset
  (`mass/paginate-list.js:42`; `paginate-list.d.ts:36`).
* Builders that go on with params which were cleaned may take an alias in use
  (`adapter.js:1081`; the comment at `1068-1069` calls merging safe). An attribute
  may be projected twice under two aliases, which DynamoDB rejects
  (`expressions/projection.js:22`).

Mass and subtree operations:

* cloneAllUnder and cloneAllUnderBy, stopped by `maxItems` on their first call,
  return no cursor: `_mergeMassOpResults` does not carry it over
  (`adapter.js:1784`, `1634-1641`). The rows behind the last page are left, the
  envelope looks finished, and the caller has nothing to resume with; the same call
  again starts over. `llms-full.txt:199` says that `cursor` is present iff the op
  stopped early, `llms-full.txt:213` that all cascade primitives honour maxItems
  and resumeToken, `adapter.d.ts:1042-1043` that the walk of a subtree clone is
  resumable through them. Every other call, and a subtree clone that stays below
  its cap, does what they say: `FinishedHandledAll`, `EventuallyHandled`.
* Puts and deletes of a move travel in one batch; when the delete of a row is
  processed, its put is not, and the call throws, the row is gone
  (`adapter.js:2196`). `llms-full.txt:201` calls re-running safe. What does hold is
  `LostOnlyByThrow`.
* After a crash between put and delete the repeated rename finds the destination
  occupied, skips the row, and never deletes the source (`adapter.js:1844`),
  although `adapter.js:1535-1537` and `llms-full.txt:196` say that it does. What
  does hold is `NoItemLost` and `EnvelopeTellsAll`.
* `putItems` with `strategy: 'sequential'` puts with `force`
  (`adapter.js:2006`), while the comment at `2014` sends callers there for
  optimistic concurrency.
* moveListByParams ignores `ifNotExists` (`adapter.js:2193`;
  `llms-full.txt:203`).
* moveAllUnder moves the root even when descendants failed (`adapter.js:1814`;
  the comment at `1807` says they migrate fully first). `RootLast` states what
  holds.
* The `asOf` freeze of a subtree operation is not applied to its root
  (`adapter.js:1649`, `1668`, `1701`).

Provisioning:

* verifyTable files a missing required descriptor as `error`
  (`verify-table.js:149`), the comment at `133` says `warn`.
* ensureTable takes an index of the same name and another shape as present,
  reports a missing local index without touching it (`ensure-table.js:8`), is
  rejected at the second of two indexes in a row, and on a new table writes the
  descriptor while the table is still being created. `EventuallyProvisioned`
  shows that repeating the call gets there all the same, short of the descriptor
  in a table with other base keys: ensureTable does not look at these, and goes
  on to write a record that DynamoDB may refuse each time.

Handler:

* The 413 of an oversized body never reaches its client: the reader destroys the
  request, and the socket with it, ahead of the answer
  (`handler/read-json-body.js:33`; `handler.d.ts:57-59`).
* Errors of the toolkit that blame the query, such as NoIndexForSortField, have no
  status and answer 500 (`handler/handler.js:146`); so does an exception of the
  service that the table of `llms-full.txt:594` does not name, throttling under
  its other name among them.
* A next link beyond `maxOffset` is clamped on its way back in and leads to a page
  that was shown before, for ever (`rest-core/parsers/parse-paging.js:16`).
* By-names routes drop what is behind the first thousand names without a word
  (`rest-core/parsers/parse-names.js:15`), and mass routes answer with the number
  of processed rows whatever was skipped.
* Nothing in the handler calls `validateWriteBody` (`llms-full.txt:476`).

## Not modelled

* User-supplied conditions and params, `checkConsistency` transactions, and
  tables without `versionField` (single items). The transactions of `batch/` are
  one atomic request each.
* editListByParams, cloneByKeys and the sequential strategies.
* Destinations inside the range that is walked, and other clients during a
  walk: the code has no means against either.
* `swapPrefix`, `typeDiscriminator`, sparse markers, `createdAtField`, user hooks
  (stored shape); nested paths (stored shape and expressions); coercion of filter
  values (list building).
* Billing, streams and the fields of the descriptor (provisioning).
* Adapters of the handler to other frameworks, marshalling, paths, error classes,
  the CLI, logging, delays: conversions and wiring without state of their own.

## Plan

Done, in this order: VersionedItem with its abstract specification and proofs;
BatchWrite and ApplyBatch with proofs; RunPaged with SubtreeRename, MassWrite and
their proofs; ReadByKeys and Provisioning with proofs; ExpressionParams with
proofs; PaginateList, Handler and their composition in RestSession, with proofs; ListRequest
with proofs; StoredShape with proofs.

Next, most important first:

1. editListByParams as a client of the walk and of the versioned items:
   conflicts, the promotion to a move, what a resumed call meets.
2. MassWrite against a range that receives its own output, and against other
   clients (orphans under a deleted root).
3. `swapPrefix` and the prefix range of `buildKey`: a subtree is exactly its
   prefix range, and its image under another prefix is one too.
4. A refinement of RunPaged to a walk in one step.
