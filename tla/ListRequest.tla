------------------------------ MODULE ListRequest ------------------------------
(***************************************************************************)
(* One list request: from the options of a caller, or the query of a REST  *)
(* call, over the index that is chosen and the expressions that are built  *)
(* to the rows that are listed, deleted, copied or moved.                  *)
(*                                                                         *)
(* An item is a function from its attributes to values.  A condition holds *)
(* of an item when one of its attributes has one of the values it accepts. *)
(* Pages are PaginateList and RunPaged; reads and writes are whole here.   *)
(***************************************************************************)
EXTENDS Integers, Sequences, Functions, FiniteSets

CONSTANTS
    PartitionKey, SortKey,  \* of the base table
    CreatedAt,
    Mirror,         \* searchable fields, and the attribute that mirrors each
    DescriptorKey,
    Indices,        \* [type, pk, sk, attributes, indirect] for every declared index
    Filterable,     \* pairs of a field and an operator
    Values, Absent,
    Table,          \* items at the beginning
    Requests        \* [op, index, sort, consistent, example, clauses, search, fields, asOf, descriptor]

VARIABLES
    options,    \* the request
    params,     \* [index, consistent, key, filter, fields]: what is sent; the conditions
                \* of the key by their places in the request: 0 is the example
    table,
    stage,
    outcome,    \* "none", "listed", "written", "refused" by the toolkit, "rejected" by DynamoDB
    rows,       \* what was read
    interfered  \* another client has deleted an item

listVars == <<options, params, table, stage, outcome, rows, interfered>>

None == "none"
AllFields == {}     \* of an absent `fields`
Base == "base"

KeyAttributes == {PartitionKey, SortKey}
KeyOf(row) == Restrict(row, KeyAttributes)
Value(row, a) == IF a \in DOMAIN row THEN row[a] ELSE Absent
Meets(row, c) == \E a \in c.attrs : Value(row, a) \in c.accepts
Project(row, fields) == IF fields = AllFields THEN row ELSE Restrict(row, DOMAIN row \cap fields)

IsDescriptor(row) == row[PartitionKey] = DescriptorKey

\* The key of what is read; a local index has the partition key of the table.
KeySchema(index) ==
    IF index = Base THEN [pk |-> PartitionKey, sk |-> SortKey]
    ELSE [pk |-> IF Indices[index].pk = None THEN PartitionKey ELSE Indices[index].pk,
          sk |-> Indices[index].sk]

Indirect(index) == index # Base /\ Indices[index].indirect

-----------------------------------------------------------------------------
\* The request.

\* findIndexForSort, and the map the handler makes of the indices.
IndicesForSort(field) ==
    LET by(type) == {i \in DOMAIN Indices : Indices[i].type = type /\ Indices[i].sk = field}
    IN IF by("lsi") # {} THEN by("lsi") ELSE by("gsi")

\* The explicit index wins over the sort field.
Targets(r) ==
    IF r.index # None THEN {r.index}
    ELSE IF r.sort # None THEN IndicesForSort(r.sort)
    ELSE {Base}

Allowed(clauses) ==
    \A i \in DOMAIN clauses : \E f \in clauses[i].attrs : <<f, clauses[i].op>> \in Filterable

\* _buildListParams
BuildListParams(r, index) ==
    [index |-> index, consistent |-> r.consistent, key |-> r.example, filter |-> {},
     fields |-> IF r.op = "getList" THEN r.fields ELSE AllFields]

EarliestOf(positions) == {i \in positions : \A j \in positions : i <= j}

RangeOps == {"eq", "range"}     \* range stands for beg, btw, lt, le, gt and ge

\* Mutation: a clause on the sort key is never promoted.
PromotedPartition(clauses, schema) ==
    EarliestOf({i \in DOMAIN clauses : clauses[i].op = "eq" /\ clauses[i].attrs = {schema.pk}})

\* The clauses that become key conditions: the first of each component.
Promoted(clauses, schema) ==
    EarliestOf({i \in DOMAIN clauses : clauses[i].op = "eq" /\ clauses[i].attrs = {schema.pk}})
    \cup
    EarliestOf({i \in DOMAIN clauses : clauses[i].op \in RangeOps /\ clauses[i].attrs = {schema.sk}})

ApplyFilter(p, clauses) ==
    LET promoted == Promoted(clauses, KeySchema(p.index))
        keyed == [p EXCEPT !.key = [i \in DOMAIN @ \cup promoted |->
                                        IF i \in promoted THEN clauses[i] ELSE @[i]]]
    IN [keyed EXCEPT !.filter = @ \cup {clauses[i] : i \in DOMAIN clauses \ promoted}]

\* buildSearch: `fields` restricts the mirrors; without one left there is no search.
BuildSearch(p, search, fields) ==
    LET searched == IF fields = AllFields THEN DOMAIN Mirror ELSE DOMAIN Mirror \cap fields
    IN IF search = {} \/ searched = {} THEN p
       ELSE [p EXCEPT !.filter = @ \cup
                {[attrs |-> {Mirror[f] : f \in searched}, op |-> "ct", accepts |-> search]}]

\* Mutation: the age of an item is not looked at when something else filters.
ApplyAsOfAlone(p, asOf) ==
    IF asOf = {} \/ p.filter # {} THEN p
    ELSE [p EXCEPT !.filter = {[attrs |-> {CreatedAt}, op |-> "range", accepts |-> asOf]}]

ApplyAsOf(p, asOf) ==
    IF asOf = {} THEN p
    ELSE [p EXCEPT !.filter = @ \cup {[attrs |-> {CreatedAt}, op |-> "range", accepts |-> asOf]}]

HideDescriptor(p, include) ==
    IF include \/ DOMAIN p.key # {} THEN p
    ELSE [p EXCEPT !.filter = @ \cup {[attrs |-> {PartitionKey}, op |-> "ne",
                                       accepts |-> Values \ {DescriptorKey}]}]

\* getListByParams: of an indirect index only keys are read.
ListParams(r, index) ==
    LET built == BuildListParams(r, index)
        hop == IF Indirect(index) THEN [built EXCEPT !.fields = KeyAttributes] ELSE built
    IN HideDescriptor(
        ApplyAsOf(BuildSearch(ApplyFilter(hop, r.clauses), r.search, r.fields), r.asOf),
        r.descriptor)

\* Mutation: the option to see the descriptor is not handed on.
MassParamsHidden(r, index) ==
    LET built == BuildListParams(r, index)
        keys == IF r.op = "delete" THEN [built EXCEPT !.fields = KeyAttributes] ELSE built
    IN HideDescriptor(ApplyAsOf(keys, r.asOf), FALSE)

\* The mass operations on a list; a deletion reads keys only.
MassParams(r, index) ==
    LET built == BuildListParams(r, index)
        keys == IF r.op = "delete" THEN [built EXCEPT !.fields = KeyAttributes] ELSE built
    IN HideDescriptor(ApplyAsOf(keys, r.asOf), r.descriptor)

Filters(r) == r.op = "getList"

Params(r, index) == IF Filters(r) THEN ListParams(r, index) ELSE MassParams(r, index)

-----------------------------------------------------------------------------
\* DynamoDB.

\* An index holds the items that have its key, with the attributes it projects.
InIndex(item, index) ==
    index = Base \/ {KeySchema(index).pk, KeySchema(index).sk} \ {None} \subseteq DOMAIN item

Projected(index) ==
    KeyAttributes \cup {KeySchema(index).pk, KeySchema(index).sk} \cup Indices[index].attributes

IndexRow(item, index) ==
    IF index = Base THEN item ELSE Restrict(item, DOMAIN item \cap Projected(index))

Valid(p) ==
    LET schema == KeySchema(p.index)
        on(a) == {i \in DOMAIN p.key : p.key[i].attrs = {a}}
    IN
    /\ p.consistent => p.index = Base \/ Indices[p.index].type = "lsi"
    /\ DOMAIN p.key # {} =>
        /\ \E i \in on(schema.pk) : p.key[i].op = "eq" /\ on(schema.pk) = {i}
        /\ Cardinality(on(schema.sk)) <= 1 /\ DOMAIN p.key = on(schema.pk) \cup on(schema.sk)
        /\ \A c \in p.filter : c.attrs \cap {schema.pk, schema.sk} = {}

Meeting(row, p) ==
    (\A i \in DOMAIN p.key : Meets(row, p.key[i])) /\ \A c \in p.filter : Meets(row, c)

Selection(p) ==
    {Project(row, p.fields) : row \in
        {row \in {IndexRow(item, p.index) : item \in {item \in table : InIndex(item, p.index)}} :
            Meeting(row, p)}}

-----------------------------------------------------------------------------
NoParams == [index |-> Base, consistent |-> FALSE, key |-> <<>>, filter |-> {}, fields |-> AllFields]

ListInit ==
    /\ options \in Requests
    /\ params = NoParams
    /\ table = Table
    /\ stage = "asked" /\ outcome = "none"
    /\ rows = {} /\ interfered = FALSE

\* Errors of the toolkit; only a list read looks at filters and consistency.
Refused(r) ==
    \/ Targets(r) = {}
    \/ Filters(r) /\ ~Allowed(r.clauses)
    \/ Filters(r) /\ r.consistent /\ \E i \in Targets(r) : i # Base /\ Indices[i].type = "gsi"

Refuse ==
    /\ stage = "asked" /\ Refused(options)
    /\ stage' = "done" /\ outcome' = "refused"
    /\ UNCHANGED <<options, params, table, rows, interfered>>

Build ==
    /\ stage = "asked" /\ ~Refused(options)
    /\ \E index \in Targets(options) : params' = Params(options, index)
    /\ stage' = "sent"
    /\ UNCHANGED <<options, table, outcome, rows, interfered>>

Reject ==
    /\ stage = "sent" /\ ~Valid(params)
    /\ stage' = "done" /\ outcome' = "rejected"
    /\ UNCHANGED <<options, params, table, rows, interfered>>

Read ==
    /\ stage = "sent" /\ Valid(params)
    /\ rows' = Selection(params)
    /\ IF ~Filters(options) THEN stage' = "write" /\ UNCHANGED outcome
       ELSE IF Indirect(params.index) /\ rows' # {} THEN stage' = "hop" /\ UNCHANGED outcome
       ELSE stage' = "done" /\ outcome' = "listed"
    /\ UNCHANGED <<options, params, table, interfered>>

\* Mutation: the rows of the index that have no item any more stay in the list.
HopWithHoles ==
    /\ stage = "hop"
    /\ LET found == {Project(item, options.fields) : item \in
                        {item \in table : \E row \in rows : KeyOf(item) = KeyOf(row)}}
       IN rows' = found \cup {row \in rows : \A item \in table : KeyOf(item) # KeyOf(row)}
    /\ stage' = "done" /\ outcome' = "listed"
    /\ UNCHANGED <<options, params, table, interfered>>

\* The second hop: the items of the keys, without those that are gone.
Hop ==
    /\ stage = "hop"
    /\ rows' = {Project(item, options.fields) : item \in
                    {item \in table : \E row \in rows : KeyOf(item) = KeyOf(row)}}
    /\ stage' = "done" /\ outcome' = "listed"
    /\ UNCHANGED <<options, params, table, interfered>>

\* What mapFn makes of a row: the same under another key.
CopyOf(row) == [row EXCEPT ![PartitionKey] = -row[PartitionKey]]

Removed(items) == {item \in items : \E row \in rows : KeyOf(item) = KeyOf(row)}

Write ==
    /\ stage = "write"
    /\ table' = CASE options.op = "delete" -> table \ Removed(table)
                  [] options.op = "clone" -> table \cup {CopyOf(row) : row \in rows}
                  [] options.op = "move" -> (table \ Removed(table)) \cup {CopyOf(row) : row \in rows}
    /\ stage' = "done" /\ outcome' = "written"
    /\ UNCHANGED <<options, params, rows, interfered>>

\* Another client deletes an item, but never the descriptor.
OtherDeletes ==
    /\ stage \in {"sent", "hop"} /\ ~interfered
    /\ \E item \in table : ~IsDescriptor(item) /\ table' = table \ {item}
    /\ interfered' = TRUE
    /\ UNCHANGED <<options, params, stage, outcome, rows>>

Done == stage = "done" /\ UNCHANGED listVars

ListNext == Refuse \/ Build \/ Reject \/ Read \/ Hop \/ Write \/ OtherDeletes \/ Done

ListSpec == ListInit /\ [][ListNext]_listVars

-----------------------------------------------------------------------------
\* What the caller meant, without regard to how it is put into expressions.

Conditions(r) ==
    {r.example[i] : i \in DOMAIN r.example} \cup {r.clauses[i] : i \in DOMAIN r.clauses}

Wanted(r, index, item) ==
    /\ InIndex(item, index)
    /\ \A c \in Conditions(r) : Meets(item, c)
    /\ r.search # {} =>
        \E f \in DOMAIN Mirror : (r.fields = AllFields \/ f \in r.fields) /\ Value(item, Mirror[f]) \in r.search
    /\ r.asOf # {} => Value(item, CreatedAt) \in r.asOf
    /\ r.descriptor \/ ~IsDescriptor(item)

-----------------------------------------------------------------------------
\* What requests keep to.

ASSUME TableAssumption ==
    /\ Values \subseteq Nat \ {0}
    /\ \A item \in Table : KeyAttributes \subseteq DOMAIN item /\ item[PartitionKey] \in Values
    /\ \A a, b \in Table : KeyOf(a) = KeyOf(b) => a = b

\* An example names the partition of the index that is read; a clause is on a field.
ASSUME RequestAssumption ==
    \A r \in Requests :
        /\ r.op \in {"getList", "delete", "clone", "move"}
        /\ DOMAIN r.example \subseteq {0}
        /\ Len(r.clauses) \in Nat /\ DOMAIN r.clauses = 1..Len(r.clauses)
        /\ \A i \in DOMAIN r.example, index \in Targets(r) :
               r.example[i].op = "eq" /\ r.example[i].attrs = {KeySchema(index).pk}
        /\ \A i \in DOMAIN r.clauses : \E f \in r.clauses[i].attrs : r.clauses[i].attrs = {f}

Searched(r) == {f \in DOMAIN Mirror : r.fields = AllFields \/ f \in r.fields}

\* What filters and searches look at is in the index: of an attribute that an index
\* leaves out DynamoDB sees none.
FiltersProjected ==
    \A r \in Requests : \A index \in Targets(r) \ {Base} :
        /\ \A c \in Conditions(r) : c.attrs \subseteq Projected(index)
        /\ r.search # {} => \A f \in Searched(r) : Mirror[f] \in Projected(index)
        /\ r.asOf # {} => CreatedAt \in Projected(index)

\* `fields` leaves a searchable field to search in.
SearchesSomething == \A r \in Requests : r.search # {} => Searched(r) # {}

\* Who names a partition of an index names the descriptor's only to see it.
DescriptorUnnamed ==
    \A r \in Requests : \A index \in Targets(r), c \in Conditions(r), item \in Table :
        /\ ~r.descriptor /\ c.op = "eq" /\ c.attrs = {KeySchema(index).pk}
        /\ IsDescriptor(item) /\ InIndex(item, index)
        => ~Meets(item, c)

\* The mass operations have nothing to filter by.
MassUnfiltered ==
    \A r \in Requests : ~Filters(r) => DOMAIN r.clauses = {} /\ r.search = {}

\* No index is keyed by a mirror, and none by the age that is asked for.
KeysUnsearched ==
    \A r \in Requests : \A index \in Targets(r) :
        LET keys == {KeySchema(index).pk, KeySchema(index).sk}
        IN  /\ r.search # {} => \A f \in DOMAIN Mirror : Mirror[f] \notin keys
            /\ r.asOf # {} => CreatedAt \notin keys

-----------------------------------------------------------------------------
\* A list read through any index is what was asked for, nothing more and nothing
\* less, however its conditions are spread over the key condition and the filter.
ListIsSelection ==
    outcome = "listed" /\ ~Indirect(params.index) =>
        rows = {Project(IndexRow(item, params.index), options.fields) :
                    item \in {item \in table : Wanted(options, params.index, item)}}

\* The second hop adds nothing that was not asked for, gives whole items, and
\* leaves out what is gone.
HopIsSound ==
    outcome = "listed" /\ Indirect(params.index) =>
        rows \subseteq {Project(item, options.fields) :
                    item \in {item \in table : Wanted(options, params.index, item)}}

\* A mass deletion takes what was asked for, a clone copies it and a move does both,
\* and everything else stays: the descriptor too, unless it was asked for.
WritesWanted ==
    outcome = "written" /\ ~interfered =>
        \A item \in Table :
            LET wanted == Wanted(options, params.index, item)
            IN  /\ options.op \in {"delete", "move"} /\ wanted <=> item \notin table
                /\ options.op \in {"clone", "move"} /\ wanted <=>
                       \E copy \in table : KeyOf(copy) = KeyOf(CopyOf(item))

\* A request is accepted when every key attribute is filtered once at most, by an
\* operator that a key condition has, and the partition key is known if the sort key is.
PlainIsAccepted ==
    LET schema == KeySchema(params.index)
        on(a) == {i \in DOMAIN options.clauses : options.clauses[i].attrs = {a}}
        byExample(a) == \E i \in DOMAIN options.example : options.example[i].attrs = {a}
        once(a) == Cardinality(on(a)) <= (IF byExample(a) THEN 0 ELSE 1)
    IN outcome = "rejected" /\ ~options.consistent =>
        \/ ~once(schema.pk) \/ ~once(schema.sk)
        \/ \E i \in on(schema.pk) : options.clauses[i].op # "eq"
        \/ \E i \in on(schema.sk) : options.clauses[i].op \notin RangeOps
        \/ on(schema.sk) # {} /\ on(schema.pk) = {} /\ ~byExample(schema.pk)
=============================================================================
