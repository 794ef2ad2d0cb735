----------------------------- MODULE StoredShape -----------------------------
(***************************************************************************)
(* What the Adapter's built-in hooks make of an item on its way into the   *)
(* table and back: the structural key of a composite keyFields, the search *)
(* mirrors and the type label are computed by prepare, taken off by revive *)
(* and compared by edit.  An item is a function from fields to values with *)
(* None for the fields it does not have.  One client reads and writes back *)
(* (put, edit, clone, move); others write in single requests in between.   *)
(* No version field, no type discriminator, and the default user hooks.    *)
(***************************************************************************)
EXTENDS Integers, Sequences, FiniteSets

CONSTANTS
    KeyFields,      \* keyFields: a sequence of names
    Plain,          \* names of the other fields of callers
    Searchable,     \* those with a mirror
    MirrorOf,       \* the name of the mirror of a searchable field
    Sk, TypeField,  \* structuralKey.name and typeField
    ValuesOf,       \* what may be in a field of callers
    Lower,          \* String(v).toLowerCase()
    Projections,    \* readFields of edits; Fields when there are none
    PatchDeletes,   \* what patches delete
    Stripped,       \* managed fields that begin with technicalPrefix
    None

KeyNames == {KeyFields[i] : i \in 1..Len(KeyFields)}
Names == KeyNames \cup Plain
Mirrors == {MirrorOf[s] : s \in Searchable}
Managed == {Sk, TypeField} \cup Mirrors
Fields == Names \cup Managed

Keys ==
    UNION {{k \in [1..n -> UNION {ValuesOf[f] : f \in KeyNames}] :
                \A i \in 1..n : k[i] \in ValuesOf[KeyFields[i]]} : n \in 1..Len(KeyFields)}

ASSUME ShapeAssumption ==
    /\ KeyFields \in Seq(KeyNames) /\ Len(KeyFields) > 0
    /\ Plain \cap KeyNames = {} /\ Searchable \subseteq Plain
    /\ Names \cap Managed = {} /\ Sk # TypeField /\ {Sk, TypeField} \cap Mirrors = {}
    /\ \A s, t \in Searchable : MirrorOf[s] = MirrorOf[t] => s = t
    /\ None \notin Keys /\ \A f \in Names : None \notin ValuesOf[f]
    /\ \A s \in Searchable : \A v \in ValuesOf[s] : Lower[v] # None
    /\ \A P \in Projections : P \subseteq Fields
    /\ PatchDeletes \subseteq Plain
    /\ Stripped \in {{}, Managed, Managed \ {TypeField}}

VARIABLES
    table,      \* structural key -> the record there, or None
    held        \* what the client has read: None or [op, key, from, raw]

vars == <<table, held>>

NoItem == [f \in Fields |-> None]

-----------------------------------------------------------------------------
\* Key fields that are there without a gap, from the first one on.
Depth(item) ==
    Cardinality({d \in 1..Len(KeyFields) : \A i \in 1..d : item[KeyFields[i]] # None})

StructuralKey(item) == [i \in 1..Depth(item) |-> item[KeyFields[i]]]

\* typeOf; the depths stand for the labels of typeLabels, one by one.
TypeOf(item) == IF Depth(item) = 0 THEN None ELSE Depth(item)

\* An item with a field that begins with the prefix is rejected.
Refuses(item) == \E f \in Stripped : item[f] # None

MirrorFor(item, s) == IF item[s] # None THEN Lower[item[s]] ELSE item[MirrorOf[s]]

\* _builtInPrepare
Prepare(item, isPatch) ==
    [f \in Fields |->
        IF f = Sk /\ ~isPatch /\ Depth(item) > 0 THEN StructuralKey(item)
        ELSE IF f \in Mirrors THEN MirrorFor(item, CHOOSE s \in Searchable : MirrorOf[s] = f)
        ELSE IF f = TypeField /\ ~isPatch /\ item[f] = None THEN TypeOf(item)
        ELSE item[f]]

\* Mutation: the mirrors come through.
ReviveMirrors(raw) ==
    [f \in Fields |-> IF f \in Stripped \ Mirrors THEN None ELSE raw[f]]

\* _builtInRevive
Revive(raw) ==
    [f \in Fields |-> IF f \in Stripped THEN None ELSE raw[f]]

Project(raw, fields) == [f \in Fields |-> IF f \in fields THEN raw[f] ELSE None]

-----------------------------------------------------------------------------
\* Items of callers: plain objects with a partition key.
Items ==
    {[f \in Fields |-> IF f \in Names THEN named[f] ELSE None] :
        named \in {n \in [Names -> (UNION {ValuesOf[f] : f \in Names}) \cup {None}] :
                    /\ n[KeyFields[1]] # None
                    /\ \A f \in Names : n[f] \in ValuesOf[f] \cup {None}}}

Init ==
    /\ table = [k \in Keys |-> None]
    /\ held = None

Exists(key) == table[key] # None

Store(record) == table' = [table EXCEPT ![record[Sk]] = record]

\* makePost: only where nothing is.
Posts(item) == ~Refuses(item) /\ ~Exists(StructuralKey(item))

\* makePut: only over something, unless forced.
Puts(item, force) == ~Refuses(item) /\ (force \/ Exists(StructuralKey(item)))

Post ==
    /\ \E item \in Items : Posts(item) /\ Store(Prepare(item, FALSE))
    /\ UNCHANGED held

Put ==
    /\ \E item \in Items, force \in BOOLEAN :
        Puts(item, force) /\ Store(Prepare(item, FALSE))
    /\ UNCHANGED held

\* buildUpdate: SET and REMOVE on the record as it is now.
Updated(record, set, removes) ==
    [f \in Fields |->
        IF f \in removes THEN None ELSE IF set[f] # None THEN set[f] ELSE record[f]]

\* Mutation: the key fields stay in the payload.
PayloadWhole(patch) == Prepare(patch, TRUE)

\* makePatch takes them off.
Payload(patch) ==
    [f \in Fields |-> IF f \in KeyNames THEN None ELSE Prepare(patch, TRUE)[f]]

\* A patch sets one field or deletes one.
Patch ==
    /\ \E key \in Keys :
        /\ Exists(key)
        /\ \/ \E f \in Names : \E v \in ValuesOf[f] :
                table' = [table EXCEPT ![key] =
                            Updated(@, Payload([NoItem EXCEPT ![f] = v]), {})]
           \/ \E f \in PatchDeletes :
                table' = [table EXCEPT ![key] = Updated(@, NoItem, {f})]
    /\ UNCHANGED held

Delete ==
    /\ \E key \in Keys : table' = [table EXCEPT ![key] = None]
    /\ UNCHANGED held

-----------------------------------------------------------------------------
\* The reading client.

\* getByKey, by the client or within clone, move and edit; edit may read less.
Read ==
    /\ held = None
    /\ \E key \in Keys, fields \in Projections \cup {Fields} :
        /\ Exists(key)
        /\ held' = [op |-> "read", key |-> key, from |-> fields,
                    raw |-> Project(table[key], fields)]
    /\ UNCHANGED table

HasRead == held # None /\ held.op = "read"
HasItem == HasRead /\ held.from = Fields

\* What mapFn may come to: it changes a field, or takes it off.
Mapped(item) ==
    {item} \cup (UNION {{[item EXCEPT ![f] = v] : v \in ValuesOf[f] \cup {None}} : f \in Names})

\* It leaves the item a partition key.
Targets(item) == {m \in Mapped(item) : m[KeyFields[1]] # None}

Done == held' = None

\* The item that was read goes back by put.
PutBack ==
    /\ HasItem
    /\ \E item \in Targets(Revive(held.raw)), force \in BOOLEAN :
        IF Puts(item, force) THEN Store(Prepare(item, FALSE)) ELSE UNCHANGED table
    /\ Done

\* Where a clone and a move may write: post, or put by force.
Writes(item, force) == IF force THEN Puts(item, TRUE) ELSE Posts(item)

Clone ==
    /\ HasItem
    /\ \E item \in Targets(Revive(held.raw)), force \in BOOLEAN :
        IF Writes(item, force) THEN Store(Prepare(item, FALSE)) ELSE UNCHANGED table
    /\ Done

\* One transaction; DynamoDB rejects one that names a key twice.
MoveOf(item, force) ==
    IF Writes(item, force) /\ StructuralKey(item) # held.key
    THEN table' = [table EXCEPT ![StructuralKey(item)] = Prepare(item, FALSE), ![held.key] = None]
    ELSE UNCHANGED table

Move ==
    /\ HasItem
    /\ \E item \in Targets(Revive(held.raw)), force \in BOOLEAN : MoveOf(item, force)
    /\ Done

-----------------------------------------------------------------------------
\* _diffForUpdate

Sets(raw, prepared) ==
    [f \in Fields |-> IF prepared[f] # raw[f] THEN prepared[f] ELSE None]

\* Mutation: managed fields are never removed.
RemovesPlain(raw, prepared) == {f \in Names : prepared[f] = None /\ raw[f] # None}

Removes(raw, prepared) == {f \in Fields : prepared[f] = None /\ raw[f] # None}

KeyChanged(raw, prepared) ==
    \E f \in KeyNames : Sets(raw, prepared)[f] # None \/ f \in Removes(raw, prepared)

\* The update of an edit, if DynamoDB takes it: the sort key is not to be touched.
Edit ==
    /\ HasRead
    /\ \E item \in Mapped(Revive(held.raw)) :
        /\ ~Refuses(item)
        /\ LET prepared == Prepare(item, FALSE)
           IN  /\ ~KeyChanged(held.raw, prepared)
               /\ IF Exists(held.key) /\ prepared[Sk] = held.raw[Sk]
                  THEN table' = [table EXCEPT ![held.key] =
                            Updated(@, Sets(held.raw, prepared), Removes(held.raw, prepared))]
                  ELSE UNCHANGED table
    /\ Done

\* With allowKeyChange it turns into a move of what mapFn returned, which reads
\* the item again only to see that it is there.
EditMoves ==
    /\ HasRead
    /\ Exists(held.key)
    /\ \E item \in Targets(Revive(held.raw)) :
        /\ ~Refuses(item)
        /\ KeyChanged(held.raw, Prepare(item, FALSE))
        /\ held' = [op |-> "moving", key |-> held.key, from |-> held.from, raw |-> item]
    /\ UNCHANGED table

EditMoved ==
    /\ held # None /\ held.op = "moving"
    /\ \E force \in BOOLEAN : MoveOf(held.raw, force)
    /\ Done

Next ==
    \/ Post \/ Put \/ Patch \/ Delete
    \/ Read \/ PutBack \/ Clone \/ Move \/ Edit \/ EditMoves \/ EditMoved

Spec == Init /\ [][Next]_vars

\* Every managed field begins with the prefix; of typeField the constructor does
\* not demand it.
Technical == Stripped = Managed

\* Calls that keep mirrors whole: no patch deletes a searchable field, edits read
\* it with its mirror and leave the label to full reads, and values differ by more
\* than their case.
MirrorsKept ==
    /\ PatchDeletes \cap Searchable = {}
    /\ \A P \in Projections :
        TypeField \notin P /\ \A s \in Searchable : s \in P <=> MirrorOf[s] \in P
    /\ \A s \in Searchable : \A v, w \in ValuesOf[s] : Lower[v] = Lower[w] => v = w

-----------------------------------------------------------------------------
Domain(f) ==
    IF f \in Names THEN ValuesOf[f]
    ELSE IF f = Sk THEN Keys
    ELSE IF f = TypeField THEN 1..Len(KeyFields)
    ELSE UNION {{Lower[v] : v \in ValuesOf[s]} : s \in {t \in Searchable : MirrorOf[t] = f}}

Record(r) == DOMAIN r = Fields /\ \A f \in Fields : r[f] \in Domain(f) \cup {None}

TypeOK ==
    /\ DOMAIN table = Keys /\ \A key \in Keys : Exists(key) => Record(table[key])
    /\ held # None =>
        /\ held.op \in {"read", "moving"}
        /\ held.key \in Keys /\ held.from \subseteq Fields
        /\ Record(held.raw)

\* The record at a key is the one its own key fields name, whatever was patched,
\* edited, moved or written back: no record is ever out of reach of its key, as long
\* as patches delete no key field (PatchDeletes), which the code lets through
\* (adapter.js:1302).
KeyMatches ==
    \A key \in Keys :
        Exists(key) => StructuralKey(table[key]) = key /\ table[key][Sk] = key

\* What a client reads it may write back, and that changes nothing: the record is
\* as prepare would make it anew.  A search finds what is in a searchable field
\* and nothing that was there before, after patches, edits of parts and edits of
\* stale copies too.  With MirrorsKept.
RoundTrips ==
    Technical => \A key \in Keys :
        Exists(key) =>
            LET item == Revive(table[key])
            IN  ~Refuses(item) /\ Prepare(item, FALSE) = table[key]

\* An edit is a cheaper put: on a record nobody else has touched it leaves what a
\* put of the edited item would have left, the fields that are gone included; on one
\* that others have changed since, it leaves alone what they wrote to the fields the
\* caller did not change (adapter.js:1407-1455).
EditIsExact ==
    [][HasRead /\ table' # table /\ held' = None /\ Edit =>
        /\ HasItem /\ table[held.key] = held.raw =>
               \E item \in Mapped(Revive(held.raw)) :
                   table'[held.key] = Prepare(item, FALSE)
        /\ Cardinality({f \in Names : table'[held.key][f] # table[held.key][f]}) <= 1]_vars
=============================================================================
