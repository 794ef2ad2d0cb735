-------------------------- MODULE StoredShapeProofs --------------------------
(***************************************************************************)
(* Proofs about StoredShape, for every hierarchy, with and without a       *)
(* technical prefix: TypeOK, KeyMatches and EditIsExact; RoundTrips with a *)
(* technical prefix, for callers who keep mirrors whole.                   *)
(***************************************************************************)
EXTENDS StoredShape, FiniteSetTheorems, TLAPS

\* The depth of an item is that of a tier, and not none if it has a partition key.
LEMMA DepthIsTier ==
    ASSUME NEW item
    PROVE  /\ Depth(item) \in 0..Len(KeyFields)
           /\ item[KeyFields[1]] # None => Depth(item) > 0
<1> DEFINE D == {d \in 1..Len(KeyFields) : \A i \in 1..d : item[KeyFields[i]] # None}
<1>1. Len(KeyFields) \in Nat /\ Len(KeyFields) > 0
    BY ShapeAssumption
<1>2. IsFiniteSet(1..Len(KeyFields)) /\ Cardinality(1..Len(KeyFields)) = Len(KeyFields)
    BY <1>1, FS_Interval
<1>3. IsFiniteSet(D) /\ Cardinality(D) <= Len(KeyFields)
    BY <1>2, FS_Subset
<1>4. Cardinality(D) \in Nat
    BY <1>3, FS_CardinalityType
<1>5. ASSUME item[KeyFields[1]] # None
      PROVE  Cardinality(D) > 0
    <2>1. 1 \in D
        BY <1>1, <1>5
    <2>2. Cardinality(D) # 0
        BY <2>1, <1>3, FS_EmptySet
    <2> HIDE DEF D
    <2> QED BY <2>2, <1>4
<1> QED BY <1>1, <1>3, <1>4, <1>5 DEF Depth

\* Depth and structural key depend on the key fields only.
LEMMA SameKeyFields ==
    ASSUME NEW a, NEW b, \A f \in KeyNames : a[f] = b[f]
    PROVE  Depth(a) = Depth(b) /\ StructuralKey(a) = StructuralKey(b)
<1>1. \A i \in 1..Len(KeyFields) : a[KeyFields[i]] = b[KeyFields[i]]
    BY DEF KeyNames
<1>2. Len(KeyFields) \in Nat
    BY ShapeAssumption
<1>3. {d \in 1..Len(KeyFields) : \A i \in 1..d : a[KeyFields[i]] # None}
        = {d \in 1..Len(KeyFields) : \A i \in 1..d : b[KeyFields[i]] # None}
    BY <1>1, <1>2
<1>4. Depth(a) = Depth(b)
    BY <1>3 DEF Depth
<1>5. \A i \in 1..Depth(a) : a[KeyFields[i]] = b[KeyFields[i]]
    BY <1>1, <1>2, DepthIsTier
<1> QED BY <1>4, <1>5 DEF StructuralKey

\* What prepare leaves alone, and the structural key it writes.
LEMMA PrepareKeys ==
    ASSUME NEW item
    PROVE  /\ \A f \in Names, isPatch \in BOOLEAN : Prepare(item, isPatch)[f] = item[f]
           /\ Prepare(item, TRUE)[Sk] = item[Sk]
           /\ Depth(item) > 0 => Prepare(item, FALSE)[Sk] = StructuralKey(item)
           /\ StructuralKey(Prepare(item, FALSE)) = StructuralKey(item)
           /\ Depth(Prepare(item, FALSE)) = Depth(item)
<1>1. Names \cap Managed = {} /\ Sk # TypeField /\ Sk \notin Mirrors
    BY ShapeAssumption
<1>2. \A f \in Names, isPatch \in BOOLEAN : Prepare(item, isPatch)[f] = item[f]
    BY <1>1 DEF Prepare, Fields, Managed
<1>3. /\ Prepare(item, TRUE)[Sk] = item[Sk]
      /\ Depth(item) > 0 => Prepare(item, FALSE)[Sk] = StructuralKey(item)
    BY <1>1 DEF Prepare, Fields, Managed
<1>4. \A f \in KeyNames : Prepare(item, FALSE)[f] = item[f]
    BY <1>2 DEF Names
<1> QED BY <1>2, <1>3, <1>4, SameKeyFields

LEMMA ItemsHavePartition ==
    ASSUME NEW item \in Items
    PROVE  item[KeyFields[1]] # None
<1>1. KeyFields[1] \in KeyNames
    BY ShapeAssumption DEF KeyNames
<1>2. PICK named : named[KeyFields[1]] # None
                    /\ item = [f \in Fields |-> IF f \in Names THEN named[f] ELSE None]
    BY DEF Items
<1> QED BY <1>1, <1>2 DEF Fields, Names

-----------------------------------------------------------------------------
\* The table is a function on the keys, and KeyMatches.
KeyInv == table = [k \in Keys |-> table[k]] /\ KeyMatches

KeyHolds(record, key) == StructuralKey(record) = key /\ record[Sk] = key

\* An item with a partition key is stored where its key fields say.
LEMMA StoreKeepsKeys ==
    ASSUME KeyInv, NEW item, item[KeyFields[1]] # None, Store(Prepare(item, FALSE))
    PROVE  KeyInv'
<1> DEFINE record == Prepare(item, FALSE)
<1>1. KeyHolds(record, record[Sk])
    BY DepthIsTier, PrepareKeys DEF KeyHolds
<1>2. table' = [table EXCEPT ![record[Sk]] = record]
    BY DEF Store
<1> HIDE DEF record
<1> QED BY <1>1, <1>2 DEF KeyInv, KeyMatches, KeyHolds, Exists

\* So is one that is moved.
LEMMA MoveKeepsKeys ==
    ASSUME KeyInv, NEW item, item[KeyFields[1]] # None, NEW force \in BOOLEAN,
           MoveOf(item, force)
    PROVE  KeyInv'
<1> DEFINE record == Prepare(item, FALSE)
           key == StructuralKey(item)
<1>1. KeyHolds(record, key)
    BY DepthIsTier, PrepareKeys DEF KeyHolds
<1>2. CASE UNCHANGED table
    BY <1>2 DEF KeyInv, KeyMatches, Exists
<1>3. CASE table' = [table EXCEPT ![key] = record, ![held.key] = None]
    <2> HIDE DEF record, key
    <2> QED BY <1>1, <1>3 DEF KeyInv, KeyMatches, KeyHolds, Exists
<1> QED BY <1>2, <1>3 DEF MoveOf

\* An update that spares the key fields and the sort key spares the key.
LEMMA UpdateKeepsKeys ==
    ASSUME KeyInv, NEW key \in Keys, Exists(key), NEW set, NEW removes,
           \A f \in KeyNames \cup {Sk} : set[f] = None /\ f \notin removes,
           table' = [table EXCEPT ![key] = Updated(@, set, removes)]
    PROVE  KeyInv'
<1> DEFINE record == Updated(table[key], set, removes)
<1>1. \A f \in KeyNames \cup {Sk} : record[f] = table[key][f]
    BY DEF Updated, Fields, Names, Managed
<1>2. KeyHolds(record, key)
    BY <1>1, SameKeyFields DEF KeyHolds, KeyInv, KeyMatches
<1>3. table' = [table EXCEPT ![key] = record]
    OBVIOUS
<1> HIDE DEF record
<1> QED BY <1>2, <1>3 DEF KeyInv, KeyMatches, KeyHolds, Exists

LEMMA StepKeepsKeys ==
    ASSUME KeyInv, held # None => held.key \in Keys, [Next]_vars,
           held # None /\ held.op = "moving" => held.raw[KeyFields[1]] # None
    PROVE  KeyInv'
<1>1. CASE Post
    <2>1. PICK item \in Items : Store(Prepare(item, FALSE))
        BY <1>1 DEF Post
    <2>2. item[KeyFields[1]] # None
        BY ItemsHavePartition
    <2> QED BY <2>1, <2>2, StoreKeepsKeys
<1>2. CASE Put
    <2>1. PICK item \in Items : Store(Prepare(item, FALSE))
        BY <1>2 DEF Put
    <2>2. item[KeyFields[1]] # None
        BY ItemsHavePartition
    <2> QED BY <2>1, <2>2, StoreKeepsKeys
<1>3. CASE Patch
    <2>1. Sk \notin Names /\ PatchDeletes \subseteq Plain /\ Plain \cap KeyNames = {}
        BY ShapeAssumption DEF Managed
    <2>2. PICK key \in Keys :
            /\ Exists(key)
            /\ \/ \E f \in Names : \E v \in ValuesOf[f] :
                    table' = [table EXCEPT ![key] =
                                Updated(@, Payload([NoItem EXCEPT ![f] = v]), {})]
               \/ \E f \in PatchDeletes :
                    table' = [table EXCEPT ![key] = Updated(@, NoItem, {f})]
        BY <1>3 DEF Patch
    <2>3. ASSUME NEW f \in Names, NEW v \in ValuesOf[f],
                 table' = [table EXCEPT ![key] =
                            Updated(@, Payload([NoItem EXCEPT ![f] = v]), {})]
          PROVE  KeyInv'
        <3> DEFINE patch == [NoItem EXCEPT ![f] = v]
        <3>1. Payload(patch)[Sk] = patch[Sk]
            <4>1. Payload(patch)[Sk] = Prepare(patch, TRUE)[Sk]
                BY <2>1 DEF Payload, Fields, Managed, Names
            <4> HIDE DEF patch
            <4> QED BY <4>1, PrepareKeys
        <3>2. patch[Sk] = None
            BY <2>1 DEF NoItem, Fields, Managed
        <3>3. \A n \in KeyNames : Payload(patch)[n] = None
            BY DEF Payload, Fields, Names
        <3> DEFINE set == Payload(patch)
                   removes == {}
        <3>4. \A n \in KeyNames \cup {Sk} : set[n] = None /\ n \notin removes
            BY <3>1, <3>2, <3>3
        <3>5. table' = [table EXCEPT ![key] = Updated(@, set, removes)]
            BY <2>3
        <3>6. Exists(key)
            BY <2>2
        <3> HIDE DEF set, patch, removes
        <3> QED BY <3>4, <3>5, <3>6, UpdateKeepsKeys
    <2>4. ASSUME NEW f \in PatchDeletes,
                 table' = [table EXCEPT ![key] = Updated(@, NoItem, {f})]
          PROVE  KeyInv'
        <3>1. \A n \in KeyNames \cup {Sk} : NoItem[n] = None /\ n \notin {f}
            BY <2>1 DEF NoItem, Fields, Managed, Names
        <3> QED BY <2>2, <2>4, <3>1, UpdateKeepsKeys
    <2> QED BY <2>2, <2>3, <2>4
<1>4. CASE Delete
    BY <1>4 DEF Delete, KeyInv, KeyMatches, Exists
<1>5. CASE PutBack \/ Clone
    <2>1. CASE UNCHANGED table
        BY <2>1 DEF KeyInv, KeyMatches, Exists
    <2>2. ASSUME NEW item \in Targets(Revive(held.raw)), Store(Prepare(item, FALSE))
          PROVE  KeyInv'
        BY <2>2, StoreKeepsKeys DEF Targets
    <2> QED BY <1>5, <2>1, <2>2 DEF PutBack, Clone
<1>6. CASE Move
    <2>1. PICK item \in Targets(Revive(held.raw)), force \in BOOLEAN : MoveOf(item, force)
        BY <1>6 DEF Move
    <2> QED BY <2>1, MoveKeepsKeys DEF Targets
<1>7. CASE EditMoved
    BY <1>7, MoveKeepsKeys DEF EditMoved
<1>8. CASE Edit
    <2>1. CASE UNCHANGED table
        BY <2>1 DEF KeyInv, KeyMatches, Exists
    <2>2. ASSUME NEW prepared,
                 ~KeyChanged(held.raw, prepared), Exists(held.key),
                 prepared[Sk] = held.raw[Sk],
                 table' = [table EXCEPT ![held.key] =
                    Updated(@, Sets(held.raw, prepared), Removes(held.raw, prepared))]
          PROVE  KeyInv'
        <3>1. held.key \in Keys
            BY <1>8 DEF Edit, HasRead
        <3>2. \A f \in KeyNames : Sets(held.raw, prepared)[f] = None /\ f \notin Removes(held.raw, prepared)
            BY <2>2 DEF KeyChanged
        <3>3. Sets(held.raw, prepared)[Sk] = None /\ Sk \notin Removes(held.raw, prepared)
            BY <2>2 DEF Sets, Removes, Fields, Managed
        <3>4. \A f \in KeyNames \cup {Sk} :
                Sets(held.raw, prepared)[f] = None /\ f \notin Removes(held.raw, prepared)
            BY <3>2, <3>3
        <3> QED BY <2>2, <3>1, <3>4, UpdateKeepsKeys
    <2> QED BY <1>8, <2>1, <2>2 DEF Edit
<1>9. CASE Read \/ EditMoves \/ UNCHANGED vars
    BY <1>9 DEF Read, EditMoves, vars, KeyInv, KeyMatches, Exists
<1> QED BY <1>1, <1>2, <1>3, <1>4, <1>5, <1>6, <1>7, <1>8, <1>9 DEF Next

\* What the client holds has a key of the table, and a partition key on its way.
HeldInv ==
    held # None =>
        held.key \in Keys /\ (held.op = "moving" => held.raw[KeyFields[1]] # None)

LEMMA StepKeepsHeld ==
    ASSUME HeldInv, [Next]_vars
    PROVE  HeldInv'
<1>1. CASE Read
    BY <1>1 DEF Read, HeldInv
<1>2. CASE EditMoves
    BY <1>2 DEF EditMoves, HeldInv, Targets, HasRead
<1>3. CASE held' = None \/ held' = held
    BY <1>3 DEF HeldInv
<1> QED BY <1>1, <1>2, <1>3
        DEF Next, vars, Post, Put, Patch, Delete, PutBack, Clone, Move, Edit, EditMoved, Done

\* Every record sits at the key its fields name: patches take the key fields off
\* their payload, an edit that changes one is a move, DynamoDB refuses to touch
\* the sort key, and full writes compute it anew.
THEOREM RecordsMatchKeys == Spec => []KeyMatches
<1>1. Init => KeyInv /\ HeldInv
    BY DEF Init, KeyInv, KeyMatches, HeldInv, Exists
<1>2. KeyInv /\ HeldInv /\ [Next]_vars => KeyInv' /\ HeldInv'
    BY StepKeepsKeys, StepKeepsHeld DEF HeldInv
<1>3. KeyInv => KeyMatches
    BY DEF KeyInv
<1> QED BY <1>1, <1>2, <1>3, PTL DEF Spec

-----------------------------------------------------------------------------
\* Names hold what they may hold.
Typed(item) == \A f \in Names : item[f] \in ValuesOf[f] \cup {None}

\* The mirror of a searchable field, with an empty one for an empty field.
Mirrored(record, s) ==
    record[MirrorOf[s]] = IF record[s] = None THEN None ELSE Lower[record[s]]

Whole(record) ==
    /\ record = [f \in Fields |-> record[f]]
    /\ Typed(record)
    /\ \A s \in Searchable : Mirrored(record, s)
    /\ record[TypeField] = TypeOf(record)

\* The structural key of an item with a partition key is a key, and has its depth.
LEMMA KeyOfItem ==
    ASSUME NEW item, Typed(item), item[KeyFields[1]] # None
    PROVE  StructuralKey(item) \in Keys
<1>1. Depth(item) \in 1..Len(KeyFields)
    BY DepthIsTier, ShapeAssumption
<1> DEFINE D == {d \in 1..Len(KeyFields) : \A i \in 1..d : item[KeyFields[i]] # None}
<1>2. \A i \in 1..Depth(item) : item[KeyFields[i]] # None
    <2>1. SUFFICES ASSUME NEW i \in 1..Depth(item), item[KeyFields[i]] = None
                   PROVE  FALSE
        OBVIOUS
    <2>2. Len(KeyFields) \in Nat
        BY ShapeAssumption
    <2>3. PICK n \in Nat : n = i - 1
        BY <1>1, <2>2
    <2>4. D \subseteq 1..n
        BY <1>1, <2>1, <2>2, <2>3
    <2>5. IsFiniteSet(1..n) /\ Cardinality(1..n) = n
        BY FS_Interval
    <2>6. Cardinality(D) <= n
        BY <2>4, <2>5, FS_Subset
    <2> QED BY <2>3, <2>6, <1>1, <2>2 DEF Depth
<1>3. \A i \in 1..Depth(item) : KeyFields[i] \in KeyNames
    BY <1>1, ShapeAssumption DEF KeyNames
<1>4. \A i \in 1..Depth(item) : item[KeyFields[i]] \in ValuesOf[KeyFields[i]]
    BY <1>2, <1>3 DEF Typed, Names
<1>5. StructuralKey(item) \in [1..Depth(item) -> UNION {ValuesOf[f] : f \in KeyNames}]
    BY <1>3, <1>4 DEF StructuralKey
<1> QED BY <1>1, <1>4, <1>5 DEF Keys, StructuralKey

LEMMA DeepHasPartition ==
    ASSUME NEW item, Depth(item) > 0
    PROVE  item[KeyFields[1]] # None
<1> DEFINE D == {d \in 1..Len(KeyFields) : \A i \in 1..d : item[KeyFields[i]] # None}
<1>1. Cardinality(D) > 0
    BY DEF Depth
<1>2. D # {}
    <2> HIDE DEF D
    <2> QED BY <1>1, FS_EmptySet
<1>3. PICK d \in 1..Len(KeyFields) : \A i \in 1..d : item[KeyFields[i]] # None
    BY <1>2
<1>4. 1 \in 1..d
    BY <1>3, ShapeAssumption
<1> QED BY <1>3, <1>4

LEMMA DepthOfKey ==
    ASSUME NEW a, NEW b, StructuralKey(a) = StructuralKey(b)
    PROVE  Depth(a) = Depth(b)
<1>1. Depth(a) \in Nat /\ Depth(b) \in Nat
    BY DepthIsTier, ShapeAssumption
<1>2. 1..Depth(a) = 1..Depth(b)
    BY DEF StructuralKey
<1> QED BY <1>1, <1>2

\* What the names of the fields rule out.
LEMMA Apart ==
    /\ \A f \in Names : f \in Fields /\ f \notin Managed
    /\ \A f \in Managed : f \in Fields /\ f \notin Names
    /\ Sk \in Managed /\ TypeField \in Managed /\ Sk # TypeField
    /\ KeyNames \subseteq Names /\ Searchable \subseteq Names
    /\ \A s \in Searchable :
        /\ s \notin KeyNames /\ MirrorOf[s] \in Mirrors /\ MirrorOf[s] \in Managed
        /\ MirrorOf[s] # Sk /\ MirrorOf[s] # TypeField
    /\ Sk \notin Mirrors /\ TypeField \notin Mirrors
    /\ KeyFields[1] \in KeyNames
<1>1. Names \cap Managed = {} /\ Sk # TypeField /\ {Sk, TypeField} \cap Mirrors = {}
    BY ShapeAssumption
<1>2. Searchable \subseteq Plain /\ Plain \cap KeyNames = {}
    BY ShapeAssumption
<1>3. \A s \in Searchable : MirrorOf[s] \in Mirrors
    BY DEF Mirrors
<1>4. KeyFields[1] \in KeyNames
    BY ShapeAssumption DEF KeyNames
<1>5. /\ Mirrors \subseteq Managed /\ Sk \in Managed /\ TypeField \in Managed
      /\ Managed \subseteq Fields /\ Names \subseteq Fields
      /\ KeyNames \subseteq Names /\ Plain \subseteq Names
    BY DEF Managed, Fields, Names
<1>6. Sk \notin Mirrors /\ TypeField \notin Mirrors
    BY <1>1
<1> QED BY <1>1, <1>2, <1>3, <1>4, <1>5, <1>6

\* The mirrors prepare writes.
LEMMA PrepareMirrors ==
    ASSUME NEW item, NEW isPatch \in BOOLEAN, NEW s \in Searchable
    PROVE  Prepare(item, isPatch)[MirrorOf[s]] =
                IF item[s] # None THEN Lower[item[s]] ELSE item[MirrorOf[s]]
<1>1. (CHOOSE t \in Searchable : MirrorOf[t] = MirrorOf[s]) = s
    BY ShapeAssumption
<1>2. MirrorOf[s] \in Mirrors /\ MirrorOf[s] \in Fields /\ MirrorOf[s] # Sk
    BY Apart
<1> QED BY <1>1, <1>2 DEF Prepare, MirrorFor

\* What prepare makes of an item without managed fields.
LEMMA PreparedIsWhole ==
    ASSUME NEW item, Typed(item), \A f \in Managed : item[f] = None
    PROVE  Whole(Prepare(item, FALSE))
<1> DEFINE record == Prepare(item, FALSE)
<1>1. \A f \in Names : record[f] = item[f]
    BY PrepareKeys
<1>2. \A s \in Searchable : Mirrored(record, s)
    <2>1. SUFFICES ASSUME NEW s \in Searchable PROVE Mirrored(record, s)
        OBVIOUS
    <2>2. item[MirrorOf[s]] = None /\ record[s] = item[s]
        BY <1>1, Apart
    <2>3. record[MirrorOf[s]] = IF item[s] # None THEN Lower[item[s]] ELSE item[MirrorOf[s]]
        BY PrepareMirrors
    <2> QED BY <2>2, <2>3 DEF Mirrored
<1>3. record[TypeField] = TypeOf(item)
    BY Apart DEF Prepare
<1>4. TypeOf(record) = TypeOf(item)
    BY PrepareKeys DEF TypeOf
<1>5. record = [f \in Fields |-> record[f]]
    BY DEF Prepare
<1> QED BY <1>1, <1>2, <1>3, <1>4, <1>5 DEF Whole, Typed

\* A whole record makes the round trip.
LEMMA WholeRoundTrips ==
    ASSUME Technical, NEW key \in Keys, NEW record, Whole(record), KeyHolds(record, key)
    PROVE  /\ ~Refuses(Revive(record))
           /\ Prepare(Revive(record), FALSE) = record
<1> SUFFICES ASSUME NEW item, item = Revive(record)
             PROVE  ~Refuses(item) /\ Prepare(item, FALSE) = record
    OBVIOUS
<1>1. \A f \in Names : item[f] = record[f]
    BY Apart DEF Revive, Technical
<1>2. \A f \in Managed : item[f] = None
    BY Apart DEF Revive, Technical
<1>3. Depth(item) = Depth(record) /\ StructuralKey(item) = StructuralKey(record)
    BY <1>1, Apart, SameKeyFields
<1>4. Depth(item) > 0
    <2>1. PICK n \in 1..Len(KeyFields) : DOMAIN key = 1..n
        BY DEF Keys
    <2>2. n \in Nat /\ n > 0 /\ Depth(record) \in Nat
        BY <2>1, ShapeAssumption, DepthIsTier
    <2>3. DOMAIN StructuralKey(record) = 1..Depth(record)
        BY DEF StructuralKey
    <2>4. 1..Depth(record) = 1..n
        BY <2>1, <2>3 DEF KeyHolds
    <2> QED BY <1>3, <2>2, <2>4
<1>5. Prepare(item, FALSE)[Sk] = record[Sk]
    BY <1>3, <1>4, PrepareKeys DEF KeyHolds
<1>6. \A f \in Names : Prepare(item, FALSE)[f] = record[f]
    BY <1>1, PrepareKeys
<1>7. \A s \in Searchable : Prepare(item, FALSE)[MirrorOf[s]] = record[MirrorOf[s]]
    <2>1. SUFFICES ASSUME NEW s \in Searchable
                   PROVE  Prepare(item, FALSE)[MirrorOf[s]] = record[MirrorOf[s]]
        OBVIOUS
    <2>2. item[s] = record[s] /\ item[MirrorOf[s]] = None
        BY <1>1, <1>2, Apart
    <2>3. Prepare(item, FALSE)[MirrorOf[s]] =
            IF item[s] # None THEN Lower[item[s]] ELSE item[MirrorOf[s]]
        BY PrepareMirrors
    <2>4. record[MirrorOf[s]] = IF record[s] = None THEN None ELSE Lower[record[s]]
        BY DEF Whole, Mirrored
    <2> QED BY <2>2, <2>3, <2>4
<1>8. Prepare(item, FALSE)[TypeField] = record[TypeField]
    <2>1. item[TypeField] = None
        BY <1>2, Apart
    <2>2. Prepare(item, FALSE)[TypeField] = TypeOf(item)
        BY <2>1, Apart DEF Prepare
    <2> QED BY <2>2, <1>3 DEF TypeOf, Whole
<1>9. \A f \in Fields : Prepare(item, FALSE)[f] = record[f]
    BY <1>5, <1>6, <1>7, <1>8 DEF Fields, Managed, Mirrors
<1>10. Prepare(item, FALSE) = [f \in Fields |-> Prepare(item, FALSE)[f]]
    BY DEF Prepare
<1>11. ~Refuses(item)
    BY <1>2 DEF Refuses, Technical
<1>12. Prepare(item, FALSE) = record
    BY <1>9, <1>10 DEF Whole
<1> QED BY <1>11, <1>12

-----------------------------------------------------------------------------
\* The strengthening: every record is whole, and so is what a client holds, as
\* far as it has read it; what it is about to move is an item of callers.
TableWhole == \A key \in Keys : Exists(key) => Whole(table[key])

HeldWhole ==
    held # None =>
        IF held.op = "read"
        THEN /\ Typed(held.raw)
             /\ \A s \in Searchable : Mirrored(held.raw, s)
             /\ held.raw[Sk] \in {None, held.key}
             /\ held.raw[TypeField] \in {None, TypeOf(held.raw)}
        ELSE Typed(held.raw) /\ \A f \in Managed : held.raw[f] = None

WholeInv == KeyInv /\ HeldInv /\ TableWhole /\ HeldWhole

\* What callers hand in.
Callers(item) == Typed(item) /\ \A f \in Managed : item[f] = None

LEMMA ItemsAreCallers ==
    ASSUME NEW item \in Items
    PROVE  Callers(item)
<1>1. PICK named :
        /\ item = [f \in Fields |-> IF f \in Names THEN named[f] ELSE None]
        /\ \A f \in Names : named[f] \in ValuesOf[f] \cup {None}
    BY DEF Items
<1> QED BY <1>1, Apart DEF Callers, Typed

\* What mapFn makes of what was read is an item of callers.
LEMMA MappedAreCallers ==
    ASSUME Technical, NEW raw, Typed(raw), NEW item \in Mapped(Revive(raw))
    PROVE  Callers(item)
<1> SUFFICES ASSUME NEW read, read = Revive(raw), item \in Mapped(read)
             PROVE  Callers(item)
    OBVIOUS
<1>1. \A f \in Names : read[f] \in ValuesOf[f] \cup {None}
    BY Apart DEF Revive, Typed, Technical
<1>2. \A f \in Managed : read[f] = None
    BY Apart DEF Revive, Technical
<1>3. CASE item = read
    BY <1>1, <1>2, <1>3 DEF Callers, Typed
<1>4. ASSUME NEW f \in Names, NEW v \in ValuesOf[f] \cup {None}, item = [read EXCEPT ![f] = v]
      PROVE  Callers(item)
    <2>1. DOMAIN read = Fields
        BY DEF Revive
    <2>2. \A g \in Fields : item[g] = IF g = f THEN v ELSE read[g]
        BY <1>4, <2>1
    <2> QED BY <1>1, <1>2, <2>2, Apart DEF Callers, Typed
<1> QED BY <1>3, <1>4 DEF Mapped

\* Full writes store whole records.
LEMMA StoreKeepsWhole ==
    ASSUME KeyInv, TableWhole, NEW item, Callers(item), Store(Prepare(item, FALSE))
    PROVE  TableWhole'
<1> SUFFICES ASSUME NEW record, record = Prepare(item, FALSE)
             PROVE  TableWhole'
    OBVIOUS
<1>1. Whole(record)
    BY PreparedIsWhole DEF Callers
<1>2. table' = [table EXCEPT ![record[Sk]] = record]
    BY DEF Store
<1> QED BY <1>1, <1>2 DEF TableWhole, KeyInv, Exists

LEMMA MoveKeepsWhole ==
    ASSUME KeyInv, TableWhole, NEW item, Callers(item), NEW force \in BOOLEAN,
           MoveOf(item, force)
    PROVE  TableWhole'
<1> SUFFICES ASSUME NEW record, record = Prepare(item, FALSE),
                    NEW key, key = StructuralKey(item)
             PROVE  TableWhole'
    OBVIOUS
<1>1. Whole(record)
    BY PreparedIsWhole DEF Callers
<1>2. CASE UNCHANGED table
    BY <1>2 DEF TableWhole, Exists
<1>3. CASE table' = [table EXCEPT ![key] = record, ![held.key] = None]
    BY <1>1, <1>3 DEF TableWhole, KeyInv, Exists
<1> QED BY <1>2, <1>3 DEF MoveOf

\* One record replaced by a whole one.
LEMMA RecordKeepsWhole ==
    ASSUME KeyInv, TableWhole, NEW key \in Keys, NEW record, Whole(record),
           table' = [table EXCEPT ![key] = record]
    PROVE  TableWhole'
BY DEF TableWhole, KeyInv, Exists

\* An update that spares the key fields and the label spares the depth, and one
\* that keeps the mirrors in step leaves the record whole.
LEMMA UpdateKeepsWhole ==
    ASSUME NEW old, Whole(old), NEW set, NEW removes,
           NEW record, record = Updated(old, set, removes),
           \A f \in KeyNames : set[f] = None /\ f \notin removes,
           \A f \in Names : set[f] \in ValuesOf[f] \cup {None},
           \A s \in Searchable : Mirrored(record, s),
           record[TypeField] = old[TypeField]
    PROVE  Whole(record)
<1>1. record = [f \in Fields |-> record[f]]
    BY DEF Updated
<1>2. \A f \in Fields :
        record[f] = IF f \in removes THEN None ELSE IF set[f] # None THEN set[f] ELSE old[f]
    BY DEF Updated
<1>3. \A f \in KeyNames : record[f] = old[f]
    BY <1>2, Apart
<1>4. TypeOf(record) = TypeOf(old)
    BY <1>3, SameKeyFields DEF TypeOf
<1>5. Typed(record)
    BY <1>2, Apart DEF Whole, Typed
<1> QED BY <1>1, <1>4, <1>5 DEF Whole

LEMMA PatchKeepsWhole ==
    ASSUME KeyInv, TableWhole, MirrorsKept, Patch
    PROVE  TableWhole'
<1>1. PICK key \in Keys :
        /\ Exists(key)
        /\ \/ \E f \in Names : \E v \in ValuesOf[f] :
                table' = [table EXCEPT ![key] =
                            Updated(@, Payload([NoItem EXCEPT ![f] = v]), {})]
           \/ \E f \in PatchDeletes :
                table' = [table EXCEPT ![key] = Updated(@, NoItem, {f})]
    BY DEF Patch
<1> SUFFICES ASSUME NEW old, old = table[key] PROVE TableWhole'
    OBVIOUS
<1>2. Whole(old)
    BY <1>1 DEF TableWhole
<1>3. \A g \in Fields : NoItem[g] = None
    BY DEF NoItem
<1>4. ASSUME NEW f \in Names, NEW v \in ValuesOf[f],
             NEW patch, patch = [NoItem EXCEPT ![f] = v],
             NEW set, set = Payload(patch),
             NEW record, record = Updated(old, set, {}),
             table' = [table EXCEPT ![key] = record]
      PROVE  TableWhole'
    <2>1. \A g \in Fields : patch[g] = IF g = f THEN v ELSE None
        BY <1>4, <1>3 DEF NoItem
    <2>2. \A g \in KeyNames : set[g] = None
        BY <1>4, Apart DEF Payload
    <2>3. \A g \in Fields : g \notin KeyNames => set[g] = Prepare(patch, TRUE)[g]
        BY <1>4 DEF Payload
    <2>4. \A g \in Names : g \notin KeyNames => set[g] = patch[g]
        BY <2>3, Apart, PrepareKeys
    <2>5. \A g \in Names : set[g] \in ValuesOf[g] \cup {None}
        BY <2>1, <2>2, <2>4, Apart
    <2>6. set[TypeField] = None
        <3>1. Prepare(patch, TRUE)[TypeField] = patch[TypeField]
            BY Apart DEF Prepare
        <3> QED BY <3>1, <2>1, <2>3, Apart
    <2>7. \A g \in Fields : record[g] = IF set[g] # None THEN set[g] ELSE old[g]
        BY <1>4 DEF Updated
    <2>8. ASSUME NEW s \in Searchable
          PROVE  Mirrored(record, s)
        <3>1. set[s] = patch[s]
            BY <2>4, Apart
        <3>2. patch[MirrorOf[s]] = None
            BY <2>1, Apart
        <3>3. Prepare(patch, TRUE)[MirrorOf[s]] =
                IF patch[s] # None THEN Lower[patch[s]] ELSE patch[MirrorOf[s]]
            BY PrepareMirrors
        <3>4. set[MirrorOf[s]] = IF patch[s] # None THEN Lower[patch[s]] ELSE None
            BY <2>3, <3>2, <3>3, Apart
        <3>5. patch[s] # None => Lower[patch[s]] # None
            BY <2>1, Apart, ShapeAssumption
        <3>6. old[MirrorOf[s]] = IF old[s] = None THEN None ELSE Lower[old[s]]
            BY <1>2 DEF Whole, Mirrored
        <3> QED BY <2>7, <3>1, <3>4, <3>5, <3>6, Apart DEF Mirrored
    <2>9. record[TypeField] = old[TypeField]
        BY <2>6, <2>7, Apart
    <2>10. Whole(record)
        <3>1. \A g \in KeyNames : set[g] = None /\ g \notin {}
            BY <2>2
        <3>2. record = Updated(old, set, {})
            BY <1>4
        <3> QED BY <1>2, <2>5, <2>8, <2>9, <3>1, <3>2, UpdateKeepsWhole
    <2> QED BY <1>4, <2>10, RecordKeepsWhole
<1>5. ASSUME NEW f \in PatchDeletes,
             NEW record, record = Updated(old, NoItem, {f}),
             table' = [table EXCEPT ![key] = record]
      PROVE  TableWhole'
    <2>1. f \in Names /\ f \notin KeyNames /\ f \notin Searchable
        BY ShapeAssumption DEF MirrorsKept, Names
    <2>2. \A g \in Fields : record[g] = IF g = f THEN None ELSE old[g]
        BY <1>3, <1>5 DEF Updated
    <2>3. \A s \in Searchable : Mirrored(record, s)
        <3>1. SUFFICES ASSUME NEW s \in Searchable PROVE Mirrored(record, s)
            OBVIOUS
        <3>2. record[s] = old[s] /\ record[MirrorOf[s]] = old[MirrorOf[s]]
            BY <2>1, <2>2, Apart
        <3> QED BY <3>2, <1>2 DEF Whole, Mirrored
    <2>4. record[TypeField] = old[TypeField]
        BY <2>1, <2>2, Apart
    <2>5. \A g \in Names : NoItem[g] \in ValuesOf[g] \cup {None}
        BY <1>3, Apart
    <2>6. \A g \in KeyNames : NoItem[g] = None /\ g \notin {f}
        BY <1>3, <2>1, Apart
    <2>7. Whole(record)
        BY <1>2, <1>5, <2>3, <2>4, <2>5, <2>6, UpdateKeepsWhole
    <2> QED BY <1>5, <2>7, RecordKeepsWhole
<1> QED BY <1>1, <1>4, <1>5

\* An edit that is taken leaves a whole record, however stale what it was made
\* from: it moves a field and its mirror together or leaves both, and one without
\* the whole of the key fields is refused before it could relabel the record.
LEMMA EditKeepsWhole ==
    ASSUME Technical, MirrorsKept, WholeInv, Edit
    PROVE  TableWhole'
<1>1. CASE UNCHANGED table
    BY <1>1 DEF WholeInv, TableWhole, Exists
<1>2. ASSUME NEW item \in Mapped(Revive(held.raw)),
             ~KeyChanged(held.raw, Prepare(item, FALSE)), Exists(held.key),
             Prepare(item, FALSE)[Sk] = held.raw[Sk],
             table' = [table EXCEPT ![held.key] =
                        Updated(@, Sets(held.raw, Prepare(item, FALSE)),
                                   Removes(held.raw, Prepare(item, FALSE)))]
      PROVE  TableWhole'
    <2>1. SUFFICES ASSUME NEW raw, raw = held.raw, NEW key, key = held.key,
                        NEW prepared, prepared = Prepare(item, FALSE),
                        NEW old, old = table[key],
                        NEW set, set = Sets(raw, prepared),
                        NEW removes, removes = Removes(raw, prepared),
                        NEW record, record = Updated(old, set, removes)
                 PROVE  TableWhole'
        OBVIOUS
    <2>2. item \in Mapped(Revive(raw)) /\ ~KeyChanged(raw, prepared) /\ Exists(key)
        BY <1>2, <2>1
    <2>3. prepared[Sk] = raw[Sk] /\ table' = [table EXCEPT ![key] = record]
        BY <1>2, <2>1
    <2>4. /\ key \in Keys /\ Typed(raw) /\ \A s \in Searchable : Mirrored(raw, s)
          /\ raw[Sk] \in {None, key} /\ raw[TypeField] \in {None, TypeOf(raw)}
        BY <2>1, <2>2, <2>3 DEF WholeInv, HeldInv, HeldWhole, Edit, HasRead
    <2>5. Whole(old) /\ KeyHolds(old, key)
        BY <2>1, <2>2, <2>3, <2>4 DEF WholeInv, TableWhole, KeyInv, KeyMatches, KeyHolds
    <2>6. Callers(item)
        BY <2>1, <2>2, <2>3, <2>4, MappedAreCallers
    <2>7. Whole(prepared)
        BY <2>1, <2>2, <2>3, <2>6, PreparedIsWhole DEF Callers
    <2>8. \A f \in Fields : set[f] = IF prepared[f] # raw[f] THEN prepared[f] ELSE None
        BY <2>1, <2>2, <2>3 DEF Sets
    <2>9. removes = {f \in Fields : prepared[f] = None /\ raw[f] # None}
        BY <2>1, <2>2, <2>3 DEF Removes
    <2>10. \A f \in Fields : record[f] = IF prepared[f] # raw[f] THEN prepared[f] ELSE old[f]
        BY <2>1, <2>2, <2>3, <2>8, <2>9 DEF Updated
    <2>11. \A f \in KeyNames : set[f] = None /\ f \notin removes
        BY <2>1, <2>2, <2>3 DEF KeyChanged
    <2>12. \A f \in KeyNames : prepared[f] = raw[f]
        BY <2>8, <2>9, <2>11, Apart
    <2>13. \A f \in Names : set[f] \in ValuesOf[f] \cup {None}
        BY <2>7, <2>8, Apart DEF Whole, Typed
    <2>14. ASSUME NEW s \in Searchable
           PROVE  Mirrored(record, s)
        <3>1. /\ prepared[MirrorOf[s]] = IF prepared[s] = None THEN None ELSE Lower[prepared[s]]
              /\ raw[MirrorOf[s]] = IF raw[s] = None THEN None ELSE Lower[raw[s]]
              /\ old[MirrorOf[s]] = IF old[s] = None THEN None ELSE Lower[old[s]]
            BY <2>4, <2>5, <2>7 DEF Whole, Mirrored
        <3>2. /\ prepared[s] \in ValuesOf[s] \cup {None}
              /\ raw[s] \in ValuesOf[s] \cup {None}
            BY <2>4, <2>7, Apart DEF Whole, Typed
        <3>3. prepared[s] # raw[s] <=> prepared[MirrorOf[s]] # raw[MirrorOf[s]]
            BY <3>1, <3>2, ShapeAssumption DEF MirrorsKept
        <3> QED BY <2>10, <3>1, <3>3, Apart DEF Mirrored
    <2>15. record[TypeField] = old[TypeField]
        <3>1. prepared[TypeField] = TypeOf(raw)
            BY <2>7, <2>12, SameKeyFields DEF Whole, TypeOf
        <3>2. CASE Depth(raw) = 0
            BY <2>4, <2>10, <3>1, <3>2, Apart DEF TypeOf
        <3>3. CASE raw[TypeField] = TypeOf(raw)
            BY <2>10, <3>1, <3>3, Apart
        <3>4. CASE Depth(raw) # 0 /\ raw[TypeField] # TypeOf(raw)
            <4>1. \A f \in KeyNames : item[f] = raw[f]
                BY <2>1, <2>2, <2>3, <2>12, Apart, PrepareKeys
            <4>2. Depth(item) = Depth(raw) /\ StructuralKey(item) = StructuralKey(raw)
                BY <4>1, SameKeyFields
            <4>3. Depth(item) > 0
                BY <3>4, <4>2, DepthIsTier, ShapeAssumption
            <4>4. prepared[Sk] = StructuralKey(item)
                BY <2>1, <2>2, <2>3, <4>3, PrepareKeys
            <4>5. item[KeyFields[1]] # None
                BY <4>3, DeepHasPartition
            <4>6. StructuralKey(item) \in Keys
                BY <2>6, <4>5, KeyOfItem DEF Callers
            <4>7. StructuralKey(raw) = StructuralKey(old)
                BY <2>1, <2>2, <2>3, <2>4, <2>5, <4>2, <4>4, <4>6, ShapeAssumption DEF KeyHolds
            <4>8. TypeOf(raw) = TypeOf(old)
                BY <4>7, DepthOfKey DEF TypeOf
            <4> QED BY <2>5, <2>10, <3>1, <4>8, Apart DEF Whole
        <3> QED BY <3>2, <3>3, <3>4
    <2>16. Whole(record)
        <3>1. record = Updated(old, set, removes)
            BY <2>1, <2>2, <2>3
        <3> QED BY <2>5, <2>11, <2>13, <2>14, <2>15, <3>1, UpdateKeepsWhole
    <2> QED BY <2>1, <2>2, <2>3, <2>4, <2>16, RecordKeepsWhole DEF WholeInv
<1> QED BY <1>1, <1>2 DEF Edit

\* What is read of a whole record, all of it or a part.
LEMMA ReadIsWhole ==
    ASSUME MirrorsKept, WholeInv, Read
    PROVE  HeldWhole'
<1>1. PICK key \in Keys, fields \in Projections \cup {Fields} :
        Exists(key) /\ held' = [op |-> "read", key |-> key, from |-> fields,
                                raw |-> Project(table[key], fields)]
    BY DEF Read
<1> SUFFICES ASSUME NEW old, old = table[key], NEW raw, raw = Project(old, fields)
             PROVE  HeldWhole'
    OBVIOUS
<1>2. Whole(old) /\ KeyHolds(old, key)
    BY <1>1 DEF WholeInv, TableWhole, KeyInv, KeyMatches, KeyHolds
<1>3. \A f \in Fields : raw[f] = IF f \in fields THEN old[f] ELSE None
    BY DEF Project
<1>4. Typed(raw)
    BY <1>2, <1>3, Apart DEF Whole, Typed
<1>5. raw[Sk] \in {None, key}
    BY <1>2, <1>3, Apart DEF KeyHolds
<1>6. ASSUME NEW s \in Searchable
      PROVE  Mirrored(raw, s)
    <2>1. old[MirrorOf[s]] = IF old[s] = None THEN None ELSE Lower[old[s]]
        BY <1>2 DEF Whole, Mirrored
    <2>2. s \in fields <=> MirrorOf[s] \in fields
        BY Apart DEF MirrorsKept
    <2> QED BY <1>3, <2>1, <2>2, Apart DEF Mirrored
<1>7. raw[TypeField] \in {None, TypeOf(raw)}
    <2>1. CASE TypeField \notin fields
        BY <1>3, <2>1, Apart
    <2>2. CASE fields = Fields
        <3>1. \A f \in KeyNames : raw[f] = old[f]
            BY <1>3, <2>2, Apart
        <3>2. TypeOf(raw) = TypeOf(old)
            BY <3>1, SameKeyFields DEF TypeOf
        <3> QED BY <1>2, <1>3, <2>2, <3>2, Apart DEF Whole
    <2> QED BY <2>1, <2>2 DEF MirrorsKept
<1>8. held'.op = "read" /\ held'.raw = raw /\ held'.key = key
    BY <1>1
<1> QED BY <1>4, <1>5, <1>6, <1>7, <1>8 DEF HeldWhole

LEMMA StepKeepsWhole ==
    ASSUME Technical, MirrorsKept, WholeInv, [Next]_vars
    PROVE  TableWhole'
<1>1. CASE Post \/ Put
    BY <1>1, ItemsAreCallers, StoreKeepsWhole DEF Post, Put, WholeInv
<1>2. CASE Patch
    BY <1>2, PatchKeepsWhole DEF WholeInv
<1>3. CASE Delete
    BY <1>3 DEF Delete, WholeInv, TableWhole, KeyInv, Exists
<1>4. CASE PutBack \/ Clone \/ Move
    <2>1. Typed(held.raw)
        BY <1>4 DEF PutBack, Clone, Move, HasItem, HasRead, WholeInv, HeldWhole
    <2>2. \A item \in Targets(Revive(held.raw)) : Callers(item)
        BY <2>1, MappedAreCallers DEF Targets
    <2>3. CASE UNCHANGED table
        BY <2>3 DEF WholeInv, TableWhole, Exists
    <2>4. ASSUME NEW item \in Targets(Revive(held.raw)), Store(Prepare(item, FALSE))
          PROVE  TableWhole'
        BY <2>2, <2>4, StoreKeepsWhole DEF WholeInv
    <2>5. CASE Move
        BY <2>2, <2>5, MoveKeepsWhole DEF Move, WholeInv
    <2> QED BY <1>4, <2>3, <2>4, <2>5 DEF PutBack, Clone
<1>5. CASE Edit
    BY <1>5, EditKeepsWhole
<1>6. CASE EditMoved
    <2>1. Callers(held.raw)
        BY <1>6 DEF EditMoved, WholeInv, HeldWhole, Callers
    <2> QED BY <1>6, <2>1, MoveKeepsWhole DEF EditMoved, WholeInv
<1>7. CASE Read \/ EditMoves \/ UNCHANGED vars
    BY <1>7 DEF Read, EditMoves, vars, WholeInv, TableWhole, Exists
<1> QED BY <1>1, <1>2, <1>3, <1>4, <1>5, <1>6, <1>7 DEF Next

LEMMA StepKeepsHeldWhole ==
    ASSUME Technical, MirrorsKept, WholeInv, [Next]_vars
    PROVE  HeldWhole'
<1>1. CASE Read
    BY <1>1, ReadIsWhole
<1>2. CASE EditMoves
    <2>1. PICK item \in Targets(Revive(held.raw)) :
            held' = [op |-> "moving", key |-> held.key, from |-> held.from, raw |-> item]
        BY <1>2 DEF EditMoves
    <2>2. Typed(held.raw)
        BY <1>2 DEF EditMoves, HasRead, WholeInv, HeldWhole
    <2>3. Callers(item)
        BY <2>2, MappedAreCallers DEF Targets
    <2>4. held'.op = "moving" /\ held'.raw = item
        BY <2>1
    <2> QED BY <2>3, <2>4 DEF HeldWhole, Callers
<1>3. CASE held' = None \/ held' = held
    BY <1>3 DEF WholeInv, HeldWhole
<1> QED BY <1>1, <1>2, <1>3
        DEF Next, vars, Post, Put, Patch, Delete, PutBack, Clone, Move, Edit, EditMoved, Done

\* With a technical prefix, and callers who keep mirrors whole, every record can
\* be written back as it was read: whatever a stale edit, the edit of a part or a
\* patch wrote in between, its mirrors are those of its fields and its label is
\* that of its depth.
THEOREM RecordsRoundTrip ==
    ASSUME Technical, MirrorsKept
    PROVE  Spec => []RoundTrips
<1>1. Init => WholeInv
    BY DEF Init, WholeInv, KeyInv, KeyMatches, HeldInv, TableWhole, HeldWhole, Exists
<1>2. WholeInv /\ [Next]_vars => WholeInv'
    <2> SUFFICES ASSUME WholeInv, [Next]_vars PROVE WholeInv'
        OBVIOUS
    <2>1. KeyInv' /\ HeldInv'
        BY StepKeepsKeys, StepKeepsHeld DEF HeldInv, WholeInv
    <2>2. TableWhole' /\ HeldWhole'
        BY StepKeepsWhole, StepKeepsHeldWhole
    <2> QED BY <2>1, <2>2 DEF WholeInv
<1>3. WholeInv => RoundTrips
    <2> SUFFICES ASSUME WholeInv, NEW key \in Keys, Exists(key)
                 PROVE  /\ ~Refuses(Revive(table[key]))
                        /\ Prepare(Revive(table[key]), FALSE) = table[key]
        BY DEF RoundTrips
    <2>1. Whole(table[key]) /\ KeyHolds(table[key], key)
        BY DEF WholeInv, TableWhole, KeyInv, KeyMatches, KeyHolds
    <2> QED BY <2>1, WholeRoundTrips
<1> QED BY <1>1, <1>2, <1>3, PTL DEF Spec

-----------------------------------------------------------------------------
(***************************************************************************)
(* Type correctness, whatever the technical prefix strips.                 *)
(***************************************************************************)
LEMMA DomainOf ==
    /\ \A f \in Names : Domain(f) = ValuesOf[f]
    /\ Domain(Sk) = Keys /\ Domain(TypeField) = 1..Len(KeyFields)
    /\ \A s \in Searchable : \A v \in ValuesOf[s] : Lower[v] \in Domain(MirrorOf[s])
<1>1. ASSUME NEW s \in Searchable, NEW v \in ValuesOf[s]
      PROVE  Lower[v] \in Domain(MirrorOf[s])
    BY Apart DEF Domain
<1> QED BY <1>1, Apart DEF Domain

LEMMA PreparedIsRecord ==
    ASSUME NEW item, Record(item), NEW isPatch \in BOOLEAN
    PROVE  Record(Prepare(item, isPatch))
<1> SUFFICES ASSUME NEW record, record = Prepare(item, isPatch),
                    NEW f \in Fields
             PROVE  record[f] \in Domain(f) \cup {None}
    BY DEF Record, Prepare
<1>1. \A g \in Fields : item[g] \in Domain(g) \cup {None}
    BY DEF Record
<1>2. CASE f \in Names
    BY <1>1, <1>2, PrepareKeys
<1>3. CASE f = Sk
    <2>1. record[Sk] = IF ~isPatch /\ Depth(item) > 0 THEN StructuralKey(item) ELSE item[Sk]
        <3>1. Sk \in Fields /\ Sk \notin Mirrors /\ Sk # TypeField
            BY Apart
        <3> QED BY <3>1 DEF Prepare
    <2>2. ASSUME Depth(item) > 0
          PROVE  StructuralKey(item) \in Keys
        <3>1. item[KeyFields[1]] # None
            BY <2>2, DeepHasPartition
        <3>2. Typed(item)
            BY <1>1, DomainOf, Apart DEF Typed
        <3> QED BY <3>1, <3>2, KeyOfItem
    <2> QED BY <1>1, <1>3, <2>1, <2>2, DomainOf
<1>4. CASE f = TypeField
    <2>1. record[TypeField] \in {item[TypeField], TypeOf(item)}
        BY Apart DEF Prepare
    <2>2. TypeOf(item) \in 1..Len(KeyFields) \cup {None}
        BY DepthIsTier, ShapeAssumption DEF TypeOf
    <2> QED BY <1>1, <1>4, <2>1, <2>2, DomainOf
<1>5. ASSUME NEW s \in Searchable, f = MirrorOf[s]
      PROVE  record[f] \in Domain(f) \cup {None}
    <2>1. record[f] = IF item[s] # None THEN Lower[item[s]] ELSE item[f]
        BY <1>5, PrepareMirrors
    <2>2. item[s] \in ValuesOf[s] \cup {None}
        BY <1>1, Apart, DomainOf
    <2> QED BY <1>1, <1>5, <2>1, <2>2, DomainOf
<1> QED BY <1>2, <1>3, <1>4, <1>5 DEF Fields, Managed, Mirrors

LEMMA UpdatedIsRecord ==
    ASSUME NEW old, Record(old), NEW set, Record(set), NEW removes
    PROVE  Record(Updated(old, set, removes))
BY DEF Record, Updated

\* A record with one of its names set anew.
LEMMA ChangedIsRecord ==
    ASSUME NEW old, Record(old), NEW f \in Names, NEW v \in ValuesOf[f] \cup {None}
    PROVE  Record([old EXCEPT ![f] = v])
BY DomainOf DEF Record

LEMMA MappedIsRecord ==
    ASSUME NEW raw, Record(raw), NEW item \in Mapped(Revive(raw))
    PROVE  Record(item)
<1> SUFFICES ASSUME NEW read, read = Revive(raw), item \in Mapped(read)
             PROVE  Record(item)
    OBVIOUS
<1>1. Record(read)
    BY DEF Record, Revive
<1> QED BY <1>1, ChangedIsRecord DEF Mapped

LEMMA ItemIsRecord ==
    ASSUME NEW item \in Items
    PROVE  Record(item)
<1>1. PICK named :
        /\ item = [f \in Fields |-> IF f \in Names THEN named[f] ELSE None]
        /\ \A f \in Names : named[f] \in ValuesOf[f] \cup {None}
    BY DEF Items
<1> QED BY <1>1, DomainOf DEF Record

LEMMA NoItemIsRecord == Record(NoItem)
BY DEF Record, NoItem

RecordsTyped == \A key \in Keys : Exists(key) => Record(table[key])

HeldTyped ==
    held # None =>
        /\ held.op \in {"read", "moving"}
        /\ held.from \subseteq Fields
        /\ Record(held.raw)

LEMMA StoreKeepsTypes ==
    ASSUME KeyInv, RecordsTyped, NEW item, Record(item), Store(Prepare(item, FALSE))
    PROVE  RecordsTyped'
<1> SUFFICES ASSUME NEW record, record = Prepare(item, FALSE)
             PROVE  RecordsTyped'
    OBVIOUS
<1>1. Record(record)
    BY PreparedIsRecord
<1>2. table' = [table EXCEPT ![record[Sk]] = record]
    BY DEF Store
<1> QED BY <1>1, <1>2 DEF RecordsTyped, KeyInv, Exists

LEMMA MoveKeepsTypes ==
    ASSUME KeyInv, RecordsTyped, NEW item, Record(item), NEW force \in BOOLEAN,
           MoveOf(item, force)
    PROVE  RecordsTyped'
<1> SUFFICES ASSUME NEW record, record = Prepare(item, FALSE),
                    NEW key, key = StructuralKey(item)
             PROVE  RecordsTyped'
    OBVIOUS
<1>1. Record(record)
    BY PreparedIsRecord
<1>2. CASE UNCHANGED table
    BY <1>2 DEF RecordsTyped, Exists
<1>3. CASE table' = [table EXCEPT ![key] = record, ![held.key] = None]
    BY <1>1, <1>3 DEF RecordsTyped, KeyInv, Exists
<1> QED BY <1>2, <1>3 DEF MoveOf

LEMMA UpdateKeepsTypes ==
    ASSUME KeyInv, RecordsTyped, NEW key \in Keys, Exists(key),
           NEW set, Record(set), NEW removes,
           table' = [table EXCEPT ![key] = Updated(@, set, removes)]
    PROVE  RecordsTyped'
<1> SUFFICES ASSUME NEW record, record = Updated(table[key], set, removes),
                    table' = [table EXCEPT ![key] = record]
             PROVE  RecordsTyped'
    OBVIOUS
<1>1. Record(record)
    BY UpdatedIsRecord DEF RecordsTyped
<1> QED BY <1>1 DEF RecordsTyped, KeyInv, Exists

LEMMA StepKeepsTypes ==
    ASSUME KeyInv, HeldInv, RecordsTyped, HeldTyped, [Next]_vars
    PROVE  RecordsTyped'
<1>1. CASE Post \/ Put
    BY <1>1, ItemIsRecord, StoreKeepsTypes DEF Post, Put
<1>2. CASE Patch
    <2>1. PICK key \in Keys :
            /\ Exists(key)
            /\ \/ \E f \in Names : \E v \in ValuesOf[f] :
                    table' = [table EXCEPT ![key] =
                                Updated(@, Payload([NoItem EXCEPT ![f] = v]), {})]
               \/ \E f \in PatchDeletes :
                    table' = [table EXCEPT ![key] = Updated(@, NoItem, {f})]
        BY <1>2 DEF Patch
    <2>2. ASSUME NEW f \in Names, NEW v \in ValuesOf[f],
                 NEW patch, patch = [NoItem EXCEPT ![f] = v]
          PROVE  Record(Payload(patch))
        <3>1. Record(patch)
            BY <2>2, NoItemIsRecord, ChangedIsRecord
        <3>2. Record(Prepare(patch, TRUE))
            BY <3>1, PreparedIsRecord
        <3> QED BY <3>2 DEF Record, Payload
    <2> QED BY <2>1, <2>2, NoItemIsRecord, UpdateKeepsTypes
<1>3. CASE Delete
    BY <1>3 DEF Delete, RecordsTyped, KeyInv, Exists
<1>4. CASE PutBack \/ Clone \/ Move
    <2>1. \A item \in Targets(Revive(held.raw)) : Record(item)
        BY <1>4, MappedIsRecord DEF PutBack, Clone, Move, HasItem, HasRead, HeldTyped, Targets
    <2>2. CASE UNCHANGED table
        BY <2>2 DEF RecordsTyped, Exists
    <2>3. ASSUME NEW item \in Targets(Revive(held.raw)), Store(Prepare(item, FALSE))
          PROVE  RecordsTyped'
        BY <2>1, <2>3, StoreKeepsTypes
    <2>4. CASE Move
        BY <2>1, <2>4, MoveKeepsTypes DEF Move
    <2> QED BY <1>4, <2>2, <2>3, <2>4 DEF PutBack, Clone
<1>5. CASE Edit
    <2>1. CASE UNCHANGED table
        BY <2>1 DEF RecordsTyped, Exists
    <2>2. ASSUME NEW item \in Mapped(Revive(held.raw)),
                 NEW prepared, prepared = Prepare(item, FALSE), Exists(held.key),
                 table' = [table EXCEPT ![held.key] =
                    Updated(@, Sets(held.raw, prepared), Removes(held.raw, prepared))]
          PROVE  RecordsTyped'
        <3>1. held.key \in Keys /\ Record(held.raw)
            BY <1>5 DEF Edit, HasRead, HeldInv, HeldTyped
        <3>2. Record(prepared)
            BY <2>2, <3>1, MappedIsRecord, PreparedIsRecord
        <3>3. Record(Sets(held.raw, prepared))
            BY <3>2 DEF Record, Sets
        <3> QED BY <2>2, <3>1, <3>3, UpdateKeepsTypes
    <2> QED BY <1>5, <2>1, <2>2 DEF Edit
<1>6. CASE EditMoved
    BY <1>6, MoveKeepsTypes DEF EditMoved, HeldTyped
<1>7. CASE Read \/ EditMoves \/ UNCHANGED vars
    BY <1>7 DEF Read, EditMoves, vars, RecordsTyped, Exists
<1> QED BY <1>1, <1>2, <1>3, <1>4, <1>5, <1>6, <1>7 DEF Next

LEMMA StepKeepsHeldTyped ==
    ASSUME RecordsTyped, HeldTyped, [Next]_vars
    PROVE  HeldTyped'
<1>1. CASE Read
    <2>1. PICK key \in Keys, fields \in Projections \cup {Fields} :
            Exists(key) /\ held' = [op |-> "read", key |-> key, from |-> fields,
                                    raw |-> Project(table[key], fields)]
        BY <1>1 DEF Read
    <2>2. Record(Project(table[key], fields))
        BY <2>1 DEF RecordsTyped, Record, Project
    <2>3. fields \subseteq Fields
        BY ShapeAssumption
    <2> QED BY <2>1, <2>2, <2>3 DEF HeldTyped
<1>2. CASE EditMoves
    <2>1. PICK item \in Targets(Revive(held.raw)) :
            held' = [op |-> "moving", key |-> held.key, from |-> held.from, raw |-> item]
        BY <1>2 DEF EditMoves
    <2>2. Record(item)
        BY <1>2, MappedIsRecord DEF EditMoves, HasRead, HeldTyped, Targets
    <2> QED BY <1>2, <2>1, <2>2 DEF HeldTyped, EditMoves, HasRead
<1>3. CASE held' = None \/ held' = held
    BY <1>3 DEF HeldTyped
<1> QED BY <1>1, <1>2, <1>3
        DEF Next, vars, Post, Put, Patch, Delete, PutBack, Clone, Move, Edit, EditMoved, Done

\* The table holds records under keys, and the client what it read of one: every
\* field holds what it may hold (_builtInPrepare, adapter.js:496).
THEOREM TypeCorrect == Spec => []TypeOK
<1> DEFINE TypeInv == KeyInv /\ HeldInv /\ RecordsTyped /\ HeldTyped
<1>1. Init => TypeInv
    BY DEF Init, KeyInv, KeyMatches, HeldInv, RecordsTyped, HeldTyped, Exists
<1>2. TypeInv /\ [Next]_vars => TypeInv'
    <2> SUFFICES ASSUME TypeInv, [Next]_vars PROVE TypeInv'
        OBVIOUS
    <2>1. KeyInv' /\ HeldInv'
        BY StepKeepsKeys, StepKeepsHeld DEF HeldInv
    <2>2. RecordsTyped' /\ HeldTyped'
        BY StepKeepsTypes, StepKeepsHeldTyped
    <2> QED BY <2>1, <2>2
<1>3. TypeInv => TypeOK
    BY DEF KeyInv, HeldInv, RecordsTyped, HeldTyped, TypeOK
<1> HIDE DEF TypeInv
<1> QED BY <1>1, <1>2, <1>3, PTL DEF Spec

-----------------------------------------------------------------------------
\* buildUpdate with what _diffForUpdate found between what was read and what is
\* wanted: on what was read it makes what is wanted, ...
LEMMA DiffIsExact ==
    ASSUME NEW raw, NEW wanted, wanted = [f \in Fields |-> wanted[f]]
    PROVE  Updated(raw, Sets(raw, wanted), Removes(raw, wanted)) = wanted
<1> DEFINE made == Updated(raw, Sets(raw, wanted), Removes(raw, wanted))
<1>1. made = [f \in Fields |-> made[f]]
    BY DEF Updated
<1>2. ASSUME NEW f \in Fields
      PROVE  made[f] = wanted[f]
    BY DEF Updated, Sets, Removes
<1>3. made = wanted
    <2> HIDE DEF made
    <2> QED BY <1>1, <1>2
<1> QED BY <1>3

\* ... and on any other record it leaves alone the fields in which the two agree.
LEMMA DiffSpares ==
    ASSUME NEW raw, NEW wanted, NEW record, NEW f \in Fields, wanted[f] = raw[f]
    PROVE  Updated(record, Sets(raw, wanted), Removes(raw, wanted))[f] = record[f]
BY DEF Updated, Sets, Removes

\* A caller who maps an item changes one of its fields at most.
LEMMA MappedInOne ==
    ASSUME NEW raw, NEW item \in Mapped(Revive(raw))
    PROVE  \E g \in Names : \A f \in Names \ {g} : Prepare(item, FALSE)[f] = raw[f]
<1>1. \A f \in Names : f \notin Stripped /\ f \in Fields
    BY ShapeAssumption DEF Fields
<1>2. \A f \in Names : Revive(raw)[f] = raw[f]
    BY <1>1 DEF Revive
<1>3. \A f \in Names : Prepare(item, FALSE)[f] = item[f]
    BY PrepareKeys
<1>4. KeyFields[1] \in Names
    BY ShapeAssumption DEF Names, KeyNames
<1>5. CASE item = Revive(raw)
    BY <1>2, <1>3, <1>4, <1>5
<1>6. ASSUME NEW g \in Names, NEW v, item = [Revive(raw) EXCEPT ![g] = v]
      PROVE  \A f \in Names \ {g} : Prepare(item, FALSE)[f] = raw[f]
    <2>1. \A f \in Names \ {g} : item[f] = Revive(raw)[f]
        BY <1>6
    <2> QED BY <1>2, <1>3, <2>1
<1>7. \/ item = Revive(raw)
      \/ \E g \in Names : \E v \in ValuesOf[g] \cup {None} : item = [Revive(raw) EXCEPT ![g] = v]
    BY DEF Mapped
<1> QED BY <1>5, <1>6, <1>7

\* What an edit writes over the record it has read is what a put would have written,
\* and whatever others wrote meanwhile, it changes one field of callers at most
\* (_dispatchEdit, adapter.js:1393).
THEOREM EditsAreExact == Spec => EditIsExact
<1>1. TypeOK /\ [Next]_vars =>
        [HasRead /\ table' # table /\ held' = None /\ Edit =>
            /\ HasItem /\ table[held.key] = held.raw =>
                   \E item \in Mapped(Revive(held.raw)) :
                       table'[held.key] = Prepare(item, FALSE)
            /\ Cardinality({f \in Names : table'[held.key][f] # table[held.key][f]}) <= 1]_vars
    <2> SUFFICES ASSUME TypeOK, HasRead, table' # table, Edit
                 PROVE  /\ table[held.key] = held.raw =>
                               \E item \in Mapped(Revive(held.raw)) :
                                   table'[held.key] = Prepare(item, FALSE)
                        /\ Cardinality({f \in Names : table'[held.key][f] # table[held.key][f]}) <= 1
        OBVIOUS
    <2>1. PICK item \in Mapped(Revive(held.raw)) :
            /\ Exists(held.key)
            /\ table' = [table EXCEPT ![held.key] =
                            Updated(@, Sets(held.raw, Prepare(item, FALSE)),
                                       Removes(held.raw, Prepare(item, FALSE)))]
        BY DEF Edit
    <2> DEFINE wanted == Prepare(item, FALSE)
               after == Updated(table[held.key], Sets(held.raw, wanted), Removes(held.raw, wanted))
    <2>2. held.key \in Keys /\ DOMAIN table = Keys
        BY DEF TypeOK, HasRead
    <2>3. table'[held.key] = after
        BY <2>1, <2>2
    <2>4. ASSUME table[held.key] = held.raw
          PROVE  after = wanted
        <3>1. wanted = [f \in Fields |-> wanted[f]]
            BY DEF Prepare
        <3> HIDE DEF wanted
        <3> QED BY <2>4, <3>1, DiffIsExact
    <2>5. PICK g \in Names : \A f \in Names \ {g} : wanted[f] = held.raw[f]
        BY MappedInOne
    <2>6. \A f \in Names \ {g} : after[f] = table[held.key][f]
        <3> HIDE DEF wanted
        <3> QED BY <2>5, DiffSpares DEF Fields
    <2>7. {f \in Names : after[f] # table[held.key][f]} \subseteq {g}
        <3> HIDE DEF after
        <3> QED BY <2>6
    <2>8. Cardinality({f \in Names : after[f] # table[held.key][f]}) <= 1
        <3>1. IsFiniteSet({g}) /\ Cardinality({g}) = 1
            BY FS_Singleton
        <3> HIDE DEF after
        <3> QED BY <2>7, <3>1, FS_Subset
    <2> HIDE DEF wanted, after
    <2> QED BY <2>1, <2>3, <2>4, <2>8 DEF wanted
<1> QED BY <1>1, TypeCorrect, PTL DEF Spec, EditIsExact
=============================================================================
