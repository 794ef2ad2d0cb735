------------------------- MODULE VersionedItemProofs -------------------------
(***************************************************************************)
(* Proofs about VersionedItem, for any sets of clients and keys, any bound *)
(* on the calls, and the sets of calls each theorem names.                 *)
(***************************************************************************)
EXTENDS VersionedItem, TLAPS

-----------------------------------------------------------------------------
(***************************************************************************)
(* Type correctness.                                                       *)
(***************************************************************************)

\* A read finds an entry of a non-empty history.
LEMMA CurrentIsEntry ==
    ASSUME TypeOK, NEW k \in Keys
    PROVE  /\ log[k] \in Seq(Entry)
           /\ Len(log[k]) \in Nat \ {0}
           /\ Current(k) \in Entry
           /\ \A i \in 1..Len(log[k]) : log[k][i] \in Entry
  BY DEF TypeOK, Current

LEMMA SendType ==
    ASSUME TypeOK, NEW c \in Clients, NEW op, NEW k \in Keys, NEW dst \in Keys,
           NEW base \in Nat, NEW observed \in Nat, Send(c, op, k, dst, base, observed)
    PROVE  TypeOK'
  <1>1. op \in CallNames
    BY CallsAssumption DEF Send
  <1>2. [op |-> op, key |-> k, dst |-> dst, base |-> base, observed |-> observed] \in Request
    BY <1>1 DEF Request
  <1>3. started' \in 0..MaxCalls
    BY MaxCallsAssumption DEF Send, TypeOK
  <1> QED
    BY <1>2, <1>3 DEF Send, TypeOK

\* Every request is built from what a client holds or has just read.
LEMMA CallType ==
    ASSUME TypeOK, NEW c \in Clients, Call(c)
    PROVE  TypeOK'
  <1>1. \A h \in held[c] : h.key \in Keys /\ h.at \in Nat /\ h.ver \in Nat
    BY DEF TypeOK, Snapshot
  <1>2. PICK k \in Keys :
           \/ Post(c, k) \/ Clone(c, k) \/ Put(c, k) \/ Patch(c, k) \/ Delete(c, k)
           \/ \E at \in 1..Len(log[k]) :
                 \/ GetByKey(c, k, at)
                 \/ Edit(c, k, at)
                 \/ \E dst \in Keys : Move(c, k, dst, at)
    BY DEF Call
  <1>3. CASE Post(c, k)
    BY <1>3, SendType DEF Post
  <1>4. CASE Clone(c, k)
    BY <1>1, <1>4, SendType DEF Clone
  <1>5. CASE Put(c, k)
    BY <1>1, <1>5, SendType DEF Put
  <1>6. CASE Patch(c, k)
    BY <1>1, <1>6, SendType DEF Patch
  <1>7. CASE Delete(c, k)
    BY <1>1, <1>7, SendType DEF Delete
  <1>8. ASSUME NEW at \in 1..Len(log[k]),
               \/ GetByKey(c, k, at)
               \/ Edit(c, k, at)
               \/ \E dst \in Keys : Move(c, k, dst, at)
        PROVE  TypeOK'
    <2>1. at \in Nat /\ log[k][at].ver \in Nat
      BY CurrentIsEntry DEF Entry
    <2>2. CASE GetByKey(c, k, at)
      <3>1. [key |-> k, at |-> at, ver |-> log[k][at].ver] \in Snapshot
        BY <2>1 DEF Snapshot
      <3> QED
        BY <2>2, <3>1 DEF GetByKey, TypeOK
    <2>3. CASE Edit(c, k, at)
      BY <2>1, <2>3, SendType DEF Edit
    <2>4. CASE \E dst \in Keys : Move(c, k, dst, at)
      BY <2>1, <2>4, SendType DEF Move
    <2> QED
      BY <1>8, <2>2, <2>3, <2>4
  <1> QED
    BY <1>2, <1>3, <1>4, <1>5, <1>6, <1>7, <1>8

\* The entries the table appends.
LEMMA EntryTypes ==
    ASSUME TypeOK, NEW c \in Clients, NEW r \in pending[c]
    PROVE  /\ r \in Request
           /\ \A ver \in Nat, base \in Nat : Stored(r, ver, base) \in Entry
           /\ Removed(r) \in Entry
           /\ NextVersion(r.observed) \in Nat \ {0}
           /\ \A s \in Entry : AddedVersion(s) \in Nat \ {0}
  <1>1. r \in Request
    BY DEF TypeOK
  <1> QED
    BY <1>1 DEF Request, Entry, Stored, Removed, NextVersion, AddedVersion

\* Appending an entry to a history keeps every history a non-empty sequence.
LEMMA AppendType ==
    ASSUME TypeOK, NEW k \in Keys, NEW e \in Entry
    PROVE  LET new == [log EXCEPT ![k] = Append(@, e)]
           IN  new \in [Keys -> Seq(Entry)] /\ \A j \in Keys : Len(new[j]) > 0
  <1>1. Append(log[k], e) \in Seq(Entry) /\ Len(Append(log[k], e)) > 0
    BY CurrentIsEntry
  <1> QED
    BY <1>1 DEF TypeOK

LEMMA ExecuteType ==
    ASSUME TypeOK, NEW c \in Clients, Execute(c)
    PROVE  TypeOK'
  <1> DEFINE LogType(l) == l \in [Keys -> Seq(Entry)] /\ \A j \in Keys : Len(l[j]) > 0
  <1>1. LogType(log)
    BY DEF TypeOK
  <1>2. Done(c) => pending' \in [Clients -> SUBSET Request] /\ started' \in 0..MaxCalls
    BY DEF Done, TypeOK
  <1>3. held \in [Clients -> SUBSET Snapshot]
    BY DEF TypeOK
  <1>4. CASE ExecutePut(c)
    <2>1. PICK r \in pending[c] :
             /\ log' = IF PutCondition(r, Current(r.key))
                       THEN [log EXCEPT ![r.key] = Append(@, Stored(r, NextVersion(r.observed), r.base))]
                       ELSE log
             /\ Done(c)
             /\ UNCHANGED held
      BY <1>4 DEF ExecutePut
    <2>2. r.key \in Keys /\ Stored(r, NextVersion(r.observed), r.base) \in Entry
      BY EntryTypes DEF Request
    <2>3. LogType(log')
      BY <1>1, <2>1, <2>2, AppendType
    <2> QED
      BY <1>2, <1>3, <2>1, <2>3 DEF TypeOK
  <1>5. CASE ExecuteUpdate(c)
    <2>1. PICK r \in pending[c] :
             /\ log' = IF UpdateCondition(r, Current(r.key))
                       THEN [log EXCEPT ![r.key] = Append(@, Stored(r, AddedVersion(Current(r.key)), r.base))]
                       ELSE log
             /\ held' = IF UpdateCondition(r, Current(r.key)) /\ r.op = "edit"
                        THEN [held EXCEPT ![c] = {[key |-> r.key, at |-> Len(log[r.key]) + 1,
                                                   ver |-> NextVersion(r.observed)]}]
                        ELSE held
             /\ Done(c)
      BY <1>5 DEF ExecuteUpdate
    <2>2. r.key \in Keys /\ Stored(r, AddedVersion(Current(r.key)), r.base) \in Entry
      BY EntryTypes, CurrentIsEntry DEF Request
    <2>3. LogType(log')
      BY <1>1, <2>1, <2>2, AppendType
    <2>4. [key |-> r.key, at |-> Len(log[r.key]) + 1, ver |-> NextVersion(r.observed)] \in Snapshot
      <3>1. NextVersion(r.observed) \in Nat
        BY EntryTypes
      <3>2. Len(log[r.key]) + 1 \in Nat
        BY <2>2, CurrentIsEntry
      <3> QED
        BY <2>2, <3>1, <3>2 DEF Snapshot
    <2>5. held' \in [Clients -> SUBSET Snapshot]
      BY <1>3, <2>1, <2>4
    <2> QED
      BY <1>2, <2>1, <2>3, <2>5 DEF TypeOK
  <1>6. CASE ExecuteDelete(c)
    <2>1. PICK r \in pending[c] :
             /\ log' = IF Current(r.key).here /\ DeleteCondition(r, Current(r.key))
                       THEN [log EXCEPT ![r.key] = Append(@, Removed(r))]
                       ELSE log
             /\ Done(c)
             /\ UNCHANGED held
      BY <1>6 DEF ExecuteDelete
    <2>2. r.key \in Keys /\ Removed(r) \in Entry
      BY EntryTypes DEF Request
    <2>3. LogType(log')
      BY <1>1, <2>1, <2>2, AppendType
    <2> QED
      BY <1>2, <1>3, <2>1, <2>3 DEF TypeOK
  <1>7. CASE ExecuteMove(c)
    <2>1. PICK r \in pending[c] :
             /\ log' = IF r.key # r.dst /\ PutCondition(r, Current(r.dst))
                       THEN [log EXCEPT ![r.dst] = Append(@, Stored(r, NextVersion(r.observed), 0)),
                                        ![r.key] = IF Current(r.key).here THEN Append(@, Removed(r)) ELSE @]
                       ELSE log
             /\ Done(c)
             /\ UNCHANGED held
      BY <1>7 DEF ExecuteMove
    <2>2. /\ r.key \in Keys /\ r.dst \in Keys
          /\ Removed(r) \in Entry
          /\ Stored(r, NextVersion(r.observed), 0) \in Entry
      BY EntryTypes DEF Request
    <2>3. \A k \in Keys, e \in Entry : Append(log[k], e) \in Seq(Entry) /\ Len(Append(log[k], e)) > 0
      BY CurrentIsEntry
    <2>4. LogType(log')
      BY <1>1, <2>1, <2>2, <2>3
    <2> QED
      BY <1>2, <1>3, <2>1, <2>4 DEF TypeOK
  <1> QED
    BY <1>4, <1>5, <1>6, <1>7 DEF Execute

LEMMA InitType == Init => TypeOK
  <1> SUFFICES ASSUME Init PROVE TypeOK
    OBVIOUS
  <1>1. ASSUME NEW k \in Keys
        PROVE  log[k] \in Seq(Entry) /\ Len(log[k]) > 0
    <2>1. PICK h \in BOOLEAN, v \in {0, 1} :
             log[k] = <<[here |-> h, ver |-> v, by |-> "init", base |-> 0]>>
      BY DEF Init
    <2>2. [here |-> h, ver |-> v, by |-> "init", base |-> 0] \in Entry
      BY DEF Entry
    <2> QED
      BY <2>1, <2>2
  <1>2. log \in [Keys -> Seq(Entry)]
    BY <1>1 DEF Init
  <1>3. started \in 0..MaxCalls
    BY MaxCallsAssumption DEF Init
  <1> QED
    BY <1>1, <1>2, <1>3 DEF Init, TypeOK

LEMMA NextType == TypeOK /\ [Next]_vars => TypeOK'
  <1> SUFFICES ASSUME TypeOK, [Next]_vars PROVE TypeOK'
    OBVIOUS
  <1>1. CASE Next
    BY <1>1, CallType, ExecuteType DEF Next
  <1>2. CASE UNCHANGED vars
    BY <1>2 DEF vars, TypeOK
  <1> QED
    BY <1>1, <1>2

\* The histories hold entries, the clients hold snapshots and await requests,
\* whatever the operations do (every operation of adapter.js:1219-1450).
THEOREM TypeCorrect == Spec => []TypeOK
  BY InitType, NextType, PTL DEF Spec
-----------------------------------------------------------------------------
(***************************************************************************)
(* The inductive invariant.  NoLostUpdate says nothing of what clients     *)
(* hold and await, so it is not inductive.  What makes it hold: the        *)
(* versions rise within a life of an item, and a conditional request       *)
(* carries the version of the state its client read.                       *)
(***************************************************************************)

\* Nobody overwrites blindly: a forced put may take a version back.
NoForce == Calls \cap Forced = {}

\* Nobody removes items.
NoDeletes == Calls \cap {"delete", "deleteIf", "move", "moveForce"} = {}

\* Edits and removals do not meet: an edit of an item removed since it was
\* read returns a version the table does not hold.
Discipline == "edit" \in Calls => NoDeletes

HeldTrue ==
    \A c \in Clients : \A h \in held[c] :
        /\ h.at \in 1..Len(log[h.key])
        /\ log[h.key][h.at].here
        /\ log[h.key][h.at].ver = h.ver

RequestsTrue ==
    \A c \in Clients : \A r \in pending[c] :
        /\ r.op \in Calls
        /\ r.op \in {"edit", "patchIf", "deleteIf"} => r.base > 0
        /\ r.op \in {"post", "patch"} => r.base = 0
        /\ (r.op \in ConditionalOps /\ r.base > 0) =>
              /\ r.base \in 1..Len(log[r.key])
              /\ log[r.key][r.base].here
              /\ log[r.key][r.base].ver = r.observed

\* Without removals an item that was written stays.
Stays ==
    NoDeletes => \A k \in Keys : \A i, j \in 1..Len(log[k]) :
                    (i <= j /\ log[k][i].here) => log[k][j].here

\* Only the operations in use write.
Written ==
    \A k \in Keys : \A i \in 1..Len(log[k]) : log[k][i].by \in Calls \cup {"init"}

IInv ==
    TypeOK /\ VersionsRise /\ NoLostUpdate /\ HeldTrue /\ RequestsTrue /\ Stays /\ Written
-----------------------------------------------------------------------------
(***************************************************************************)
(* How histories grow.  Every step leaves a history alone or appends one   *)
(* entry that stands in the right relation to the current one.             *)
(***************************************************************************)

NewEntry(k, e) ==
    /\ e \in Entry
    /\ e.by \in Calls
    /\ (e.here /\ Current(k).here /\ e.by \notin Forced) => Current(k).ver < e.ver
    /\ (e.by \in ConditionalOps /\ e.base > 0) =>
          /\ e.base \in 1..Len(log[k])
          /\ log[k][e.base].here
          /\ Current(k).here => Current(k).ver = log[k][e.base].ver
    /\ (NoDeletes /\ Current(k).here) => e.here

Grows ==
    \A k \in Keys :
        log'[k] = log[k] \/ \E e \in Entry : NewEntry(k, e) /\ log'[k] = Append(log[k], e)

\* Nothing that is in a history changes.
LEMMA GrowthIsStable ==
    ASSUME TypeOK, Grows, NEW k \in Keys
    PROVE  /\ Len(log'[k]) \in {Len(log[k]), Len(log[k]) + 1}
           /\ \A i \in 1..Len(log[k]) : i \in 1..Len(log'[k]) /\ log'[k][i] = log[k][i]
  <1>1. log[k] \in Seq(Entry) /\ Len(log[k]) \in Nat
    BY CurrentIsEntry
  <1>2. CASE log'[k] = log[k]
    BY <1>1, <1>2
  <1>3. ASSUME NEW e \in Entry, log'[k] = Append(log[k], e)
        PROVE  /\ Len(log'[k]) = Len(log[k]) + 1
               /\ \A i \in 1..Len(log[k]) : i \in 1..Len(log'[k]) /\ log'[k][i] = log[k][i]
    BY <1>1, <1>3
  <1> QED
    BY <1>2, <1>3 DEF Grows

\* What the history of k looks like after it grew by e.
LEMMA AppendedHistory ==
    ASSUME TypeOK, NEW k \in Keys, NEW e \in Entry, log'[k] = Append(log[k], e)
    PROVE  /\ Len(log'[k]) = Len(log[k]) + 1
           /\ log'[k][Len(log[k]) + 1] = e
           /\ \A i \in 1..Len(log[k]) : log'[k][i] = log[k][i]
           /\ Len(log[k]) \in Nat \ {0}
           /\ Current(k) = log[k][Len(log[k])]
  BY CurrentIsEntry DEF Current

LEMMA GrowthKeepsVersionsRise ==
    ASSUME TypeOK, VersionsRise, Grows
    PROVE  VersionsRise'
  <1> SUFFICES ASSUME NEW k \in Keys, NEW i \in 1..Len(log'[k]), NEW j \in 1..Len(log'[k]),
                      i < j, \A m \in i..j : log'[k][m].here,
                      \A m \in (i + 1)..j : log'[k][m].by \notin Forced
               PROVE  log'[k][i].ver < log'[k][j].ver
    BY DEF VersionsRise, SameLife
  <1>1. CASE log'[k] = log[k]
    BY <1>1 DEF VersionsRise, SameLife
  <1>2. ASSUME NEW e \in Entry, NewEntry(k, e), log'[k] = Append(log[k], e)
        PROVE  log'[k][i].ver < log'[k][j].ver
    <2>1. /\ Len(log'[k]) = Len(log[k]) + 1
          /\ log'[k][Len(log[k]) + 1] = e
          /\ \A m \in 1..Len(log[k]) : log'[k][m] = log[k][m]
          /\ Len(log[k]) \in Nat \ {0}
          /\ Current(k) = log[k][Len(log[k])]
      BY <1>2, AppendedHistory
    <2>2. i \in 1..Len(log[k]) /\ log'[k][i] = log[k][i]
      BY <2>1
    <2>3. CASE j <= Len(log[k])
      <3>1. j \in 1..Len(log[k]) /\ SameLife(k, i, j)
        <4>1. \A m \in i..j : log'[k][m] = log[k][m]
          BY <2>1, <2>3
        <4>2. \A m \in (i + 1)..j : m \in i..j
          OBVIOUS
        <4>3. j \in 1..Len(log[k])
          BY <2>1, <2>3
        <4>4. \A m \in i..j : log[k][m].here
          BY <4>1
        <4>5. \A m \in (i + 1)..j : log[k][m].by \notin Forced
          BY <4>1, <4>2
        <4> QED
          BY <4>3, <4>4, <4>5 DEF SameLife
      <3> QED
        BY <2>1, <2>2, <3>1 DEF VersionsRise
    <2>4. CASE j = Len(log[k]) + 1
      <3> DEFINE n == Len(log[k])
      <3>1. e.here /\ log[k][n].here /\ e.by \notin Forced
        <4>1. i <= n /\ n \in i..j /\ j \in i..j /\ j \in (i + 1)..j
          BY <2>1, <2>2, <2>4
        <4> QED
          BY <2>1, <2>4, <4>1
      <3>2. log[k][n].ver < e.ver
        BY <1>2, <2>1, <3>1 DEF NewEntry
      <3>3. CASE i = n
        BY <2>1, <2>2, <2>4, <3>2, <3>3
      <3>4. CASE i < n
        <4>1. n \in 1..Len(log[k]) /\ SameLife(k, i, n)
          BY <2>1, <2>2, <2>4 DEF SameLife
        <4>2. log[k][i].ver < log[k][n].ver
          BY <2>2, <3>4, <4>1 DEF VersionsRise
        <4>3. log[k][i].ver \in Nat /\ log[k][n].ver \in Nat /\ e.ver \in Nat
          BY <2>2, <4>1, CurrentIsEntry DEF Entry
        <4> QED
          BY <2>1, <2>2, <2>4, <3>2, <4>2, <4>3
      <3> QED
        BY <2>1, <2>2, <3>3, <3>4
    <2> QED
      BY <2>1, <2>3, <2>4
  <1> QED
    BY <1>1, <1>2 DEF Grows

LEMMA GrowthKeepsNoLostUpdate ==
    ASSUME TypeOK, VersionsRise, NoLostUpdate, Grows
    PROVE  NoLostUpdate'
  <1> DEFINE Broken(k, from, to) ==
               \/ \E m \in from..to : ~ log'[k][m].here
               \/ \E m \in (from + 1)..to : log'[k][m].by \in Forced
  <1> SUFFICES ASSUME NEW k \in Keys, NEW i \in 2..Len(log'[k]),
                      log'[k][i].by \in ConditionalOps, log'[k][i].base > 0
               PROVE  \/ log'[k][i].base = i - 1
                      \/ log'[k][i].base < i - 1 /\ Broken(k, log'[k][i].base, i - 1)
    BY DEF NoLostUpdate, SameLife
  <1> HIDE DEF Broken
  <1>1. CASE log'[k] = log[k]
    BY <1>1 DEF NoLostUpdate, SameLife, Broken
  <1>2. ASSUME NEW e \in Entry, NewEntry(k, e), log'[k] = Append(log[k], e)
        PROVE  \/ log'[k][i].base = i - 1
               \/ log'[k][i].base < i - 1 /\ Broken(k, log'[k][i].base, i - 1)
    <2>1. /\ Len(log'[k]) = Len(log[k]) + 1
          /\ log'[k][Len(log[k]) + 1] = e
          /\ \A m \in 1..Len(log[k]) : log'[k][m] = log[k][m]
          /\ Len(log[k]) \in Nat \ {0}
          /\ Current(k) = log[k][Len(log[k])]
      BY <1>2, AppendedHistory
    <2>2. CASE i <= Len(log[k])
      <3> DEFINE b == log[k][i].base
      <3>1. i \in 2..Len(log[k]) /\ log'[k][i] = log[k][i]
        BY <2>1, <2>2
      <3>2. b \in Nat \ {0} /\ log[k][i].by \in ConditionalOps
        BY <3>1, CurrentIsEntry DEF Entry
      <3>3. b = i - 1 \/ (b < i - 1 /\ ~SameLife(k, b, i - 1))
        BY <3>1, <3>2 DEF NoLostUpdate
      <3>4. \A m \in b..(i - 1) : log'[k][m] = log[k][m]
        BY <2>1, <3>1, <3>2
      <3>5. ~SameLife(k, b, i - 1) => Broken(k, b, i - 1)
        BY <3>2, <3>4 DEF SameLife, Broken
      <3> QED
        BY <3>1, <3>3, <3>5
    <2>3. CASE i = Len(log[k]) + 1
      <3> DEFINE n == Len(log[k])
                 b == e.base
      <3>1. /\ e.by \in ConditionalOps /\ e.base > 0
            /\ log'[k][i] = e
        BY <2>1, <2>3
      <3>2. /\ b \in 1..n
            /\ log[k][b].here
            /\ log[k][n].here => log[k][n].ver = log[k][b].ver
        BY <1>2, <2>1, <3>1 DEF NewEntry
      <3>3. CASE b = n
        BY <2>1, <2>3, <3>1, <3>3
      <3>4. CASE b < n
        <4>1. ~SameLife(k, b, n)
          <5>1. CASE ~ log[k][n].here
            BY <3>2, <3>4, <5>1 DEF SameLife
          <5>2. CASE log[k][n].here
            <6>1. log[k][b].ver \in Nat /\ log[k][n].ver \in Nat
              BY <2>1, <3>2, CurrentIsEntry DEF Entry
            <6> QED
              BY <2>1, <3>2, <3>4, <5>2, <6>1 DEF VersionsRise
          <5> QED
            BY <5>1, <5>2
        <4>2. \A m \in b..n : log'[k][m] = log[k][m]
          BY <2>1, <3>2
        <4>3. Broken(k, b, n)
          <5>1. b \in Nat /\ n \in Nat
            BY <3>2
          <5> HIDE DEF b, n
          <5>2. CASE \E m \in b..n : ~log[k][m].here
            BY <4>2, <5>2 DEF Broken
          <5>3. CASE \E m \in (b + 1)..n : log[k][m].by \in Forced
            <6>1. PICK m \in (b + 1)..n : log[k][m].by \in Forced
              BY <5>3
            <6>2. m \in b..n
              BY <5>1
            <6> QED
              BY <4>2, <6>1, <6>2 DEF Broken
          <5> QED
            BY <4>1, <5>2, <5>3 DEF SameLife
        <4> QED
          BY <2>1, <2>3, <3>1, <3>4, <4>3
      <3> QED
        BY <2>1, <3>2, <3>3, <3>4
    <2> QED
      BY <2>1, <2>2, <2>3
  <1> QED
    BY <1>1, <1>2 DEF Grows

\* And so does the list of writers.
LEMMA GrowthKeepsWritten ==
    ASSUME TypeOK, Written, Grows
    PROVE  Written'
  <1> SUFFICES ASSUME NEW k \in Keys, NEW i \in 1..Len(log'[k])
               PROVE  log'[k][i].by \in Calls \cup {"init"}
    BY DEF Written
  <1>1. CASE log'[k] = log[k]
    BY <1>1 DEF Written
  <1>2. ASSUME NEW e \in Entry, NewEntry(k, e), log'[k] = Append(log[k], e)
        PROVE  log'[k][i].by \in Calls \cup {"init"}
    <2>1. /\ Len(log'[k]) = Len(log[k]) + 1
          /\ log'[k][Len(log[k]) + 1] = e
          /\ \A m \in 1..Len(log[k]) : log'[k][m] = log[k][m]
          /\ Len(log[k]) \in Nat \ {0}
      BY <1>2, AppendedHistory
    <2>2. CASE i \in 1..Len(log[k])
      BY <2>1, <2>2 DEF Written
    <2>3. CASE i = Len(log[k]) + 1
      BY <1>2, <2>1, <2>3 DEF NewEntry
    <2> QED
      BY <2>1, <2>2, <2>3
  <1> QED
    BY <1>1, <1>2 DEF Grows

LEMMA GrowthKeepsStays ==
    ASSUME TypeOK, Stays, Grows
    PROVE  Stays'
  <1> SUFFICES ASSUME NoDeletes, NEW k \in Keys, NEW i \in 1..Len(log'[k]), NEW j \in 1..Len(log'[k]),
                      i <= j, log'[k][i].here
               PROVE  log'[k][j].here
    BY DEF Stays, NoDeletes
  <1>1. CASE log'[k] = log[k]
    BY <1>1 DEF Stays
  <1>2. ASSUME NEW e \in Entry, NewEntry(k, e), log'[k] = Append(log[k], e)
        PROVE  log'[k][j].here
    <2>1. /\ Len(log'[k]) = Len(log[k]) + 1
          /\ log'[k][Len(log[k]) + 1] = e
          /\ \A m \in 1..Len(log[k]) : log'[k][m] = log[k][m]
          /\ Len(log[k]) \in Nat \ {0}
          /\ Current(k) = log[k][Len(log[k])]
      BY <1>2, AppendedHistory
    <2>2. CASE j <= Len(log[k])
      <3>1. i \in 1..Len(log[k]) /\ j \in 1..Len(log[k])
        BY <2>1, <2>2
      <3>2. log[k][i].here
        BY <2>1, <3>1
      <3>3. log[k][j].here
        BY <3>1, <3>2 DEF Stays
      <3> QED
        BY <2>1, <3>1, <3>3
    <2>3. CASE j = Len(log[k]) + 1 /\ i = j
      BY <2>3
    <2>4. CASE j = Len(log[k]) + 1 /\ i < j
      <3>1. log[k][Len(log[k])].here
        BY <2>1, <2>4 DEF Stays
      <3> QED
        BY <1>2, <2>1, <2>4, <3>1 DEF NewEntry
    <2> QED
      BY <2>1, <2>2, <2>3, <2>4
  <1> QED
    BY <1>1, <1>2 DEF Grows
-----------------------------------------------------------------------------
(***************************************************************************)
(* The steps.  A call changes no history; an execution grows it.           *)
(***************************************************************************)

\* The request a call sends is as true as what its client holds.
LEMMA SendKeeps ==
    ASSUME TypeOK, HeldTrue, RequestsTrue, NEW c \in Clients, NEW op \in CallNames,
           NEW k \in Keys, NEW dst \in Keys, NEW base \in Nat, NEW observed \in Nat,
           op \in {"edit", "patchIf", "deleteIf"} => base > 0,
           op \in {"post", "patch"} => base = 0,
           (op \in ConditionalOps /\ base > 0) =>
              base \in 1..Len(log[k]) /\ log[k][base].here /\ log[k][base].ver = observed,
           Send(c, op, k, dst, base, observed)
    PROVE  log' = log /\ HeldTrue' /\ RequestsTrue'
  <1>1. log' = log /\ held' = held /\ op \in Calls
    BY DEF Send
  <1>2. HeldTrue'
    BY <1>1 DEF HeldTrue
  <1>3. \A d \in Clients : \A r \in pending'[d] :
           r \in pending[d] \/ r = [op |-> op, key |-> k, dst |-> dst, base |-> base, observed |-> observed]
    BY DEF Send, TypeOK
  <1>4. RequestsTrue'
    BY <1>1, <1>3 DEF RequestsTrue
  <1> QED
    BY <1>1, <1>2, <1>4

LEMMA CallKeeps ==
    ASSUME TypeOK, HeldTrue, RequestsTrue, NEW c \in Clients, Call(c)
    PROVE  log' = log /\ HeldTrue' /\ RequestsTrue'
  <1>1. \A h \in held[c] :
           /\ h.key \in Keys /\ h.at \in Nat /\ h.at > 0 /\ h.ver \in Nat
           /\ h.at \in 1..Len(log[h.key]) /\ log[h.key][h.at].here /\ log[h.key][h.at].ver = h.ver
    BY DEF TypeOK, Snapshot, HeldTrue
  <1>2. PICK k \in Keys :
           \/ Post(c, k) \/ Clone(c, k) \/ Put(c, k) \/ Patch(c, k) \/ Delete(c, k)
           \/ \E at \in 1..Len(log[k]) :
                 \/ GetByKey(c, k, at)
                 \/ Edit(c, k, at)
                 \/ \E dst \in Keys : Move(c, k, dst, at)
    BY DEF Call
  <1>3. CASE Post(c, k)
    BY <1>3, SendKeeps DEF Post, ConditionalOps, CallNames
  <1>4. CASE Clone(c, k)
    <2>1. PICK h \in held[c], op \in {"post", "force"} : Send(c, op, k, k, 0, h.ver)
      BY <1>4 DEF Clone
    <2> QED
      BY <1>1, <2>1, SendKeeps DEF ConditionalOps, CallNames
  <1>5. CASE Put(c, k)
    <2>1. ASSUME NEW op \in {"put", "force"}, Send(c, op, k, k, 0, 0)
          PROVE  log' = log /\ HeldTrue' /\ RequestsTrue'
      BY <2>1, SendKeeps DEF CallNames
    <2>2. ASSUME NEW op \in {"put", "force"}, NEW h \in held[c], h.key = k,
                 Send(c, op, k, k, h.at, h.ver)
          PROVE  log' = log /\ HeldTrue' /\ RequestsTrue'
      BY <1>1, <2>2, SendKeeps DEF CallNames
    <2> QED
      BY <1>5, <2>1, <2>2 DEF Put
  <1>6. CASE Patch(c, k)
    <2>1. CASE Send(c, "patch", k, k, 0, 0)
      BY <2>1, SendKeeps DEF CallNames, ConditionalOps
    <2>2. ASSUME NEW h \in held[c], h.key = k, Send(c, "patchIf", k, k, h.at, h.ver)
          PROVE  log' = log /\ HeldTrue' /\ RequestsTrue'
      BY <1>1, <2>2, SendKeeps DEF CallNames
    <2> QED
      BY <1>6, <2>1, <2>2 DEF Patch
  <1>7. CASE Delete(c, k)
    <2>1. CASE Send(c, "delete", k, k, 0, 0)
      BY <2>1, SendKeeps DEF CallNames, ConditionalOps
    <2>2. ASSUME NEW h \in held[c], h.key = k, Send(c, "deleteIf", k, k, h.at, h.ver)
          PROVE  log' = log /\ HeldTrue' /\ RequestsTrue'
      BY <1>1, <2>2, SendKeeps DEF CallNames
    <2> QED
      BY <1>7, <2>1, <2>2 DEF Delete
  <1>8. ASSUME NEW at \in 1..Len(log[k]),
               \/ GetByKey(c, k, at)
               \/ Edit(c, k, at)
               \/ \E dst \in Keys : Move(c, k, dst, at)
        PROVE  log' = log /\ HeldTrue' /\ RequestsTrue'
    <2>1. at \in Nat /\ at > 0 /\ log[k][at].ver \in Nat
      BY CurrentIsEntry DEF Entry
    <2>2. CASE GetByKey(c, k, at)
      <3>1. log' = log /\ pending' = pending
        BY <2>2 DEF GetByKey
      <3>2. \A d \in Clients : \A h \in held'[d] :
               h \in held[d] \/ h = [key |-> k, at |-> at, ver |-> log[k][at].ver]
        BY <2>2 DEF GetByKey, TypeOK
      <3>3. HeldTrue'
        BY <2>2, <3>1, <3>2 DEF HeldTrue, GetByKey, ReadAt
      <3>4. RequestsTrue'
        BY <3>1 DEF RequestsTrue
      <3> QED
        BY <3>1, <3>3, <3>4
    <2>3. CASE Edit(c, k, at)
      BY <2>1, <2>3, SendKeeps DEF Edit, ReadAt, CallNames
    <2>4. CASE \E dst \in Keys : Move(c, k, dst, at)
      BY <2>1, <2>4, SendKeeps DEF Move, CallNames, ConditionalOps
    <2> QED
      BY <1>8, <2>2, <2>3, <2>4
  <1> QED
    BY <1>2, <1>3, <1>4, <1>5, <1>6, <1>7, <1>8

\* Appending to one history, or to none, grows the histories.
LEMMA AppendGrows ==
    ASSUME TypeOK, NEW k \in Keys, NEW e \in Entry, NewEntry(k, e),
           log' = [log EXCEPT ![k] = Append(@, e)]
    PROVE  Grows
  BY DEF Grows, TypeOK

LEMMA ExecutePutGrows ==
    ASSUME TypeOK, RequestsTrue, NEW c \in Clients, ExecutePut(c)
    PROVE  Grows
  <1>1. PICK r \in pending[c] :
           /\ r.op \in {"post", "put", "force"}
           /\ log' = IF PutCondition(r, Current(r.key))
                     THEN [log EXCEPT ![r.key] = Append(@, Stored(r, NextVersion(r.observed), r.base))]
                     ELSE log
    BY DEF ExecutePut
  <1> DEFINE s == Current(r.key)
             e == Stored(r, NextVersion(r.observed), r.base)
  <1>2. r.key \in Keys /\ r.observed \in Nat /\ r.base \in Nat /\ e \in Entry /\ s \in Entry
    BY EntryTypes, CurrentIsEntry DEF Request
  <1>3. r.op \in Calls
    BY <1>1 DEF RequestsTrue
  <1>4. CASE PutCondition(r, s)
    <2>1. ~s.here \/ r.op \in Forced \/ (r.op = "put" /\ s.ver = r.observed)
      BY <1>1, <1>4 DEF PutCondition, VersionCondition, Forced
    <2>2. e.here /\ e.ver = r.observed + 1 /\ e.by = r.op /\ e.base = r.base
      BY DEF Stored, NextVersion
    <2>3. (e.here /\ s.here /\ e.by \notin Forced) => s.ver < e.ver
      BY <1>2, <2>1, <2>2 DEF Entry
    <2>4. (e.by \in ConditionalOps /\ e.base > 0) =>
             /\ e.base \in 1..Len(log[r.key])
             /\ log[r.key][e.base].here
             /\ s.here => s.ver = log[r.key][e.base].ver
      BY <2>1, <2>2 DEF RequestsTrue, ConditionalOps, Forced
    <2>5. NewEntry(r.key, e)
      BY <1>2, <1>3, <2>2, <2>3, <2>4 DEF NewEntry
    <2> QED
      BY <1>1, <1>2, <1>4, <2>5, AppendGrows
  <1>5. CASE ~PutCondition(r, s)
    BY <1>1, <1>5 DEF Grows
  <1> QED
    BY <1>4, <1>5

LEMMA ExecuteUpdateGrows ==
    ASSUME TypeOK, RequestsTrue, NEW c \in Clients, ExecuteUpdate(c)
    PROVE  Grows
  <1>1. PICK r \in pending[c] :
           /\ r.op \in {"patch", "patchIf", "edit"}
           /\ log' = IF UpdateCondition(r, Current(r.key))
                     THEN [log EXCEPT ![r.key] = Append(@, Stored(r, AddedVersion(Current(r.key)), r.base))]
                     ELSE log
    BY DEF ExecuteUpdate
  <1> DEFINE s == Current(r.key)
             e == Stored(r, AddedVersion(s), r.base)
  <1>2. r.key \in Keys /\ r.observed \in Nat /\ r.base \in Nat /\ e \in Entry /\ s \in Entry
    BY EntryTypes, CurrentIsEntry DEF Request
  <1>3. CASE UpdateCondition(r, s)
    <2>1. r.op = "patch" \/ ~s.here \/ s.ver = r.observed
      BY <1>3 DEF UpdateCondition, VersionCondition
    <2>2. e.here /\ e.by = r.op /\ e.base = r.base
      BY DEF Stored
    <2>3. s.here => e.ver = s.ver + 1
      BY DEF Stored, AddedVersion
    <2>4. (e.here /\ s.here) => s.ver < e.ver
      BY <1>2, <2>3 DEF Entry
    <2>5. (e.by \in ConditionalOps /\ e.base > 0) =>
             /\ e.base \in 1..Len(log[r.key])
             /\ log[r.key][e.base].here
             /\ s.here => s.ver = log[r.key][e.base].ver
      BY <2>1, <2>2 DEF RequestsTrue, ConditionalOps
    <2>6. NewEntry(r.key, e)
      BY <1>2, <2>2, <2>4, <2>5 DEF NewEntry, RequestsTrue
    <2> QED
      BY <1>1, <1>2, <1>3, <2>6, AppendGrows
  <1>4. CASE ~UpdateCondition(r, s)
    BY <1>1, <1>4 DEF Grows
  <1> QED
    BY <1>3, <1>4

LEMMA ExecuteDeleteGrows ==
    ASSUME TypeOK, RequestsTrue, NEW c \in Clients, ExecuteDelete(c)
    PROVE  Grows
  <1>1. PICK r \in pending[c] :
           /\ r.op \in {"delete", "deleteIf"}
           /\ log' = IF Current(r.key).here /\ DeleteCondition(r, Current(r.key))
                     THEN [log EXCEPT ![r.key] = Append(@, Removed(r))]
                     ELSE log
    BY DEF ExecuteDelete
  <1> DEFINE s == Current(r.key)
             e == Removed(r)
  <1>2. r.key \in Keys /\ e \in Entry
    BY EntryTypes DEF Request
  <1>3. CASE s.here /\ DeleteCondition(r, s)
    <2>1. ~e.here /\ e.by = r.op /\ e.base = r.base
      BY DEF Removed
    <2>2. ~NoDeletes
      BY <1>1 DEF RequestsTrue, NoDeletes
    <2>3. r.op = "deleteIf" => s.ver = r.observed
      BY <1>3 DEF DeleteCondition
    <2>4. (e.by \in ConditionalOps /\ e.base > 0) =>
             /\ e.base \in 1..Len(log[r.key])
             /\ log[r.key][e.base].here
             /\ s.here => s.ver = log[r.key][e.base].ver
      BY <1>1, <2>1, <2>3 DEF RequestsTrue, ConditionalOps
    <2>5. NewEntry(r.key, e)
      BY <1>2, <2>1, <2>2, <2>4 DEF NewEntry, RequestsTrue
    <2> QED
      BY <1>1, <1>2, <1>3, <2>5, AppendGrows
  <1>4. CASE ~(s.here /\ DeleteCondition(r, s))
    BY <1>1, <1>4 DEF Grows
  <1> QED
    BY <1>3, <1>4

LEMMA ExecuteMoveGrows ==
    ASSUME TypeOK, RequestsTrue, NEW c \in Clients, ExecuteMove(c)
    PROVE  Grows
  <1>1. PICK r \in pending[c] :
           /\ r.op \in {"move", "moveForce"}
           /\ log' = IF r.key # r.dst /\ PutCondition(r, Current(r.dst))
                     THEN [log EXCEPT ![r.dst] = Append(@, Stored(r, NextVersion(r.observed), 0)),
                                      ![r.key] = IF Current(r.key).here THEN Append(@, Removed(r)) ELSE @]
                     ELSE log
    BY DEF ExecuteMove
  <1> DEFINE new == Stored(r, NextVersion(r.observed), 0)
             gone == Removed(r)
  <1>2. r.key \in Keys /\ r.dst \in Keys /\ new \in Entry /\ gone \in Entry
    BY EntryTypes DEF Request
  <1>3. r.op \in Calls /\ ~NoDeletes
    BY <1>1 DEF RequestsTrue, NoDeletes
  <1>4. CASE r.key # r.dst /\ PutCondition(r, Current(r.dst))
    <2>1. ~Current(r.dst).here \/ r.op \in Forced
      BY <1>1, <1>4 DEF PutCondition, Forced
    <2>2. NewEntry(r.dst, new)
      BY <1>1, <1>2, <1>3, <2>1 DEF NewEntry, Stored, ConditionalOps
    <2>3. NewEntry(r.key, gone)
      BY <1>1, <1>2, <1>3 DEF NewEntry, Removed, ConditionalOps
    <2>4. /\ log'[r.dst] = Append(log[r.dst], new)
          /\ log'[r.key] \in {log[r.key], Append(log[r.key], gone)}
          /\ \A k \in Keys \ {r.dst, r.key} : log'[k] = log[k]
      BY <1>1, <1>2, <1>4 DEF TypeOK
    <2> QED
      BY <1>2, <2>2, <2>3, <2>4 DEF Grows
  <1>5. CASE ~(r.key # r.dst /\ PutCondition(r, Current(r.dst)))
    BY <1>1, <1>5 DEF Grows
  <1> QED
    BY <1>4, <1>5

LEMMA ExecuteGrows ==
    ASSUME TypeOK, RequestsTrue, NEW c \in Clients, Execute(c)
    PROVE  Grows
  BY ExecutePutGrows, ExecuteUpdateGrows, ExecuteDeleteGrows, ExecuteMoveGrows DEF Execute

\* After an execution the other requests, and what clients hold, stay true;
\* an edit returns the version it stored.
LEMMA ExecuteKeepsRequests ==
    ASSUME TypeOK, RequestsTrue, Grows, NEW c \in Clients, Execute(c)
    PROVE  RequestsTrue'
  <1>1. \A d \in Clients : pending'[d] \subseteq pending[d]
    BY DEF Execute, ExecutePut, ExecuteUpdate, ExecuteDelete, ExecuteMove, Done, TypeOK
  <1>2. \A d \in Clients : \A r \in pending[d] : r.key \in Keys
    BY DEF TypeOK, Request
  <1> QED
    BY <1>1, <1>2, GrowthIsStable DEF RequestsTrue

LEMMA ExecuteKeepsHeld ==
    ASSUME TypeOK, HeldTrue, RequestsTrue, Stays, Discipline, Grows, NEW c \in Clients, Execute(c)
    PROVE  HeldTrue'
  <1>1. \A d \in Clients : \A h \in held[d] :
           /\ h.at \in 1..Len(log'[h.key])
           /\ log'[h.key][h.at].here
           /\ log'[h.key][h.at].ver = h.ver
    <2>1. \A d \in Clients : \A h \in held[d] : h.key \in Keys
      BY DEF TypeOK, Snapshot
    <2> QED
      BY <2>1, GrowthIsStable DEF HeldTrue
  <1>2. CASE UNCHANGED held
    BY <1>1, <1>2 DEF HeldTrue
  <1>3. CASE ExecuteUpdate(c)
    <2>1. PICK r \in pending[c] :
             /\ log' = IF UpdateCondition(r, Current(r.key))
                       THEN [log EXCEPT ![r.key] = Append(@, Stored(r, AddedVersion(Current(r.key)), r.base))]
                       ELSE log
             /\ held' = IF UpdateCondition(r, Current(r.key)) /\ r.op = "edit"
                        THEN [held EXCEPT ![c] = {[key |-> r.key, at |-> Len(log[r.key]) + 1,
                                                   ver |-> NextVersion(r.observed)]}]
                        ELSE held
      BY <1>3 DEF ExecuteUpdate
    <2> DEFINE s == Current(r.key)
               e == Stored(r, AddedVersion(s), r.base)
    <2>2. CASE ~(UpdateCondition(r, s) /\ r.op = "edit")
      BY <1>2, <2>1, <2>2
    <2>3. CASE UpdateCondition(r, s) /\ r.op = "edit"
      <3>1. r.key \in Keys /\ e \in Entry
        BY EntryTypes, CurrentIsEntry DEF Request
      <3>2. s.here
        <4>1. NoDeletes
          BY <2>3 DEF RequestsTrue, Discipline
        <4>2. r.base \in 1..Len(log[r.key]) /\ log[r.key][r.base].here
          BY <2>3 DEF RequestsTrue, ConditionalOps
        <4>3. Len(log[r.key]) \in 1..Len(log[r.key]) /\ r.base <= Len(log[r.key])
          BY <3>1, <4>2, CurrentIsEntry
        <4> QED
          BY <3>1, <4>1, <4>2, <4>3 DEF Stays, Current
      <3>3. e.here /\ e.ver = r.observed + 1
        BY <2>3, <3>2 DEF UpdateCondition, VersionCondition, Stored, AddedVersion
      <3>4. log'[r.key] = Append(log[r.key], e)
        BY <2>1, <2>3, <3>1 DEF TypeOK
      <3>5. /\ Len(log'[r.key]) = Len(log[r.key]) + 1
            /\ log'[r.key][Len(log[r.key]) + 1] = e
            /\ Len(log[r.key]) \in Nat \ {0}
        BY <3>1, <3>4, AppendedHistory
      <3>6. Len(log[r.key]) + 1 \in 1..Len(log'[r.key])
        BY <3>5
      <3>7. \A d \in Clients : \A h \in held'[d] :
               \/ h \in held[d]
               \/ h = [key |-> r.key, at |-> Len(log[r.key]) + 1, ver |-> r.observed + 1]
        BY <2>1, <2>3 DEF TypeOK, NextVersion
      <3> QED
        BY <1>1, <3>3, <3>5, <3>6, <3>7 DEF HeldTrue
    <2> QED
      BY <2>2, <2>3
  <1>4. CASE ExecutePut(c) \/ ExecuteDelete(c) \/ ExecuteMove(c)
    BY <1>2, <1>4 DEF ExecutePut, ExecuteDelete, ExecuteMove
  <1> QED
    BY <1>3, <1>4 DEF Execute

-----------------------------------------------------------------------------
(***************************************************************************)
(* The invariant, and what follows from it.                                *)
(***************************************************************************)

LEMMA InitIInv == Init => IInv
  <1> SUFFICES ASSUME Init PROVE IInv
    OBVIOUS
  <1>1. TypeOK
    BY InitType
  <1>2. \A k \in Keys : Len(log[k]) = 1
    BY DEF Init
  <1>3. VersionsRise /\ NoLostUpdate
    BY <1>2 DEF VersionsRise, NoLostUpdate
  <1>4. Stays
    <2> SUFFICES ASSUME NEW k \in Keys, NEW i \in 1..Len(log[k]), NEW j \in 1..Len(log[k]),
                        log[k][i].here
                 PROVE  log[k][j].here
      BY DEF Stays
    <2>1. Len(log[k]) = 1
      BY <1>2
    <2>2. i = 1 /\ j = 1
      BY <2>1
    <2> QED
      BY <2>2
  <1>5. HeldTrue /\ RequestsTrue
    BY DEF Init, HeldTrue, RequestsTrue
  <1>6. Written
    <2> SUFFICES ASSUME NEW k \in Keys, NEW i \in 1..Len(log[k]) PROVE log[k][i].by = "init"
      BY DEF Written
    <2>1. PICK h \in BOOLEAN, v \in {0, 1} :
             log[k] = <<[here |-> h, ver |-> v, by |-> "init", base |-> 0]>>
      BY DEF Init
    <2> QED
      BY <2>1
  <1> QED
    BY <1>1, <1>3, <1>4, <1>5, <1>6 DEF IInv

LEMMA NextIInv ==
    ASSUME Discipline, IInv, [Next]_vars
    PROVE  IInv'
  <1>1. TypeOK /\ VersionsRise /\ NoLostUpdate /\ HeldTrue /\ RequestsTrue /\ Stays /\ Written
    BY DEF IInv
  <1>2. TypeOK'
    BY <1>1, NextType
  <1>3. ASSUME NEW c \in Clients, Call(c) PROVE IInv'
    <2>1. log' = log /\ HeldTrue' /\ RequestsTrue'
      BY <1>1, <1>3, CallKeeps
    <2>2. VersionsRise' /\ NoLostUpdate' /\ Stays' /\ Written'
      BY <1>1, <2>1 DEF VersionsRise, NoLostUpdate, Stays, SameLife, NoDeletes, Written
    <2> QED
      BY <1>2, <2>1, <2>2 DEF IInv
  <1>4. ASSUME NEW c \in Clients, Execute(c) PROVE IInv'
    <2>1. Grows
      BY <1>1, <1>4, ExecuteGrows
    <2>2. VersionsRise' /\ NoLostUpdate' /\ Stays' /\ Written'
      BY <1>1, <2>1, GrowthKeepsVersionsRise, GrowthKeepsNoLostUpdate, GrowthKeepsStays,
         GrowthKeepsWritten
    <2>3. RequestsTrue'
      BY <1>1, <1>4, <2>1, ExecuteKeepsRequests
    <2>4. HeldTrue'
      BY <1>1, <1>4, <2>1, ExecuteKeepsHeld
    <2> QED
      BY <1>2, <2>2, <2>3, <2>4 DEF IInv
  <1>5. CASE UNCHANGED vars
    BY <1>1, <1>2, <1>5 DEF vars, IInv, VersionsRise, NoLostUpdate, HeldTrue, RequestsTrue,
       Stays, SameLife, NoDeletes, Written
  <1> QED
    BY <1>3, <1>4, <1>5 DEF Next

LEMMA InvariantHolds ==
    ASSUME Discipline
    PROVE  Spec => []IInv
  <1>1. IInv /\ [Next]_vars => IInv'
    BY NextIInv
  <1> QED
    BY <1>1, InitIInv, PTL DEF Spec

\* As long as callers do not mix edits with removals, a conditional write
\* replaces the state its writer read, unless the item was removed, or
\* overwritten by force, in between (_addVersionCondition, adapter.js:894).
THEOREM LostUpdateExcluded ==
    ASSUME Discipline
    PROVE  Spec => []NoLostUpdate
  <1>1. IInv => NoLostUpdate
    BY DEF IInv
  <1> QED
    BY <1>1, InvariantHolds, PTL

\* Under the same discipline versions rise within a life of an item.
THEOREM VersionsRiseAlways ==
    ASSUME Discipline
    PROVE  Spec => []VersionsRise
  <1>1. IInv => VersionsRise
    BY DEF IInv
  <1> QED
    BY <1>1, InvariantHolds, PTL

\* And clients hold true versions, edits included (edit, adapter.js:1449).
THEOREM HeldVersionIsTrue ==
    ASSUME Discipline
    PROVE  Spec => []HeldVersionIsStored
  <1>1. IInv => HeldVersionIsStored
    BY DEF IInv, HeldTrue, HeldVersionIsStored
  <1> QED
    BY <1>1, InvariantHolds, PTL

-----------------------------------------------------------------------------
(***************************************************************************)
(* Without forced puts and removals the interleaved operations implement   *)
(* atomic ones.                                                            *)
(***************************************************************************)

\* An entry that AtomicItem allows next in k's history.
AtomicEntry(k, e) ==
    /\ e.here
    /\ Current(k).here => e.base \in {0, Len(log[k])} /\ e.ver = Current(k).ver + 1

\* A request built from an earlier read is accepted only when the item it
\* read is still the current one.
LEMMA AcceptedIsFresh ==
    ASSUME IInv, NoForce, NoDeletes, NEW c \in Clients, NEW r \in pending[c],
           r.op \in {"post", "put", "patch", "patchIf", "edit"},
           Current(r.key).here =>
              r.op = "patch" \/ (r.op # "post" /\ Current(r.key).ver = r.observed)
    PROVE  Current(r.key).here => r.base \in {0, Len(log[r.key])}
  <1> DEFINE k == r.key
             n == Len(log[k])
  <1> SUFFICES ASSUME Current(k).here, r.base # 0
               PROVE  r.base = n
    OBVIOUS
  <1>1. TypeOK /\ RequestsTrue /\ VersionsRise /\ Stays /\ Written
    BY DEF IInv
  <1>2. r \in Request /\ k \in Keys /\ r.base \in Nat
    BY <1>1, EntryTypes DEF Request
  <1>3. r.op \in {"put", "patchIf", "edit"}
    BY <1>1 DEF RequestsTrue
  <1>4. r.base \in 1..n /\ log[k][r.base].here /\ log[k][r.base].ver = r.observed
    BY <1>1, <1>2, <1>3 DEF RequestsTrue, ConditionalOps
  <1>5. n \in 1..n /\ log[k][n] = Current(k) /\ log[k][n].ver = log[k][r.base].ver
    BY <1>1, <1>2, <1>3, <1>4, CurrentIsEntry DEF Current
  <1>6. SameLife(k, r.base, n)
    <2>1. ASSUME NEW m \in r.base..n PROVE log[k][m].here
      <3>1. m \in 1..n /\ r.base <= m
        BY <1>4, <2>1
      <3> QED
        BY <1>1, <1>2, <1>4, <3>1 DEF Stays
    <2>2. ASSUME NEW m \in (r.base + 1)..n PROVE log[k][m].by \notin Forced
      <3>1. m \in 1..n
        BY <1>4, <2>2
      <3>2. log[k][m].by \in Calls \cup {"init"}
        BY <1>1, <1>2, <3>1 DEF Written
      <3> QED
        BY <3>2 DEF NoForce, Forced
    <2> QED
      BY <2>1, <2>2 DEF SameLife
  <1>7. ~(r.base < n)
    <2>1. log[k][r.base].ver \in Nat
      BY <1>1, <1>2, <1>4, CurrentIsEntry DEF Entry
    <2>2. SUFFICES ASSUME r.base < n PROVE FALSE
      OBVIOUS
    <2>3. log[k][r.base].ver < log[k][n].ver
      BY <1>1, <1>2, <1>4, <1>5, <1>6, <2>2 DEF VersionsRise
    <2> QED
      BY <1>5, <2>1, <2>3
  <1> QED
    BY <1>4, <1>7

\* Appending such an entry is a step of AtomicItem.
LEMMA AppendIsAtomic ==
    ASSUME TypeOK, NEW k \in Keys, NEW e \in Entry, AtomicEntry(k, e),
           log' = [log EXCEPT ![k] = Append(@, e)]
    PROVE  Atomic!Next
  <1>1. log'[k] = Append(log[k], e)
    BY DEF TypeOK
  <1>2. /\ Len(log'[k]) = Len(log[k]) + 1
        /\ log'[k][Len(log[k]) + 1] = e
    BY <1>1, AppendedHistory
  <1>3. Atomic!Latest(k)' = e
    BY <1>2 DEF Atomic!Latest
  <1>4. Atomic!Latest(k) = Current(k)
    BY DEF Atomic!Latest, Current
  <1>5. Atomic!Extend(k)
    BY <1>3 DEF Atomic!Extend
  <1>6. Atomic!Create(k) \/ Atomic!Update(k)
    BY <1>3, <1>4, <1>5 DEF AtomicEntry, Atomic!Create, Atomic!Update
  <1> QED
    BY <1>6 DEF Atomic!Next

LEMMA ExecutePutIsAtomic ==
    ASSUME IInv, NoForce, NoDeletes, NEW c \in Clients, ExecutePut(c)
    PROVE  log' = log \/ Atomic!Next
  <1>1. TypeOK /\ RequestsTrue
    BY DEF IInv
  <1>2. PICK r \in pending[c] :
           /\ r.op \in {"post", "put", "force"}
           /\ log' = IF PutCondition(r, Current(r.key))
                     THEN [log EXCEPT ![r.key] = Append(@, Stored(r, NextVersion(r.observed), r.base))]
                     ELSE log
    BY DEF ExecutePut
  <1> DEFINE s == Current(r.key)
             e == Stored(r, NextVersion(r.observed), r.base)
  <1>3. r.key \in Keys /\ e \in Entry
    BY <1>1, EntryTypes DEF Request
  <1>4. r.op \in {"post", "put"}
    BY <1>1, <1>2 DEF RequestsTrue, NoForce, Forced
  <1>5. CASE PutCondition(r, s)
    <2>1. ~s.here \/ (r.op = "put" /\ s.ver = r.observed)
      BY <1>4, <1>5 DEF PutCondition, VersionCondition
    <2>2. s.here => r.base \in {0, Len(log[r.key])}
      BY <1>4, <2>1, AcceptedIsFresh
    <2>3. AtomicEntry(r.key, e)
      BY <2>1, <2>2 DEF AtomicEntry, Stored, NextVersion
    <2> QED
      BY <1>1, <1>2, <1>3, <1>5, <2>3, AppendIsAtomic
  <1>6. CASE ~PutCondition(r, s)
    BY <1>2, <1>6
  <1> QED
    BY <1>5, <1>6

LEMMA ExecuteUpdateIsAtomic ==
    ASSUME IInv, NoForce, NoDeletes, NEW c \in Clients, ExecuteUpdate(c)
    PROVE  log' = log \/ Atomic!Next
  <1>1. TypeOK /\ RequestsTrue
    BY DEF IInv
  <1>2. PICK r \in pending[c] :
           /\ r.op \in {"patch", "patchIf", "edit"}
           /\ log' = IF UpdateCondition(r, Current(r.key))
                     THEN [log EXCEPT ![r.key] = Append(@, Stored(r, AddedVersion(Current(r.key)), r.base))]
                     ELSE log
    BY DEF ExecuteUpdate
  <1> DEFINE s == Current(r.key)
             e == Stored(r, AddedVersion(s), r.base)
  <1>3. r.key \in Keys /\ e \in Entry
    BY <1>1, EntryTypes, CurrentIsEntry DEF Request
  <1>4. CASE UpdateCondition(r, s)
    <2>1. r.op = "patch" \/ ~s.here \/ s.ver = r.observed
      BY <1>4 DEF UpdateCondition, VersionCondition
    <2>2. s.here => r.base \in {0, Len(log[r.key])}
      BY <1>2, <2>1, AcceptedIsFresh
    <2>3. AtomicEntry(r.key, e)
      BY <2>2 DEF AtomicEntry, Stored, AddedVersion
    <2> QED
      BY <1>1, <1>2, <1>3, <1>4, <2>3, AppendIsAtomic
  <1>5. CASE ~UpdateCondition(r, s)
    BY <1>2, <1>5
  <1> QED
    BY <1>4, <1>5

LEMMA NextIsAtomic ==
    ASSUME NoForce, NoDeletes, IInv, [Next]_vars
    PROVE  [Atomic!Next]_log
  <1>1. TypeOK /\ RequestsTrue /\ HeldTrue
    BY DEF IInv
  <1>2. CASE UNCHANGED vars
    BY <1>2 DEF vars
  <1>3. ASSUME NEW c \in Clients, Call(c) PROVE log' = log
    BY <1>1, <1>3, CallKeeps
  <1>4. ASSUME NEW c \in Clients, Execute(c) PROVE log' = log \/ Atomic!Next
    <2>1. ~ExecuteDelete(c) /\ ~ExecuteMove(c)
      BY <1>1 DEF ExecuteDelete, ExecuteMove, RequestsTrue, NoDeletes
    <2> QED
      BY <1>4, <2>1, ExecutePutIsAtomic, ExecuteUpdateIsAtomic DEF Execute
  <1> QED
    BY <1>2, <1>3, <1>4 DEF Next

\* Callers that post, put, patch and edit, with eventually consistent reads
\* and any interleaving, see atomic operations: AtomicItem is implemented
\* (makePost, makePut, makePatch and edit, adapter.js:1234-1454).
THEOREM Refinement ==
    ASSUME NoForce, NoDeletes
    PROVE  Spec => AtomicSpec
  <1>1. Discipline
    BY DEF Discipline
  <1>2. Spec => []IInv
    BY <1>1, InvariantHolds
  <1>3. Init => Atomic!Init
    BY DEF Init, Atomic!Init
  <1>4. IInv /\ [Next]_vars => [Atomic!Next]_log
    BY NextIsAtomic
  <1> QED
    BY <1>2, <1>3, <1>4, PTL DEF Spec, AtomicSpec, Atomic!Spec
=============================================================================
