---------------------------- MODULE VersionedItem ----------------------------
(***************************************************************************)
(* Single-item operations of the Adapter on a table that declares          *)
(* `versionField` (src/adapter/adapter.js).  Every operation builds one    *)
(* DynamoDB request from what its caller read some time ago; the request   *)
(* is executed later, atomically, under the condition the Adapter put into *)
(* it.  Clients interleave freely between the two.                         *)
(*                                                                         *)
(* log[k] is the history of the item stored under key k: its last element  *)
(* is what the table holds, an earlier one is what an eventually           *)
(* consistent read may still return.  The fields `by` and `base` of an     *)
(* entry are history: the operation that wrote it, and the position in the *)
(* history its writer had read (0: the writer had read nothing).           *)
(***************************************************************************)
EXTENDS Integers, Sequences

CONSTANTS
    Clients,    \* independent callers of the Adapter
    Keys,       \* primary keys
    Calls,      \* the operations the callers use, a subset of CallNames
    MaxCalls    \* bound: operations started in a behaviour

CallNames ==
    {"post", "put", "force", "patch", "patchIf", "edit",
     "delete", "deleteIf", "move", "moveForce"}

ASSUME CallsAssumption == Calls \subseteq CallNames
ASSUME MaxCallsAssumption == MaxCalls \in Nat

VARIABLES
    log,        \* log[k]: the states the item under k went through
    held,       \* held[c]: the item c read last, as the Adapter returned it
    pending,    \* pending[c]: the request c awaits, if any
    started     \* operations started so far

vars == <<log, held, pending, started>>

\* Version 0 stands for an item without a version attribute: one written
\* before the table declared `versionField`, or one the caller just made.
Entry == [here: BOOLEAN, ver: Nat, by: CallNames \cup {"init"}, base: Nat]
Snapshot == [key: Keys, at: Nat, ver: Nat]
Request == [op: CallNames, key: Keys, dst: Keys, base: Nat, observed: Nat]

TypeOK ==
    /\ log \in [Keys -> Seq(Entry)]
    /\ \A k \in Keys : Len(log[k]) > 0
    /\ held \in [Clients -> SUBSET Snapshot]
    /\ pending \in [Clients -> SUBSET Request]
    /\ started \in 0..MaxCalls

Current(k) == log[k][Len(log[k])]

\* Absent, stored without a version, or stored with one.
Init ==
    /\ log \in [Keys -> {<<[here |-> h, ver |-> v, by |-> "init", base |-> 0]>> :
                            h \in BOOLEAN, v \in {0, 1}}]
    /\ \A k \in Keys : ~Current(k).here => Current(k).ver = 0
    /\ held = [c \in Clients |-> {}]
    /\ pending = [c \in Clients |-> {}]
    /\ started = 0

-----------------------------------------------------------------------------
\* The client's half: read, and build a request.

ReadAt(k, at) == at \in 1..Len(log[k]) /\ log[k][at].here

\* getByKey: eventually consistent, so any state of the item may come back.
GetByKey(c, k, at) ==
    /\ pending[c] = {}
    /\ ReadAt(k, at)
    /\ held' = [held EXCEPT ![c] = {[key |-> k, at |-> at, ver |-> log[k][at].ver]}]
    /\ UNCHANGED <<log, pending, started>>

Send(c, op, k, dst, base, observed) ==
    /\ pending[c] = {}
    /\ op \in Calls
    /\ started < MaxCalls
    /\ pending' = [pending EXCEPT ![c] =
                     {[op |-> op, key |-> k, dst |-> dst, base |-> base, observed |-> observed]}]
    /\ started' = started + 1
    /\ UNCHANGED <<log, held>>

\* A new item.
Post(c, k) == Send(c, "post", k, k, 0, 0)

\* clone: a copy of an item that was read, version included; a mapFn that
\* leaves the version out makes it a new item.
Clone(c, k) ==
    \E h \in held[c], op \in {"post", "force"} : Send(c, op, k, k, 0, h.ver)

\* A new item, or the item read under the same key, written back.
Put(c, k) ==
    \E op \in {"put", "force"} :
        \/ Send(c, op, k, k, 0, 0)
        \/ \E h \in held[c] : h.key = k /\ Send(c, op, k, k, h.at, h.ver)

Patch(c, k) ==
    \/ Send(c, "patch", k, k, 0, 0)
    \/ \E h \in held[c] : h.key = k /\ h.ver > 0 /\ Send(c, "patchIf", k, k, h.at, h.ver)

Delete(c, k) ==
    \/ Send(c, "delete", k, k, 0, 0)
    \/ \E h \in held[c] : h.key = k /\ h.ver > 0 /\ Send(c, "deleteIf", k, k, h.at, h.ver)

\* edit reads the item itself; a mapFn that drops the item or leaves it alone
\* sends nothing.
Edit(c, k, at) == ReadAt(k, at) /\ Send(c, "edit", k, k, at, log[k][at].ver)

\* move, and an edit with allowKeyChange whose mapFn changed the key.  The
\* mapFn may keep the version attribute or build an item without one.
Move(c, k, dst, at) ==
    /\ ReadAt(k, at)
    /\ \E op \in {"move", "moveForce"}, ver \in {0, log[k][at].ver} :
          Send(c, op, k, dst, at, ver)

-----------------------------------------------------------------------------
\* The table's half: execute a request under its condition.

\* Mutation: the version half of the condition is dropped.
VersionConditionUnversioned(s, observed) == TRUE

\* attribute_not_exists(pk) OR version = :observed; without an observed
\* version only the first half.
VersionCondition(s, observed) == ~s.here \/ (observed # 0 /\ s.ver = observed)

PutCondition(r, s) ==
    CASE r.op \in {"force", "moveForce"} -> TRUE
      [] r.op \in {"post", "move"} -> ~s.here
      [] OTHER -> VersionCondition(s, r.observed)

UpdateCondition(r, s) ==
    IF r.op = "patch" THEN s.here ELSE VersionCondition(s, r.observed)

DeleteCondition(r, s) ==
    r.op = "deleteIf" => s.here /\ s.ver = r.observed

\* The version written by a put: one more than the item the caller passed.
NextVersion(observed) == observed + 1

\* Mutation: the update does not advance the version.
AddedVersionKept(s) == s.ver

\* ADD version :1 counts from 0 when the attribute, or the item, is missing.
AddedVersion(s) == IF s.here THEN s.ver + 1 ELSE 1

Stored(r, ver, base) == [here |-> TRUE, ver |-> ver, by |-> r.op, base |-> base]
Removed(r) == [here |-> FALSE, ver |-> 0, by |-> r.op, base |-> r.base]

Done(c) ==
    /\ pending' = [pending EXCEPT ![c] = {}]
    /\ UNCHANGED started

ExecutePut(c) ==
    \E r \in pending[c] :
        /\ r.op \in {"post", "put", "force"}
        /\ log' = IF PutCondition(r, Current(r.key))
                  THEN [log EXCEPT ![r.key] = Append(@, Stored(r, NextVersion(r.observed), r.base))]
                  ELSE log
        /\ Done(c)
        /\ UNCHANGED held

\* An edit that succeeds hands its caller the item with the version it
\* expects the table to hold now.
ExecuteUpdate(c) ==
    \E r \in pending[c] :
        LET s == Current(r.key)
            ok == UpdateCondition(r, s)
        IN  /\ r.op \in {"patch", "patchIf", "edit"}
            /\ log' = IF ok
                      THEN [log EXCEPT ![r.key] = Append(@, Stored(r, AddedVersion(s), r.base))]
                      ELSE log
            /\ held' = IF ok /\ r.op = "edit"
                       THEN [held EXCEPT ![c] = {[key |-> r.key, at |-> Len(log[r.key]) + 1,
                                                  ver |-> NextVersion(r.observed)]}]
                       ELSE held
            /\ Done(c)

\* Deleting an absent item changes nothing.
ExecuteDelete(c) ==
    \E r \in pending[c] :
        LET s == Current(r.key)
        IN  /\ r.op \in {"delete", "deleteIf"}
            /\ log' = IF s.here /\ DeleteCondition(r, s)
                      THEN [log EXCEPT ![r.key] = Append(@, Removed(r))]
                      ELSE log
            /\ Done(c)
            /\ UNCHANGED held

\* One transaction: put the destination, delete the source unconditionally.
\* Two actions on one item are rejected.
ExecuteMove(c) ==
    \E r \in pending[c] :
        /\ r.op \in {"move", "moveForce"}
        /\ log' = IF r.key # r.dst /\ PutCondition(r, Current(r.dst))
                  THEN [log EXCEPT ![r.dst] = Append(@, Stored(r, NextVersion(r.observed), 0)),
                                   ![r.key] = IF Current(r.key).here THEN Append(@, Removed(r)) ELSE @]
                  ELSE log
        /\ Done(c)
        /\ UNCHANGED held

Execute(c) == ExecutePut(c) \/ ExecuteUpdate(c) \/ ExecuteDelete(c) \/ ExecuteMove(c)

Call(c) ==
    \E k \in Keys :
        \/ Post(c, k) \/ Clone(c, k) \/ Put(c, k) \/ Patch(c, k) \/ Delete(c, k)
        \/ \E at \in 1..Len(log[k]) :
              \/ GetByKey(c, k, at)
              \/ Edit(c, k, at)
              \/ \E dst \in Keys : Move(c, k, dst, at)

Next == \E c \in Clients : Call(c) \/ Execute(c)

Spec == Init /\ [][Next]_vars

-----------------------------------------------------------------------------
\* What optimistic concurrency promises.

ConditionalOps == {"put", "patchIf", "edit", "deleteIf"}

Forced == {"force", "moveForce"}

\* From i to j the item under k was neither removed nor overwritten by force:
\* these positions lie in one life of it.
SameLife(k, i, j) ==
    /\ \A m \in i..j : log[k][m].here
    /\ \A m \in (i + 1)..j : log[k][m].by \notin Forced

\* A write made on the strength of an earlier read replaces exactly the state
\* that was read; only when the item was removed, or overwritten by force, in
\* between may it replace another one (_addVersionCondition, adapter.js:894).
NoLostUpdate ==
    \A k \in Keys : \A i \in 2..Len(log[k]) :
        LET e == log[k][i]
        IN  (e.by \in ConditionalOps /\ e.base > 0) =>
                e.base = i - 1 \/ (e.base < i - 1 /\ ~SameLife(k, e.base, i - 1))

\* Within one life of an item its version only grows, whatever mixture of
\* operations writes it (_applyVersionToItem and _addVersionIncrement).
VersionsRise ==
    \A k \in Keys : \A i, j \in 1..Len(log[k]) :
        (i < j /\ SameLife(k, i, j)) => log[k][i].ver < log[k][j].ver

\* The version of the item a caller holds, read or returned by edit, is the
\* version stored at that point of the history, so that a follow-up write
\* conditions on the right thing (edit, adapter.js:1449).
HeldVersionIsStored ==
    \A c \in Clients : \A h \in held[c] :
        h.at \in 1..Len(log[h.key]) /\ log[h.key][h.at].ver = h.ver

\* When nobody deletes, moves or forces, the interleaved reads and
\* conditional requests implement atomic operations on the items.
Atomic == INSTANCE AtomicItem WITH hist <- log

AtomicSpec == Atomic!Spec
=============================================================================
