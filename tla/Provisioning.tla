---------------------------- MODULE Provisioning ----------------------------
(***************************************************************************)
(* ensureTable and verifyTable (src/provisioning), run by several callers  *)
(* with declarations of their own against one table name: processes of a   *)
(* deployment, old and new versions of a program, a CI job.  Every request *)
(* is a step; what a caller planned from DescribeTable may be stale when   *)
(* it is executed.                                                         *)
(*                                                                         *)
(* A schema is a function from its parts to their shapes.  The parts are   *)
(* the global indexes, which can be added at any time, and what only       *)
(* CreateTable can set: the base keys and the local indexes.               *)
(***************************************************************************)
EXTENDS Naturals, Sequences

CONSTANTS
    Callers,    \* processes that provision or verify
    Gsi,        \* names of global secondary indexes
    Fixed,      \* parts of a schema that cannot be added later
    Base,       \* the base keys, one of them
    Shapes,     \* key schema and projection of a part
    Declared,   \* Declared[c]: the declaration c provisions with
    Absent,     \* no such part
    Create,     \* the CreateTable step of a plan
    MaxFaults   \* bound: answers lost on the way to their caller

Parts == Gsi \cup Fixed

\* gsi: the global indexes in the order of the declaration; shape: every part
\* it declares; descriptor: it has a descriptorKey.
Declaration ==
    [gsi: Seq(Gsi), shape: UNION {[ps -> Shapes] : ps \in SUBSET Parts}, descriptor: BOOLEAN]

DeclaredGsi(c) == DOMAIN Declared[c].shape \cap Gsi

ASSUME DeclaredAssumption ==
    /\ Declared \in [Callers -> Declaration]
    /\ \A c \in Callers :
          DeclaredGsi(c) = {Declared[c].gsi[i] : i \in DOMAIN Declared[c].gsi}
ASSUME BaseAssumption ==
    Base \in Fixed /\ \A c \in Callers : Base \in DOMAIN Declared[c].shape
ASSUME NameAssumption == Absent \notin Shapes /\ Create \notin Gsi
ASSUME FaultAssumption == MaxFaults \in Nat

VARIABLES
    table,      \* TableStatus, or "absent"
    live,       \* live[p]: the shape of part p in the table
    stored,     \* whose declaration the descriptor record is a snapshot of
    phase,      \* phase[c]: where c's ensureTable is
    todo,       \* todo[c]: the steps of its plan that are left
    verdict,    \* verdict[c]: where c's verifyTable is
    faults      \* answers lost so far

vars == <<table, live, stored, phase, todo, verdict, faults>>

TypeOK ==
    /\ table \in {"absent", "creating", "active", "updating"}
    /\ live \in [Parts -> Shapes \cup {Absent}]
    /\ stored \in {{}} \cup {{c} : c \in Callers}
    /\ phase \in [Callers -> {"idle", "execute", "descriptor", "returned", "threw"}]
    /\ todo \in [Callers -> SUBSET (Gsi \cup {Create})]
    /\ verdict \in [Callers -> {"none", "clean", "dirty", "ok", "failed"}]
    /\ faults \in 0..MaxFaults

\* No table, or one that somebody else made, each part as some caller declares
\* it or, Absent, as none does.
Init ==
    /\ table \in {"absent", "active"}
    /\ live \in [Parts -> Shapes \cup {Absent}]
    /\ \A p \in Parts : live[p] # Absent =>
          /\ table = "active"
          /\ \E c \in Callers : p \in DOMAIN Declared[c].shape /\ live[p] = Declared[c].shape[p]
    /\ stored = {}
    /\ phase = [c \in Callers |-> "idle"]
    /\ todo = [c \in Callers |-> {}]
    /\ verdict = [c \in Callers |-> "none"]
    /\ faults = 0

-----------------------------------------------------------------------------
\* ensureTable.

\* The indexes to add, by name; an index of that name counts as present
\* whatever its shape, and a missing local index is reported only.
Missing(c) == {g \in DeclaredGsi(c) : live[g] = Absent}

Plan(c) == IF table = "absent" THEN {Create} ELSE Missing(c)

\* A plan is executed in the order of the declaration.
Due(c, step) ==
    /\ step \in todo[c]
    /\ step # Create =>
          \E i \in DOMAIN Declared[c].gsi :
              /\ Declared[c].gsi[i] = step
              /\ \A j \in DOMAIN Declared[c].gsi : j < i => Declared[c].gsi[j] \notin todo[c]

\* Mutation: the descriptor is written before the plan is executed.
AfterStepsFirst(c, rest) ==
    IF Declared[c].descriptor THEN "descriptor"
    ELSE IF rest # {} THEN "execute" ELSE "returned"

\* What ensureTable does once `rest` is what is left of the plan.
AfterSteps(c, rest) ==
    IF rest # {} THEN "execute"
    ELSE IF Declared[c].descriptor THEN "descriptor" ELSE "returned"

\* DescribeTable, and the plan made of the answer.
Ensure(c) ==
    /\ phase[c] \in {"idle", "returned", "threw"}
    /\ todo' = [todo EXCEPT ![c] = Plan(c)]
    /\ phase' = [phase EXCEPT ![c] = AfterSteps(c, Plan(c))]
    /\ UNCHANGED <<table, live, stored, verdict, faults>>

Threw(c) ==
    /\ phase' = [phase EXCEPT ![c] = "threw"]
    /\ todo' = [todo EXCEPT ![c] = {}]

\* A table is created once, and takes one new index at a time.
Accepted(step) ==
    IF step = Create THEN table = "absent" ELSE table = "active" /\ live[step] = Absent

\* The table comes to life with all that is declared, or gets one index.
Apply(c, step) ==
    LET shape == Declared[c].shape
    IN  IF step = Create
        THEN /\ table' = "creating"
             /\ live' = [p \in Parts |-> IF p \in DOMAIN shape THEN shape[p] ELSE Absent]
        ELSE /\ table' = "updating"
             /\ live' = [live EXCEPT ![step] = shape[step]]

Step(c) ==
    /\ phase[c] = "execute"
    /\ \E step \in todo[c] :
          /\ Due(c, step) /\ Accepted(step)
          /\ Apply(c, step)
          /\ todo' = [todo EXCEPT ![c] = @ \ {step}]
          /\ phase' = [phase EXCEPT ![c] = AfterSteps(c, todo[c] \ {step})]
    /\ UNCHANGED <<stored, verdict, faults>>

\* Mutation: the plan goes on behind a step that was rejected.
RejectedSwallowed(c, step) ==
    /\ todo' = [todo EXCEPT ![c] = @ \ {step}]
    /\ phase' = [phase EXCEPT ![c] = AfterSteps(c, todo[c] \ {step})]

\* Mutation: a step that was rejected is sent again and again.
RejectedRetried(c, step) == UNCHANGED <<phase, todo>>

\* A rejection leaves executePlan, the rest of the plan undone.
Rejected(c, step) == Threw(c)

RejectStep(c) ==
    /\ phase[c] = "execute"
    /\ \E step \in todo[c] : Due(c, step) /\ ~Accepted(step) /\ Rejected(c, step)
    /\ UNCHANGED <<table, live, stored, verdict, faults>>

\* The step takes place, but its answer is lost.
LoseStep(c) ==
    /\ phase[c] = "execute"
    /\ \E step \in todo[c] : Due(c, step) /\ Accepted(step) /\ Apply(c, step)
    /\ Threw(c)
    /\ faults < MaxFaults
    /\ faults' = faults + 1
    /\ UNCHANGED <<stored, verdict>>

\* What the descriptor record is to hold: the declaration it was made of stands
\* for the snapshot.
Snapshot(c) == {c}

\* The table has the base keys c declares, and so those of its descriptor record.
KeysFit(c) == live[Base] = Declared[c].shape[Base]

\* PutItem of the snapshot, whoever wrote the one before.  A table that is still
\* being created takes no items, and one with other base keys need not take this one.
WriteDescriptor(c) ==
    /\ phase[c] = "descriptor"
    /\ \/ /\ table # "creating"
          /\ stored' = Snapshot(c)
          /\ phase' = [phase EXCEPT ![c] = "returned"]
          /\ UNCHANGED todo
       \/ /\ table = "creating" \/ ~KeysFit(c)
          /\ Threw(c)
          /\ UNCHANGED stored
    /\ UNCHANGED <<table, live, verdict, faults>>

-----------------------------------------------------------------------------
\* verifyTable.

\* Mutation: indexes are compared by name.
CleanByName(c) == \A p \in DOMAIN Declared[c].shape : live[p] # Absent

\* diffTable finds no difference of severity `error`; extra parts are warnings.
Clean(c) == \A p \in DOMAIN Declared[c].shape : live[p] = Declared[c].shape[p]

\* DescribeTable and its comparison; without a table, or a descriptor key, the
\* verdict stands.
Describe(c) ==
    /\ verdict[c] \in {"none", "ok", "failed"}
    /\ verdict' = [verdict EXCEPT ![c] =
                     IF table # "absent" /\ Declared[c].descriptor
                     THEN IF Clean(c) THEN "clean" ELSE "dirty"
                     ELSE IF table # "absent" /\ Clean(c) THEN "ok" ELSE "failed"]
    /\ UNCHANGED <<table, live, stored, phase, todo, faults>>

\* The descriptor is read: a missing one is an error when it is required, a
\* different one a warning.  The read throws, and there is no verdict, while the
\* table is being created, or when its key is none of the table's.
ReadDescriptor(c) ==
    /\ verdict[c] \in {"clean", "dirty"}
    /\ \/ /\ table # "creating"
          /\ \E required \in BOOLEAN :
                verdict' = [verdict EXCEPT ![c] =
                              IF @ = "clean" /\ (required => stored # {}) THEN "ok" ELSE "failed"]
       \/ /\ table = "creating" \/ ~KeysFit(c)
          /\ verdict' = [verdict EXCEPT ![c] = "none"]
    /\ UNCHANGED <<table, live, stored, phase, todo, faults>>

\* DynamoDB finishes what it was told to build.
Settle ==
    /\ table \in {"creating", "updating"}
    /\ table' = "active"
    /\ UNCHANGED <<live, stored, phase, todo, verdict, faults>>

Next ==
    \/ Settle
    \/ \E c \in Callers :
          \/ Ensure(c) \/ Step(c) \/ RejectStep(c) \/ LoseStep(c) \/ WriteDescriptor(c)
          \/ Describe(c) \/ ReadDescriptor(c)

\* A call goes on as long as DynamoDB answers; one that threw is repeated;
\* DynamoDB finishes what it builds.
Spec ==
    /\ Init /\ [][Next]_vars
    /\ WF_vars(Settle)
    /\ \A c \in Callers :
          /\ WF_vars(phase[c] # "returned" /\ Ensure(c))
          /\ WF_vars(Step(c) \/ RejectStep(c) \/ WriteDescriptor(c))

-----------------------------------------------------------------------------
Provisioned(c) ==
    /\ table # "absent"
    /\ \A g \in DeclaredGsi(c) : live[g] # Absent

\* Whose snapshot the descriptor record holds, the indexes of their declaration
\* are in the table: the record is written behind the whole plan, whatever
\* other callers did to the table meanwhile (ensure-table.js:205-209).
DescriptorIsBacked == \A c \in stored : Provisioned(c)

\* When ensureTable returns, the table exists with every global index its
\* caller declared, although the plan may have been stale (ensure-table.js:200).
ReturnedIsProvisioned ==
    \A c \in Callers : phase[c] = "returned" =>
        Provisioned(c) /\ (Declared[c].descriptor => stored # {})

\* An `ok` of verifyTable is as good as a proof: what is declared is in the
\* table with the declared shape, and ensureTable would have nothing to add,
\* now or after whatever other callers do later (verify-table.js:139-160).
VerdictIsSound ==
    \A c \in Callers : verdict[c] = "ok" =>
        /\ \A p \in DOMAIN Declared[c].shape : live[p] = Declared[c].shape[p]
        /\ Plan(c) = {}

\* Callers that repeat what threw end with their tables provisioned, however
\* their steps interleave and are rejected: a rejected plan loses nothing that
\* was done before (ensure-table.js:161-174).  The descriptor is only sure of a place
\* in a table with the base keys its caller declares.
EventuallyProvisioned ==
    \A c \in Callers :
        <>[](Provisioned(c) /\ (Declared[c].descriptor /\ KeysFit(c) => stored # {}))
=============================================================================
