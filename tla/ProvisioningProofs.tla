------------------------- MODULE ProvisioningProofs -------------------------
(***************************************************************************)
(* Proofs about Provisioning: for any callers and declarations, whatever   *)
(* was planned from a description that is stale, rejected or lost.         *)
(***************************************************************************)
EXTENDS Provisioning, TLAPS

USE DeclaredAssumption, NameAssumption, FaultAssumption
    DEF DeclaredAssumption, NameAssumption, FaultAssumption

\* A plan creates the table, or holds every declared index that is missing.
Planned(c) ==
    \/ todo[c] = {Create}
    \/ /\ table # "absent"
       /\ todo[c] # {} /\ todo[c] \subseteq DeclaredGsi(c)
       /\ \A g \in DeclaredGsi(c) : live[g] # Absent \/ g \in todo[c]

NoTableNoParts == table = "absent" => \A p \in Parts : live[p] = Absent

PlansCover == \A c \in Callers : phase[c] = "execute" => Planned(c)

PlansDone ==
    \A c \in Callers :
        /\ phase[c] \in {"descriptor", "returned"} => Provisioned(c)
        /\ phase[c] = "returned" /\ Declared[c].descriptor => stored # {}

Matched(c) == table # "absent" /\ Clean(c)

VerdictsMatched == \A c \in Callers : verdict[c] \in {"clean", "ok"} => Matched(c)

IInv ==
    /\ TypeOK
    /\ NoTableNoParts /\ PlansCover /\ PlansDone
    /\ DescriptorIsBacked /\ VerdictsMatched

-----------------------------------------------------------------------------
LEMMA Declarations ==
    ASSUME NEW c \in Callers
    PROVE  /\ DOMAIN Declared[c].shape \subseteq Parts
           /\ \A p \in DOMAIN Declared[c].shape : Declared[c].shape[p] \in Shapes
           /\ Declared[c].gsi \in Seq(Gsi)
           /\ DeclaredGsi(c) = {Declared[c].gsi[i] : i \in DOMAIN Declared[c].gsi}
           /\ DeclaredGsi(c) \subseteq Gsi
  <1>1. Declared[c] \in Declaration
    OBVIOUS
  <1>2. PICK ps \in SUBSET Parts : Declared[c].shape \in [ps -> Shapes]
    BY <1>1 DEF Declaration
  <1> QED
    BY <1>1, <1>2 DEF Declaration, DeclaredGsi

-----------------------------------------------------------------------------
\* What a table has, it keeps.
Grows ==
    /\ table' # "absent"
    /\ live' \in [Parts -> Shapes \cup {Absent}]
    /\ table # "absent" => \A p \in Parts : live[p] # Absent => live'[p] = live[p]

LEMMA GrownKeeps ==
    ASSUME IInv, Grows, NEW c \in Callers
    PROVE  /\ Provisioned(c) => Provisioned(c)'
           /\ Matched(c) => Matched(c)'
           /\ Planned(c) /\ todo'[c] = todo[c] => Planned(c)'
  <1>1. DOMAIN Declared[c].shape \subseteq Parts /\ DeclaredGsi(c) \subseteq Parts
        /\ \A p \in DOMAIN Declared[c].shape : Declared[c].shape[p] # Absent
    BY Declarations DEF Parts
  <1>2. Provisioned(c) => Provisioned(c)'
    BY <1>1 DEF Provisioned, Grows
  <1>3. Matched(c) => Matched(c)'
    BY <1>1 DEF Matched, Clean, Grows
  <1>4. Planned(c) /\ todo'[c] = todo[c] => Planned(c)'
    BY <1>1 DEF Planned, Grows
  <1> QED
    BY <1>2, <1>3, <1>4

\* An executed step leaves the rest of the plan to be done.
LEMMA AppliedGrows ==
    ASSUME IInv, NEW c \in Callers, Planned(c), NEW step \in todo[c],
           Accepted(step), Apply(c, step)
    PROVE  /\ Grows
           /\ table' \in {"creating", "updating"}
           /\ \A g \in DeclaredGsi(c) : live'[g] # Absent \/ g \in todo[c] \ {step}
           /\ todo[c] \ {step} \subseteq DeclaredGsi(c)
  <1>1. DeclaredGsi(c) \subseteq DOMAIN Declared[c].shape /\ DeclaredGsi(c) \subseteq Gsi
    BY DEF DeclaredGsi
  <1>2. live \in [Parts -> Shapes \cup {Absent}]
    BY DEF IInv, TypeOK
  <1>3. CASE step = Create
    <2>1. table = "absent" /\ todo[c] = {Create}
      BY <1>1, <1>3 DEF Accepted, Planned
    <2>2. /\ table' = "creating"
          /\ live' = [p \in Parts |-> IF p \in DOMAIN Declared[c].shape
                                      THEN Declared[c].shape[p] ELSE Absent]
      BY <1>3 DEF Apply
    <2>3. \A p \in DOMAIN Declared[c].shape : Declared[c].shape[p] \in Shapes
      BY Declarations
    <2>4. live' \in [Parts -> Shapes \cup {Absent}]
      BY <2>2, <2>3
    <2>5. \A g \in DeclaredGsi(c) : live'[g] # Absent
      BY <1>1, <2>2, <2>3 DEF Parts
    <2> QED
      BY <1>3, <2>1, <2>2, <2>4, <2>5 DEF Grows
  <1>4. CASE step # Create
    <2>1. /\ table = "active" /\ live[step] = Absent
          /\ table' = "updating"
          /\ live' = [live EXCEPT ![step] = Declared[c].shape[step]]
      BY <1>4 DEF Accepted, Apply
    <2>2. /\ step \in DeclaredGsi(c) /\ todo[c] \subseteq DeclaredGsi(c)
          /\ \A g \in DeclaredGsi(c) : live[g] # Absent \/ g \in todo[c]
      BY <1>4 DEF Planned
    <2>3. Declared[c].shape[step] \in Shapes /\ step \in Parts
      BY <1>1, <2>2, Declarations DEF Parts
    <2>4. live' \in [Parts -> Shapes \cup {Absent}]
      BY <1>2, <2>1, <2>3
    <2>5. \A p \in Parts : live[p] # Absent => live'[p] = live[p]
      BY <1>2, <2>1
    <2>6. \A g \in DeclaredGsi(c) : live'[g] # Absent \/ g \in todo[c] \ {step}
      BY <1>1, <1>2, <2>1, <2>2, <2>3 DEF Parts
    <2> QED
      BY <2>1, <2>2, <2>4, <2>5, <2>6 DEF Grows
  <1> QED
    BY <1>3, <1>4

\* Where a caller stands once `rest` is what is left of its plan.
LEMMA AfterStepsStands ==
    ASSUME NEW c \in Callers, NEW rest,
           phase \in [Callers -> {"idle", "execute", "descriptor", "returned", "threw"}],
           phase' = [phase EXCEPT ![c] = AfterSteps(c, rest)]
    PROVE  /\ phase' \in [Callers -> {"idle", "execute", "descriptor", "returned", "threw"}]
           /\ \A d \in Callers \ {c} : phase'[d] = phase[d]
           /\ phase'[c] \in {"execute", "descriptor", "returned"}
           /\ phase'[c] = "execute" <=> rest # {}
           /\ phase'[c] = "returned" => ~Declared[c].descriptor
  BY DEF AfterSteps

\* A step of one caller leaves the others where they stand.
LEMMA CallerStep ==
    ASSUME IInv, Grows, NEW c \in Callers,
           table' \in {"creating", "active", "updating"},
           phase' \in [Callers -> {"idle", "execute", "descriptor", "returned", "threw"}],
           \A d \in Callers \ {c} : phase'[d] = phase[d],
           todo' \in [Callers -> SUBSET (Gsi \cup {Create})],
           \A d \in Callers \ {c} : todo'[d] = todo[d],
           phase'[c] = "execute" => Planned(c)',
           phase'[c] \in {"descriptor", "returned"} => Provisioned(c)',
           phase'[c] = "returned" => ~Declared[c].descriptor,
           faults' \in 0..MaxFaults, stored' = stored, verdict' = verdict
    PROVE  IInv'
  <1>1. TypeOK'
    BY DEF IInv, TypeOK, Grows
  <1>2. NoTableNoParts'
    BY DEF NoTableNoParts
  <1>4. PlansCover'
    <2> SUFFICES ASSUME NEW d \in Callers, phase'[d] = "execute"
                 PROVE  Planned(d)'
      BY DEF PlansCover
    <2>1. CASE d # c
      BY <2>1, GrownKeeps DEF IInv, PlansCover
    <2> QED
      BY <2>1
  <1>5. PlansDone'
    <2> SUFFICES ASSUME NEW d \in Callers
                 PROVE  /\ phase'[d] \in {"descriptor", "returned"} => Provisioned(d)'
                        /\ phase'[d] = "returned" /\ Declared[d].descriptor => stored # {}
      BY DEF PlansDone
    <2>1. CASE d # c
      BY <2>1, GrownKeeps DEF IInv, PlansDone
    <2> QED
      BY <2>1
  <1>6. DescriptorIsBacked'
    BY GrownKeeps DEF IInv, DescriptorIsBacked, TypeOK
  <1>7. VerdictsMatched'
    BY GrownKeeps DEF IInv, VerdictsMatched
  <1> QED
    BY <1>1, <1>2, <1>4, <1>5, <1>6, <1>7 DEF IInv

LEMMA Stays ==
    ASSUME IInv, UNCHANGED live, table # "absent", table' # "absent"
    PROVE  Grows
  BY DEF Grows, IInv, TypeOK

LEMMA EnsureStep ==
    ASSUME IInv, NEW c \in Callers, Ensure(c)
    PROVE  IInv'
  <1>1. /\ todo' = [todo EXCEPT ![c] = Plan(c)]
        /\ phase' = [phase EXCEPT ![c] = AfterSteps(c, Plan(c))]
        /\ UNCHANGED <<table, live, stored, verdict, faults>>
    BY DEF Ensure
  <1>2. /\ phase' \in [Callers -> {"idle", "execute", "descriptor", "returned", "threw"}]
        /\ \A d \in Callers \ {c} : phase'[d] = phase[d]
        /\ phase'[c] \in {"execute", "descriptor", "returned"}
        /\ phase'[c] = "execute" <=> Plan(c) # {}
        /\ phase'[c] = "returned" => ~Declared[c].descriptor
    BY <1>1, AfterStepsStands DEF IInv, TypeOK
  <1>3. /\ todo' \in [Callers -> SUBSET (Gsi \cup {Create})] /\ todo'[c] = Plan(c)
        /\ \A d \in Callers \ {c} : todo'[d] = todo[d]
    BY <1>1, Declarations DEF Plan, Missing, IInv, TypeOK
  <1>4. CASE table = "absent"
    <2>1. Plan(c) = {Create}
      BY <1>4 DEF Plan
    <2>2. TypeOK'
      BY <1>1, <1>2, <1>3 DEF IInv, TypeOK
    <2>3. PlansCover'
      BY <1>1, <1>2, <1>3, <1>4, <2>1 DEF IInv, TypeOK, PlansCover, Planned
    <2>4. PlansDone'
      BY <1>1, <1>2, <2>1 DEF IInv, PlansDone, Provisioned
    <2> QED
      BY <1>1, <2>2, <2>3, <2>4
         DEF IInv, NoTableNoParts, DescriptorIsBacked, Provisioned, VerdictsMatched, Matched, Clean
  <1>5. CASE table # "absent"
    <2>1. Plan(c) = {g \in DeclaredGsi(c) : live[g] = Absent}
      BY <1>5 DEF Plan, Missing
    <2>2. phase'[c] = "execute" => Planned(c)'
      BY <1>1, <1>2, <1>3, <1>5, <2>1 DEF Planned
    <2>3. phase'[c] \in {"descriptor", "returned"} => Provisioned(c)'
      BY <1>1, <1>2, <1>5, <2>1 DEF Provisioned
    <2>4. Grows /\ table' \in {"creating", "active", "updating"} /\ faults' \in 0..MaxFaults
      BY <1>1, <1>5, Stays DEF IInv, TypeOK
    <2> QED
      BY <1>1, <1>2, <1>3, <2>2, <2>3, <2>4, CallerStep
  <1> QED
    BY <1>4, <1>5

LEMMA StepStep ==
    ASSUME IInv, NEW c \in Callers, Step(c)
    PROVE  IInv'
  <1>1. PICK step \in todo[c] :
          /\ Accepted(step) /\ Apply(c, step)
          /\ todo' = [todo EXCEPT ![c] = @ \ {step}]
          /\ phase' = [phase EXCEPT ![c] = AfterSteps(c, todo[c] \ {step})]
    BY DEF Step
  <1>2. Planned(c) /\ UNCHANGED <<stored, verdict, faults>>
    BY DEF Step, IInv, PlansCover
  <1> DEFINE rest == todo[c] \ {step}
  <1>3. /\ Grows /\ table' \in {"creating", "updating"}
        /\ \A g \in DeclaredGsi(c) : live'[g] # Absent \/ g \in rest
        /\ rest \subseteq DeclaredGsi(c)
    BY <1>1, <1>2, AppliedGrows
  <1>4. /\ todo' \in [Callers -> SUBSET (Gsi \cup {Create})] /\ todo'[c] = rest
        /\ \A d \in Callers \ {c} : todo'[d] = todo[d]
    BY <1>1 DEF IInv, TypeOK
  <1>5. /\ phase' \in [Callers -> {"idle", "execute", "descriptor", "returned", "threw"}]
        /\ \A d \in Callers \ {c} : phase'[d] = phase[d]
        /\ phase'[c] \in {"execute", "descriptor", "returned"}
        /\ phase'[c] = "execute" <=> rest # {}
        /\ phase'[c] = "returned" => ~Declared[c].descriptor
    BY <1>1, AfterStepsStands DEF IInv, TypeOK
  <1>6. phase'[c] = "execute" => Planned(c)'
    BY <1>3, <1>4, <1>5 DEF Planned
  <1>7. phase'[c] \in {"descriptor", "returned"} => Provisioned(c)'
    BY <1>3, <1>5 DEF Provisioned
  <1>8. faults' \in 0..MaxFaults
    BY <1>2 DEF IInv, TypeOK
  <1> HIDE DEF rest
  <1> QED
    BY <1>2, <1>3, <1>4, <1>5, <1>6, <1>7, <1>8, CallerStep

\* A caller that throws forgets its plan.
LEMMA ThrewStands ==
    ASSUME IInv, NEW c \in Callers, Threw(c)
    PROVE  /\ phase' \in [Callers -> {"idle", "execute", "descriptor", "returned", "threw"}]
           /\ \A d \in Callers \ {c} : phase'[d] = phase[d]
           /\ phase'[c] = "threw"
           /\ todo' \in [Callers -> SUBSET (Gsi \cup {Create})]
           /\ \A d \in Callers \ {c} : todo'[d] = todo[d]
  BY DEF Threw, IInv, TypeOK

LEMMA LoseStepStep ==
    ASSUME IInv, NEW c \in Callers, LoseStep(c)
    PROVE  IInv'
  <1>1. PICK step \in todo[c] : Accepted(step) /\ Apply(c, step)
    BY DEF LoseStep
  <1>2. Planned(c) /\ Threw(c) /\ UNCHANGED <<stored, verdict>>
    BY DEF LoseStep, IInv, PlansCover
  <1>3. Grows /\ table' \in {"creating", "updating"}
    BY <1>1, <1>2, AppliedGrows
  <1>4. faults' \in 0..MaxFaults
    BY DEF LoseStep, IInv, TypeOK
  <1> QED
    BY <1>2, <1>3, <1>4, ThrewStands, CallerStep

\* Rejected, or refused by a table that is still being created or has other keys.
LEMMA RejectStepStep ==
    ASSUME IInv, NEW c \in Callers, Threw(c), UNCHANGED <<table, live, stored, verdict, faults>>
    PROVE  IInv'
  <1>1. CASE table = "absent"
    <2>1. TypeOK'
      BY ThrewStands DEF IInv, TypeOK
    <2>2. PlansCover' /\ PlansDone'
      BY ThrewStands DEF IInv, PlansCover, Planned, PlansDone, Provisioned, Threw, TypeOK
    <2> QED
      BY <2>1, <2>2
         DEF IInv, NoTableNoParts, DescriptorIsBacked, Provisioned, VerdictsMatched, Matched, Clean
  <1>2. CASE table # "absent"
    <2>1. Grows /\ table' \in {"creating", "active", "updating"} /\ table' # "absent"
      <3>1. table \in {"creating", "active", "updating"}
        BY <1>2 DEF IInv, TypeOK
      <3> QED
        BY <1>2, <3>1, Stays
    <2> QED
      BY <2>1, ThrewStands, GrownKeeps
         DEF IInv, TypeOK, NoTableNoParts, PlansCover, PlansDone, DescriptorIsBacked, VerdictsMatched
  <1> QED
    BY <1>1, <1>2

LEMMA WriteDescriptorStep ==
    ASSUME IInv, NEW c \in Callers, WriteDescriptor(c)
    PROVE  IInv'
  <1>1. CASE Threw(c) /\ UNCHANGED stored
    BY <1>1, RejectStepStep DEF WriteDescriptor
  <1>2. CASE /\ stored' = {c}
             /\ phase' = [phase EXCEPT ![c] = "returned"]
             /\ UNCHANGED todo
    <2>1. /\ stored' = {c} /\ phase[c] = "descriptor"
          /\ phase' = [phase EXCEPT ![c] = "returned"]
          /\ UNCHANGED <<todo, table, live, verdict, faults>>
      BY <1>2 DEF WriteDescriptor
    <2>2. Provisioned(c)
      BY <2>1 DEF IInv, PlansDone
    <2>3. TypeOK'
      BY <2>1 DEF IInv, TypeOK
    <2>4. PlansCover'
      BY <2>1 DEF IInv, TypeOK, PlansCover, Planned
    <2>5. PlansDone'
      BY <2>1, <2>2 DEF IInv, TypeOK, PlansDone, Provisioned
    <2>6. DescriptorIsBacked'
      BY <2>1, <2>2 DEF DescriptorIsBacked, Provisioned
    <2> QED
      BY <2>1, <2>3, <2>4, <2>5, <2>6 DEF IInv, NoTableNoParts, VerdictsMatched, Matched, Clean
  <1> QED
    BY <1>1, <1>2 DEF WriteDescriptor, Snapshot

LEMMA DescribeStep ==
    ASSUME IInv, NEW c \in Callers, Describe(c) \/ ReadDescriptor(c)
    PROVE  IInv'
  <1>1. UNCHANGED <<table, live, stored, phase, todo, faults>>
    BY DEF Describe, ReadDescriptor
  <1>2. /\ verdict' \in [Callers -> {"none", "clean", "dirty", "ok", "failed"}]
        /\ \A d \in Callers \ {c} : verdict'[d] = verdict[d]
    BY DEF Describe, ReadDescriptor, IInv, TypeOK
  <1>3. verdict'[c] \in {"clean", "ok"} => Matched(c)
    BY DEF Describe, ReadDescriptor, IInv, TypeOK, VerdictsMatched, Matched
  <1>4. VerdictsMatched'
    BY <1>1, <1>2, <1>3 DEF IInv, VerdictsMatched, Matched, Clean
  <1> QED
    BY <1>1, <1>2, <1>4
       DEF IInv, TypeOK, NoTableNoParts, PlansCover, Planned, PlansDone, Provisioned, DescriptorIsBacked

LEMMA SettleStep ==
    ASSUME IInv, Settle
    PROVE  IInv'
  <1>1. Grows /\ table' = "active"
    BY Stays DEF Settle
  <1>2. UNCHANGED <<live, stored, phase, todo, verdict, faults>>
    BY DEF Settle
  <1> QED
    BY <1>1, <1>2, GrownKeeps
       DEF IInv, TypeOK, NoTableNoParts, PlansCover, PlansDone, DescriptorIsBacked, VerdictsMatched

LEMMA InitInv == Init => IInv
  BY DEF Init, IInv, TypeOK, NoTableNoParts, PlansCover, PlansDone, DescriptorIsBacked, VerdictsMatched

LEMMA NextInv == IInv /\ [Next]_vars => IInv'
  <1> SUFFICES ASSUME IInv, [Next]_vars
               PROVE  IInv'
    OBVIOUS
  <1>1. ASSUME NEW c \in Callers, RejectStep(c)
        PROVE  IInv'
    BY <1>1, RejectStepStep DEF RejectStep, Rejected
  <1>2. CASE UNCHANGED vars
    BY <1>2 DEF vars, IInv, TypeOK, NoTableNoParts, PlansCover, Planned, PlansDone,
                Provisioned, DescriptorIsBacked, VerdictsMatched, Matched, Clean
  <1> QED
    BY <1>1, <1>2, EnsureStep, StepStep, LoseStepStep, WriteDescriptorStep, DescribeStep, SettleStep
       DEF Next

LEMMA Invariant == Spec => []IInv
  BY InitInv, NextInv, PTL DEF Spec

\* The state of a table and its callers keeps its shape, and no plan names what is
\* not declared.
THEOREM TypeCorrect == Spec => []TypeOK
  <1>1. IInv => TypeOK
    BY DEF IInv
  <1> QED
    BY <1>1, Invariant, PTL

\* The descriptor is never ahead of the table (ensure-table.js:205-209).
THEOREM DescriptorNeverAhead == Spec => []DescriptorIsBacked
  <1>1. IInv => DescriptorIsBacked
    BY DEF IInv
  <1> QED
    BY <1>1, Invariant, PTL

\* Whoever returns from ensureTable finds the indexes it declared
\* (ensure-table.js:200).
THEOREM ReturnedHasIndexes == Spec => []ReturnedIsProvisioned
  <1>1. IInv => ReturnedIsProvisioned
    BY DEF IInv, PlansDone, ReturnedIsProvisioned
  <1> QED
    BY <1>1, Invariant, PTL

\* An `ok` of verifyTable stays true (verify-table.js:139-160).
THEOREM VerdictStaysSound == Spec => []VerdictIsSound
  <1>1. IInv => VerdictIsSound
    <2> SUFFICES ASSUME IInv, NEW c \in Callers, verdict[c] = "ok"
                 PROVE  /\ \A p \in DOMAIN Declared[c].shape : live[p] = Declared[c].shape[p]
                        /\ Plan(c) = {}
      BY DEF VerdictIsSound
    <2>1. Matched(c)
      BY DEF IInv, VerdictsMatched
    <2>2. \A g \in DeclaredGsi(c) : live[g] # Absent
      BY <2>1, Declarations DEF Matched, Clean, DeclaredGsi
    <2> QED
      BY <2>1, <2>2 DEF Matched, Clean, Plan, Missing
  <1> QED
    BY <1>1, Invariant, PTL
=============================================================================
