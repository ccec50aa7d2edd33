----------------------- MODULE NodeHousekeepingProofs -----------------------
(***************************************************************************)
(* Theorems about the shared capacity of a job group, for any number of     *)
(* jobs, instances and faults and any weight: the types for any number of   *)
(* jobs on a node, the bound on the capacity for nodes that have as many    *)
(* jobs as they weigh, the safety of full nodes for any.                    *)
(***************************************************************************)
EXTENDS NodeHousekeeping, FiniteSetTheorems, FunctionTheorems, TLAPS

-----------------------------------------------------------------------------
(* The arithmetic of the capacities.                                        *)

\* The greatest and the least of a few integers.
LEMMA MaxOfThree ==
    ASSUME NEW a \in Int, NEW b \in Int, NEW c \in Int
    PROVE  /\ Max({a, b, c}) \in {a, b, c}
           /\ \A y \in {a, b, c} : Max({a, b, c}) >= y
  <1>1. \E x \in {a, b, c} : \A y \in {a, b, c} : x >= y
    <2>1. CASE a >= b /\ a >= c  BY <2>1
    <2>2. CASE b >= a /\ b >= c  BY <2>2
    <2>3. CASE c >= a /\ c >= b  BY <2>3
    <2> QED  BY <2>1, <2>2, <2>3
  <1> QED  BY <1>1 DEF Max

LEMMA MaxOfTwo ==
    ASSUME NEW a \in Int, NEW b \in Int
    PROVE  /\ Max({a, b}) \in {a, b}
           /\ \A y \in {a, b} : Max({a, b}) >= y
  <1>1. \E x \in {a, b} : \A y \in {a, b} : x >= y
    <2>1. CASE a >= b  BY <2>1
    <2>2. CASE b >= a  BY <2>2
    <2> QED  BY <2>1, <2>2
  <1> QED  BY <1>1 DEF Max

\* More instances weigh more.
LEMMA WeightMonotone ==
    ASSUME NEW a \in Nat, NEW b \in Nat, a <= b
    PROVE  /\ Weight * a \in Nat /\ Weight * b \in Nat
           /\ Weight * a <= Weight * b
  <1>1. Weight \in Nat
    BY ConstantsAssumption
  <1>2. PICK d \in Nat : b = a + d
    <2>1. b - a \in Nat /\ b = a + (b - a)
      OBVIOUS
    <2> QED  BY <2>1
  <1>3. Weight * b = Weight * a + Weight * d
    BY <1>1, <1>2
  <1>4. Weight * a \in Nat /\ Weight * d \in Nat
    BY <1>1, <1>2
  <1> QED  BY <1>3, <1>4

\* Sets of jobs and of instances can be counted.
LEMMA JobsCount ==
    ASSUME NEW S \in SUBSET Jobs
    PROVE  IsFiniteSet(S) /\ Cardinality(S) \in Nat
  BY ConstantsAssumption, FS_Subset, FS_CardinalityType

LEMMA InstsCount ==
    ASSUME NEW S \in SUBSET Insts
    PROVE  IsFiniteSet(S) /\ Cardinality(S) \in Nat
  BY ConstantsAssumption, FS_Subset, FS_CardinalityType

LEMMA GroupCapacityType == GroupCapacity \in Nat
  <1>1. Cardinality({j \in Jobs : job[j].st \in {"Q", "R"}}) \in Nat
    BY JobsCount
  <1> QED  BY <1>1, WeightMonotone DEF GroupCapacity

\* A job that is to be provisioned asks for an instance.
LEMMA GroupCapacityPositive ==
    ASSUME NEW k \in Jobs, job[k].st \in {"Q", "R"}
    PROVE  GroupCapacity >= Weight
  <1> DEFINE asking == {j \in Jobs : job[j].st \in {"Q", "R"}}
  <1>1. asking # {}
    OBVIOUS
  <1>2. IsFiniteSet(asking) /\ Cardinality(asking) \in Nat
    BY JobsCount
  <1>3. Cardinality(asking) # 0
    BY <1>1, <1>2, FS_EmptySet
  <1>4. Weight * 1 <= Weight * Cardinality(asking)
    BY <1>2, <1>3, WeightMonotone
  <1>5. Weight * 1 = Weight
    BY ConstantsAssumption
  <1> QED  BY <1>4, <1>5 DEF GroupCapacity

LEMMA AvailableCapacityType ==
    ASSUME cached \subseteq Insts
    PROVE  AvailableCapacity \in Int
  <1> DEFINE free == {i \in cached : Free(i)}
  <1>1. Cardinality(free) \in Nat
    BY InstsCount
  <1>2. Cardinality({j \in Jobs : job[j].on \in free}) \in Nat
    BY JobsCount
  <1>3. Weight * Cardinality(free) \in Nat
    BY <1>1, WeightMonotone
  <1> QED  BY <1>2, <1>3 DEF AvailableCapacity

\* What is left over is not enough for a job.
LEMMA RestType ==
    ASSUME NEW a \in Int
    PROVE  Rest(a) \in Int /\ Rest(a) < Weight /\ (a \in Nat => Rest(a) \in Nat)
  <1>1. Weight \in Nat /\ Weight > 0
    BY ConstantsAssumption
  <1>2. a % Weight \in 0..(Weight - 1)
    BY <1>1
  <1> QED  BY <1>1, <1>2 DEF Rest

\* What the batch computes is a capacity, and not zero when there is none yet.
LEMMA TargetType ==
    ASSUME cached \subseteq Insts, NEW n \in Nat, NEW p \in Nat
    PROVE  /\ Target(n, p) \in Nat
           /\ (\E j \in Jobs : job[j].st \in {"Q", "R"}) /\ p = 0
                 => Target(n, p) > 0
  <1> DEFINE asked == \E j \in Jobs : job[j].st \in {"Q", "R"}
             most == GroupCapacity - Rest(AvailableCapacity)
  <1>1. AvailableCapacity \in Int /\ GroupCapacity \in Nat
    BY AvailableCapacityType, GroupCapacityType
  <1>2. /\ Rest(AvailableCapacity) \in Int /\ Rest(AvailableCapacity) < Weight
        /\ Weight \in Nat
    BY <1>1, RestType, ConstantsAssumption
  <1>3. Target(n, p) = IF Weight * n > AvailableCapacity
                       THEN Max({0, p, most})
                       ELSE IF p < GroupCapacity THEN GroupCapacity ELSE 0
    BY DEF Target
  <1>4. asked => GroupCapacity >= Weight
    BY GroupCapacityPositive
  <1>5. most \in Int /\ (asked => most > 0)
    BY <1>1, <1>2, <1>4
  <1> HIDE DEF most, asked
  <1>6. Max({0, p, most}) \in {0, p, most} /\ \A y \in {0, p, most} : Max({0, p, most}) >= y
    <2>1. 0 \in Int /\ p \in Int /\ most \in Int
      BY <1>5
    <2> QED  BY <2>1, MaxOfThree, Zenon
  <1>7. Max({0, p, most}) \in Nat /\ (asked => Max({0, p, most}) > 0)
    BY <1>5, <1>6
  <1>8. Weight > 0
    BY ConstantsAssumption
  <1> QED  BY <1>1, <1>2, <1>3, <1>4, <1>7, <1>8 DEF asked

LEMMA RemainingType ==
    ASSUME desired \in Nat, NEW n \in Nat
    PROVE  /\ Remaining(n) \in Nat
           /\ Remaining(n) <= desired
           /\ Remaining(n) >= desired - Weight * n
  <1> DEFINE left == desired - Weight * n
  <1>0. Weight * n \in Nat
    BY WeightMonotone
  <1>1. left \in Int /\ left <= desired
    BY <1>0
  <1>2. Remaining(n) = Max({0, left})
    BY DEF Remaining
  <1> HIDE DEF left
  <1>3. Max({0, left}) \in {0, left} /\ \A y \in {0, left} : Max({0, left}) >= y
    BY <1>1, MaxOfTwo
  <1>4. Remaining(n) \in Nat /\ Remaining(n) <= desired /\ Remaining(n) >= left
    BY <1>1, <1>2, <1>3
  <1> QED  BY <1>4 DEF left

-----------------------------------------------------------------------------
(* Types.                                                                   *)

\* The parts of TypeOK, by who writes them.
JobType == job \in [Jobs -> [st : {"new", "Q", "R", "F"}, prov : BOOLEAN,
                             on : Insts \cup {NoInst}]]
StackType == /\ stack \in {"none", "creating", "up", "deleting"}
             /\ desired \in Nat /\ (stack = "none" <=> desired = 0)
NodeType == /\ inst \subseteq Insts /\ cached \subseteq Insts /\ used \subseteq Insts
            /\ node \in [Insts -> {"none", "up", "bare", "offline"}]
ProvType == /\ prov \in [pc : {"idle", "batch", "update", "assign"},
                         batch : SUBSET Jobs, target : Nat]
            /\ prov.pc # "idle" => prov.batch # {}
HkType == hk \in [pc : {"idle", "check", "offline", "terminate", "scale",
                        "retry"}, cand : SUBSET Insts, gone : SUBSET Insts,
                  target : Nat, miscount : BOOLEAN]
HistoryType == late \subseteq Jobs /\ faults \in 0..MaxFaults

LEMMA Parts ==
    TypeOK <=> /\ JobType /\ StackType /\ NodeType /\ ProvType /\ HkType
               /\ HistoryType
  BY DEF TypeOK, JobType, StackType, NodeType, ProvType, HkType, HistoryType

\* A fault stays within its bound.
LEMMA FaultType ==
    ASSUME faults \in 0..MaxFaults, Fault \/ NoFault
    PROVE  faults' \in 0..MaxFaults
  BY ConstantsAssumption DEF Fault, NoFault

LEMMA InitType == Init => TypeOK
  BY ConstantsAssumption DEF Init, TypeOK, ProvIdle, HkIdle

\* The provisioner goes on with its batch, or ends it.
LEMMA ProvProceeds ==
    ASSUME ProvType, ProvUpdate \/ ProvAssign
    PROVE  ProvType' /\ prov'.pc \in {"idle", "assign"}
  <1>1. prov.pc # "idle"
    BY DEF ProvUpdate, ProvAssign
  <1>2. \/ prov' = ProvIdle
        \/ prov' = [prov EXCEPT !.pc = "assign"]
        \/ prov' = [prov EXCEPT !.pc = "assign", !.target = 0]
    BY DEF ProvUpdate, ProvAssign, TryFails
  <1>3. CASE prov' = ProvIdle
    BY <1>3 DEF ProvIdle, ProvType
  <1>4. CASE prov' = [prov EXCEPT !.pc = "assign"]
    BY <1>1, <1>4 DEF ProvType
  <1>5. CASE prov' = [prov EXCEPT !.pc = "assign", !.target = 0]
    BY <1>1, <1>5 DEF ProvType
  <1> QED  BY <1>2, <1>3, <1>4, <1>5

LEMMA ProvisionerTypes ==
    ASSUME TypeOK, Provisioner
    PROVE  TypeOK'
  <1>1. /\ UNCHANGED <<inst, cached, node, used, hk, late>>
        /\ NodeType' /\ HkType' /\ late' \subseteq Jobs
    BY Parts DEF Provisioner, ProvDrain, ProvStart, ProvUpdate, ProvAssign, NodeType, HkType,
                 HistoryType
  <1>2. CASE ProvDrain
    <2>1. ProvType'
      BY <1>2 DEF ProvDrain, ProvType, ProvIdle, Unprovisioned
    <2> QED
      BY <1>1, <1>2, <2>1 DEF ProvDrain, TypeOK, NodeType, ProvType, HkType
  <1>3. CASE ProvStart
    <2> DEFINE n == Cardinality(prov.batch)
    <2>0. n \in Nat /\ First(prov.batch) \in Jobs
      BY <1>3, Parts, JobsCount DEF ProvStart, ProvType, First
    <2> HIDE DEF n
    <2>1. ProvType'
      <3>1. CASE prov' = ProvIdle
        BY <3>1 DEF ProvType, ProvIdle
      <3>2. CASE prov' = [prov EXCEPT !.pc = "assign"]
        BY <1>3, <3>2, Parts DEF ProvType, ProvStart
      <3>3. CASE prov' = [prov EXCEPT !.pc = "update", !.target = Target(n, desired)]
        <4>1. Target(n, desired) \in Nat
          BY <2>0, Parts, TargetType DEF NodeType, StackType
        <4> QED  BY <1>3, <3>3, <4>1, Parts DEF ProvType, ProvStart
      <3> QED  BY <1>3, <3>1, <3>2, <3>3 DEF ProvStart, TryFails, n
    <2>2. StackType'
      <3>1. CASE /\ stack' = "creating"
                 /\ desired' = Target(n, 0)
                 /\ job[First(prov.batch)].st \in {"Q", "R"}
        <4>1. desired' \in Nat /\ desired' > 0
          BY <2>0, <3>1, Parts, TargetType DEF NodeType
        <4> QED  BY <3>1, <4>1 DEF StackType
      <3>2. CASE UNCHANGED <<stack, desired>>
        BY <3>2, Parts DEF StackType
      <3> QED  BY <1>3, <3>1, <3>2 DEF ProvStart, n
    <2> QED
      BY <1>1, <1>3, <2>1, <2>2 DEF ProvStart, TypeOK, StackType, NodeType,
                                    ProvType, HkType
  <1>4. CASE ProvUpdate
    <2>1. ProvType'
      BY <1>4, Parts, ProvProceeds
    <2>2. StackType'
      BY <1>4, Parts DEF ProvUpdate, ProvType, StackType
    <2>3. UNCHANGED <<job, late, faults>>
      BY <1>4 DEF ProvUpdate
    <2> QED
      BY <1>1, <2>1, <2>2, <2>3 DEF TypeOK, StackType, NodeType, ProvType, HkType
  <1>5. CASE ProvAssign
    <2>1. ProvType' /\ StackType'
      BY <1>5, Parts, ProvProceeds DEF ProvAssign, StackType
    <2>2. JobType'
      <3>1. PICK done : job' = [j \in Jobs |-> IF j \in done
                                               THEN [job[j] EXCEPT !.prov = TRUE]
                                               ELSE job[j]]
        BY <1>5 DEF ProvAssign
      <3> QED  BY <3>1, Parts DEF JobType
    <2>3. faults' \in 0..MaxFaults
      BY <1>5, Parts, FaultType DEF ProvAssign, HistoryType
    <2> QED
      BY <1>1, <2>1, <2>2, <2>3 DEF TypeOK, JobType, StackType, NodeType, ProvType,
                                    HkType
  <1> QED  BY <1>2, <1>3, <1>4, <1>5 DEF Provisioner

LEMMA EnvironmentTypes ==
    ASSUME TypeOK,
           \/ CloudFormation \/ AutoScaling \/ Submit
           \/ \E j \in Jobs : Delete(j) \/ Finish(j) \/ Requeue(j)
           \/ \E j \in Jobs, i \in Insts : PbsRun(j, i)
    PROVE  TypeOK'
  <1>1. CASE CloudFormation
    BY <1>1 DEF CloudFormation, StackCreated, StackDeleted, TypeOK
  <1>2. CASE AsgLaunch
    <2>1. inst' \subseteq Insts
      BY <1>2 DEF AsgLaunch, Unknown, TypeOK
    <2> QED  BY <1>2, <2>1 DEF AsgLaunch, TypeOK
  <1>3. ASSUME NEW i \in Insts, AsgTerminate(i)
        PROVE  TypeOK'
    BY <1>3 DEF AsgTerminate, TypeOK
  <1>4. CASE Submit
    <2>1. PICK j \in Jobs : job' = [job EXCEPT ![j].st = "Q"]
      BY <1>4 DEF Submit
    <2>2. JobType'
      BY <2>1, Parts DEF JobType
    <2> QED  BY <1>4, <2>2 DEF Submit, TypeOK, JobType
  <1>5. ASSUME NEW j \in Jobs, Delete(j) \/ Finish(j) \/ Requeue(j)
        PROVE  TypeOK'
    <2>1. JobType'
      BY <1>5, Parts DEF Delete, Finish, Requeue, JobType
    <2>2. faults' \in 0..MaxFaults
      BY <1>5, FaultType DEF Delete, Finish, Requeue, TypeOK
    <2> QED  BY <1>5, <2>1, <2>2 DEF Delete, Finish, Requeue, TypeOK, JobType
  <1>6. ASSUME NEW j \in Jobs, NEW i \in Insts, PbsRun(j, i)
        PROVE  TypeOK'
    <2>1. JobType'
      BY <1>6, Parts DEF PbsRun, JobType
    <2>2. late' \subseteq Jobs /\ used' \subseteq Insts
      BY <1>6 DEF PbsRun, TypeOK
    <2> QED  BY <1>6, <2>1, <2>2 DEF PbsRun, TypeOK, JobType
  <1> QED  BY <1>1, <1>2, <1>3, <1>4, <1>5, <1>6 DEF AutoScaling

LEMMA MonitorTypes ==
    ASSUME TypeOK, Refresh \/ NodeScan
    PROVE  TypeOK'
  <1>1. CASE Refresh  BY <1>1 DEF Refresh, TypeOK
  <1>2. CASE NodeScan
    <2>1. node' \in [Insts -> {"none", "up", "bare", "offline"}]
      BY <1>2 DEF NodeScan, TypeOK
    <2>2. faults' \in 0..MaxFaults
      BY <1>2, FaultType DEF NodeScan, TypeOK
    <2> QED  BY <1>2, <2>1, <2>2 DEF NodeScan, TypeOK
  <1> QED  BY <1>1, <1>2

LEMMA SessionTypes ==
    ASSUME TypeOK, HkPass1 \/ Session
    PROVE  TypeOK'
  <1>1. CASE HkPass1
    <2>1. HkType'
      <3>1. PICK over \in SUBSET Quiet :
               hk' = [HkIdle EXCEPT !.pc = "check", !.cand = over,
                                    !.gone = Quiet \ cached]
        BY <1>1 DEF HkPass1
      <3>2. over \subseteq Insts /\ Quiet \subseteq Insts
        BY DEF Quiet
      <3> QED  BY <3>1, <3>2 DEF HkType, HkIdle
    <2> QED  BY <1>1, <2>1 DEF HkPass1, TypeOK, HkType
  <1>2. CASE HkPass4Check
    <2>1. HkType'
      BY <1>2, Parts DEF HkPass4Check, HkType
    <2> QED  BY <1>2, <2>1 DEF HkPass4Check, TypeOK, HkType
  <1>3. CASE HkPass456
    <2>1. PICK off \in SUBSET hk.cand :
             /\ node' = [i \in Insts |-> IF i \in off THEN "offline" ELSE node[i]]
             /\ \/ /\ off = hk.cand /\ NoFault
                   /\ hk' = IF off = {} \/ stack = "none"
                            THEN [HkIdle EXCEPT !.pc = "terminate", !.gone = hk.gone]
                            ELSE [hk EXCEPT !.pc = "terminate",
                                    !.target = Remaining(Cardinality(off)),
                                    !.miscount = \/ ~(off \subseteq inst)
                                                 \/ Excess]
                   /\ UNCHANGED late
                \/ hk.cand # {} /\ Fault /\ HkAbort
      BY <1>3 DEF HkPass456
    <2>2. Remaining(Cardinality(off)) \in Nat
      <3>1. off \in SUBSET Insts  BY Parts DEF HkType
      <3> QED  BY <3>1, Parts, InstsCount, RemainingType DEF StackType
    <2>3. HkType' /\ late' \subseteq Jobs
      <3>1. CASE hk' = [HkIdle EXCEPT !.pc = "terminate", !.gone = hk.gone]
        BY <2>1, <3>1, Parts DEF HkType, HkIdle, HistoryType, HkAbort
      <3>2. CASE hk' = [hk EXCEPT !.pc = "terminate",
                          !.target = Remaining(Cardinality(off)),
                          !.miscount = \/ ~(off \subseteq inst)
                                       \/ Excess]
        BY <2>1, <2>2, <3>2, Parts DEF HkType, HistoryType, HkAbort
      <3>3. CASE HkAbort
        BY <3>3 DEF HkAbort, HkType, HkIdle
      <3> QED  BY <2>1, <3>1, <3>2, <3>3
    <2>4. NodeType'
      BY <1>3, <2>1, Parts DEF NodeType, HkPass456
    <2>5. faults' \in 0..MaxFaults
      BY <2>1, FaultType DEF TypeOK
    <2> QED
      BY <1>3, <2>3, <2>4, <2>5 DEF HkPass456, TypeOK, HkType, NodeType
  <1>4. CASE HkTerminate
    <2>1. HkType' /\ late' \subseteq Jobs
      <3>1. CASE HkAbort
        BY <3>1 DEF HkAbort, HkType, HkIdle
      <3>2. CASE hk' = [hk EXCEPT !.pc = "scale", !.gone = {}] /\ UNCHANGED late
        BY <3>2, Parts DEF HkType, HistoryType
      <3> QED  BY <1>4, <3>1, <3>2 DEF HkTerminate
    <2>2. NodeType'
      BY <1>4, Parts DEF HkTerminate, NodeType
    <2>3. faults' \in 0..MaxFaults
      BY <1>4, FaultType DEF HkTerminate, TypeOK
    <2> QED
      BY <1>4, <2>1, <2>2, <2>3 DEF HkTerminate, TypeOK, HkType, NodeType
  <1>5. CASE HkScale
    <2>1. HkType'
      <3>1. hk' = HkIdle \/ hk' = [HkIdle EXCEPT !.pc = "retry"]
        BY <1>5 DEF HkScale
      <3>2. CASE hk' = HkIdle
        BY <3>2 DEF HkType, HkIdle
      <3>3. CASE hk' = [HkIdle EXCEPT !.pc = "retry"]
        <4>1. hk' = [pc |-> "retry", cand |-> {}, gone |-> {}, target |-> 0,
                     miscount |-> FALSE]
          BY <3>3 DEF HkIdle
        <4> QED  BY <4>1 DEF HkType
      <3> QED  BY <3>1, <3>2, <3>3
    <2>2. StackType'
      <3>1. hk.target \in Nat
        BY Parts DEF HkType
      <3>2. \/ UNCHANGED <<stack, desired>>
            \/ UNCHANGED desired /\ stack' = IF stack = "none" THEN "none" ELSE "deleting"
            \/ UNCHANGED stack /\ stack = "up" /\ desired' = hk.target /\ hk.target > 0
        BY <1>5 DEF HkScale
      <3> QED  BY <3>1, <3>2, Parts DEF StackType
    <2>3. faults' \in 0..MaxFaults
      BY <1>5, FaultType DEF HkScale, TypeOK
    <2> QED  BY <1>5, <2>1, <2>2, <2>3 DEF HkScale, TypeOK, HkType, StackType
  <1>6. CASE HkRetry
    <2>1. JobType'
      BY <1>6, Parts DEF HkRetry, JobType
    <2>2. HkType'
      BY <1>6 DEF HkRetry, HkType, HkIdle
    <2> QED  BY <1>6, <2>1, <2>2 DEF HkRetry, TypeOK, JobType, HkType
  <1> QED  BY <1>1, <1>2, <1>3, <1>4, <1>5, <1>6 DEF Session

LEMMA StepType == TypeOK /\ [Next]_vars => TypeOK'
  <1> SUFFICES ASSUME TypeOK, [Next]_vars
               PROVE  TypeOK'
    OBVIOUS
  <1>1. CASE UNCHANGED vars
    BY <1>1 DEF vars, TypeOK
  <1> QED
    BY <1>1, ProvisionerTypes, EnvironmentTypes, MonitorTypes, SessionTypes DEF Next

\* The state of a group is well typed, and there is a desired capacity exactly
\* when there is a stack, for any number of jobs, instances and faults.
THEOREM TypeCorrect == Spec => []TypeOK
  BY InitType, StepType, PTL DEF Spec

-----------------------------------------------------------------------------
(* The capacity of a group.                                                 *)

\* What an action does to the jobs: none is unsubmitted, and only OpenPBS puts
\* one on a node.
LEMMA JobSteps ==
    ASSUME TypeOK, [Next]_vars, NEW j \in Jobs
    PROVE  /\ job[j].st # "new" => job'[j].st # "new"
           /\ \/ job'[j].on \in {job[j].on, NoInst}
              \/ \E i \in Insts : PbsRun(j, i) /\ job'[j].on = i
  <1>0. JobType
    BY Parts
  <1>1. CASE UNCHANGED job
    BY <1>1
  <1>2. CASE ProvAssign
    <2>1. PICK done : job' = [k \in Jobs |-> IF k \in done
                                             THEN [job[k] EXCEPT !.prov = TRUE]
                                             ELSE job[k]]
      BY <1>2 DEF ProvAssign
    <2> QED  BY <1>0, <2>1 DEF JobType
  <1>3. CASE HkRetry
    BY <1>0, <1>3 DEF HkRetry, JobType
  <1>4. CASE Submit
    <2>1. PICK k \in Jobs : job' = [job EXCEPT ![k].st = "Q"]
      BY <1>4 DEF Submit
    <2> QED  BY <1>0, <2>1 DEF JobType
  <1>5. ASSUME NEW k \in Jobs, Delete(k) \/ Finish(k) \/ Requeue(k)
        PROVE  /\ job[j].st # "new" => job'[j].st # "new"
               /\ job'[j].on \in {job[j].on, NoInst}
    BY <1>0, <1>5 DEF Delete, Finish, Requeue, JobType
  <1>6. ASSUME NEW k \in Jobs, NEW i \in Insts, PbsRun(k, i)
        PROVE  /\ job[j].st # "new" => job'[j].st # "new"
               /\ job'[j].on = job[j].on \/ (k = j /\ job'[j].on = i)
    BY <1>0, <1>6 DEF PbsRun, JobType
  <1>7. \/ UNCHANGED job
        \/ ProvAssign \/ HkRetry \/ Submit
        \/ \E k \in Jobs : Delete(k) \/ Finish(k) \/ Requeue(k)
        \/ \E k \in Jobs, i \in Insts : PbsRun(k, i)
    BY DEF Next, vars, Provisioner, ProvDrain, ProvStart, ProvUpdate, Refresh, NodeScan,
           HkPass1, Session, HkPass4Check, HkPass456, HkTerminate, HkScale,
           CloudFormation, StackCreated, StackDeleted, AutoScaling, AsgLaunch,
           AsgTerminate
  <1> QED  BY <1>1, <1>2, <1>3, <1>4, <1>5, <1>6, <1>7

Submitted == {j \in Jobs : job[j].st # "new"}

LEMMA SubmittedGrows ==
    ASSUME TypeOK, [Next]_vars
    PROVE  /\ Cardinality(Submitted) \in Nat /\ Cardinality(Submitted') \in Nat
           /\ Cardinality(Submitted) <= Cardinality(Submitted')
  <1>1. Submitted \in SUBSET Submitted' /\ Submitted' \in SUBSET Jobs
    BY JobSteps DEF Submitted
  <1>2. Submitted \in SUBSET Jobs
    BY DEF Submitted
  <1> QED  BY <1>1, <1>2, JobsCount, FS_Subset

\* A node that is free is not full with jobs, whatever they are.
LEMMA FreeIsNotFull ==
    ASSUME NEW i, ~Busy(i)
    PROVE  ~StillFull(i)
  <1> DEFINE all == JobsOn(i)
             old == JobsOn(i) \ late
  <1>1. all \in SUBSET Jobs /\ old \subseteq all
    BY DEF JobsOn
  <1>2. (Busy(i) <=> Cardinality(all) >= Slots) /\ (StillFull(i) <=> Cardinality(old) >= Slots)
    BY DEF Busy, StillFull
  <1> HIDE DEF all, old
  <1>3. /\ IsFiniteSet(all) /\ Cardinality(all) \in Nat /\ Cardinality(old) \in Nat
        /\ Cardinality(old) <= Cardinality(all)
    BY <1>1, JobsCount, FS_Subset
  <1> QED  BY <1>2, <1>3, ConstantsAssumption

\* The jobs of a node that is free can each be given a unit of its weight.
LEMMA FreeHasRoom ==
    ASSUME Slots <= Weight + 1, NEW i, ~Busy(i)
    PROVE  Injection(JobsOn(i), 1..Weight) # {}
  <1> DEFINE n == Cardinality(JobsOn(i))
  <1>1. n \in Nat /\ ExistsBijection(1..n, JobsOn(i))
    BY JobsCount, FS_CardinalityType DEF JobsOn
  <1>2. n <= Weight /\ Weight \in Nat
    BY <1>1, ConstantsAssumption DEF Busy
  <1>3. PICK f : f \in Bijection(JobsOn(i), 1..n)
    BY <1>1, Fun_ExistsBijSymmetric DEF ExistsBijection
  <1>4. 1..n \subseteq 1..Weight
    BY <1>1, <1>2
  <1>5. f \in Injection(JobsOn(i), 1..Weight)
    BY <1>3, <1>4 DEF Bijection, Injection, IsInjective
  <1> QED  BY <1>5

\* So there are no more jobs on free nodes than these nodes weigh: the available
\* capacity is never negative.
LEMMA AvailableNotNegative ==
    ASSUME Slots <= Weight + 1, cached \subseteq Insts
    PROVE  AvailableCapacity \in Nat
  <1> DEFINE free == {i \in cached : Free(i)}
             onFree == {j \in Jobs : job[j].on \in free}
             seats == free \X (1..Weight)
             seat == [i \in free |-> CHOOSE f : f \in Injection(JobsOn(i), 1..Weight)]
             at == [j \in onFree |-> <<job[j].on, seat[job[j].on][j]>>]
  <1>1. IsFiniteSet(free) /\ Cardinality(free) \in Nat /\ Weight \in Nat
    BY InstsCount, ConstantsAssumption
  <1>2. Cardinality(onFree) \in Nat
    BY JobsCount
  <1>3. IsFiniteSet(seats) /\ Cardinality(seats) = Cardinality(free) * Weight
    <2>1. IsFiniteSet(1..Weight) /\ Cardinality(1..Weight) = Weight
      BY <1>1, FS_Interval, ConstantsAssumption
    <2> HIDE DEF free
    <2> QED  BY <1>1, <2>1, FS_Product
  <1>4. \A i \in free : seat[i] \in Injection(JobsOn(i), 1..Weight)
    <2> TAKE i \in free
    <2>1. ~Busy(i)
      BY DEF Free
    <2>2. \E f : f \in Injection(JobsOn(i), 1..Weight)
      BY <2>1, FreeHasRoom
    <2> QED  BY <2>2
  <1>5. \A j \in onFree : j \in JobsOn(job[j].on) /\ job[j].on \in free
    BY DEF JobsOn
  <1> HIDE DEF seat, free
  <1>6. at \in [onFree -> seats]
    <2> SUFFICES ASSUME NEW j \in onFree
                 PROVE  <<job[j].on, seat[job[j].on][j]>> \in seats
      OBVIOUS
    <2> QED  BY <1>4, <1>5 DEF Injection
  <1>7. \A j, k \in onFree : at[j] = at[k] => j = k
    <2> TAKE j, k \in onFree
    <2> HAVE at[j] = at[k]
    <2>1. job[j].on = job[k].on /\ seat[job[j].on][j] = seat[job[j].on][k]
      OBVIOUS
    <2>2. job[j].on \in free /\ {j, k} \subseteq JobsOn(job[j].on)
      BY <1>5, <2>1
    <2> QED  BY <1>4, <2>1, <2>2 DEF Injection, IsInjective
  <1>8. at \in Injection(onFree, seats)
    <2> HIDE DEF at, onFree, seats
    <2> QED  BY <1>6, <1>7 DEF Injection, IsInjective
  <1>9. Cardinality(onFree) <= Cardinality(seats)
    <2> HIDE DEF at, onFree, seats
    <2> QED  BY <1>3, <1>8, FS_Injection
  <1>10. Weight * Cardinality(free) \in Nat /\ Cardinality(free) * Weight = Weight * Cardinality(free)
    BY <1>1, WeightMonotone
  <1> QED  BY <1>2, <1>3, <1>9, <1>10 DEF AvailableCapacity, free

\* The capacity that the submitted jobs ask for.
Asked == Weight * Cardinality(Submitted)

LEMMA AskedGrows ==
    ASSUME TypeOK, [Next]_vars
    PROVE  Asked \in Nat /\ Asked' \in Nat /\ Asked <= Asked'
  <1>1. Asked' = Weight * Cardinality(Submitted')
    BY DEF Asked
  <1> QED  BY <1>1, SubmittedGrows, WeightMonotone DEF Asked

\* A batch asks for no more than the jobs of the group and the capacity that is
\* there already.
LEMMA TargetBounded ==
    ASSUME Slots <= Weight + 1, TypeOK, NEW n \in Nat, NEW p \in Nat, p <= Asked
    PROVE  Target(n, p) <= Asked
  <1>1. Asked \in Nat /\ GroupCapacity \in Nat /\ GroupCapacity <= Asked
    <2> DEFINE asking == {j \in Jobs : job[j].st \in {"Q", "R"}}
    <2>1. asking \in SUBSET Submitted /\ asking \in SUBSET Jobs
      BY DEF Submitted
    <2>2. Submitted \in SUBSET Jobs
      BY DEF Submitted
    <2>3. /\ Cardinality(asking) \in Nat /\ Cardinality(Submitted) \in Nat
          /\ Cardinality(asking) <= Cardinality(Submitted)
      BY <2>1, <2>2, JobsCount, FS_Subset
    <2> QED  BY <2>3, WeightMonotone DEF GroupCapacity, Asked
  <1> DEFINE most == GroupCapacity - Rest(AvailableCapacity)
  <1>2. Rest(AvailableCapacity) \in Nat
    BY AvailableNotNegative, RestType DEF TypeOK
  <1>3. Target(n, p) = IF Weight * n > AvailableCapacity
                       THEN Max({0, p, most})
                       ELSE IF p < GroupCapacity THEN GroupCapacity ELSE 0
    BY DEF Target
  <1>4. most \in Int /\ most <= GroupCapacity
    BY <1>1, <1>2
  <1> HIDE DEF most
  <1>5. Max({0, p, most}) \in {0, p, most}
    <2>1. 0 \in Int /\ p \in Int /\ most \in Int
      BY <1>4
    <2> QED  BY <2>1, MaxOfThree, Zenon
  <1> QED  BY <1>1, <1>3, <1>4, <1>5

\* The strengthening of CapacityBounded: what the provisioner and the session
\* have computed, and may write later, is bounded too.
CapacityInv ==
    /\ desired <= Asked
    /\ prov.pc = "update" => prov.target <= Asked
    /\ hk.pc = "scale" \/ hk.pc = "terminate" => hk.target <= Asked

LEMMA CapacityStep ==
    ASSUME Slots <= Weight + 1, TypeOK, CapacityInv, [Next]_vars
    PROVE  CapacityInv'
  <1>1. Asked \in Nat /\ Asked' \in Nat /\ Asked <= Asked'
    BY AskedGrows
  <1>2. desired \in Nat /\ prov.target \in Nat /\ hk.target \in Nat
    BY Parts DEF StackType, ProvType, HkType
  <1>3. \/ desired' = desired \/ desired' <= Asked
    <2>1. CASE ProvStart
      <3>1. Cardinality(prov.batch) \in Nat
        BY Parts, JobsCount DEF ProvType
      <3>2. Target(Cardinality(prov.batch), 0) <= Asked
        BY <1>1, <3>1, TargetBounded
      <3> QED  BY <2>1, <3>2 DEF ProvStart
    <2>2. CASE ProvUpdate
      BY <2>2 DEF ProvUpdate, CapacityInv
    <2>3. CASE StackDeleted
      BY <1>1, <2>3 DEF StackDeleted
    <2>4. CASE HkScale
      BY <2>4 DEF HkScale, CapacityInv
    <2>5. CASE UNCHANGED desired
      BY <2>5
    <2> QED
      BY <2>1, <2>2, <2>3, <2>4, <2>5
      DEF Next, vars, Provisioner, ProvAssign, Refresh, NodeScan, HkPass1, Session,
          HkPass4Check, HkPass456, HkTerminate, HkRetry, CloudFormation, StackCreated,
          ProvDrain, AutoScaling, AsgLaunch, AsgTerminate, Submit, Delete, Finish, Requeue, PbsRun
  <1>4. prov'.pc = "update" => prov'.target <= Asked
    <2>1. CASE ProvStart
      <3> DEFINE new == Target(Cardinality(prov.batch), desired)
      <3>1. Cardinality(prov.batch) \in Nat
        BY Parts, JobsCount DEF ProvType
      <3>2. new <= Asked
        BY <1>2, <3>1, TargetBounded DEF CapacityInv
      <3>3. \/ prov' = ProvIdle \/ prov' = [prov EXCEPT !.pc = "assign"]
            \/ prov' = [prov EXCEPT !.pc = "update", !.target = new]
        BY <2>1 DEF ProvStart, TryFails
      <3> HIDE DEF new
      <3>4. CASE prov' = ProvIdle
        BY <3>4 DEF ProvIdle
      <3>5. CASE prov' = [prov EXCEPT !.pc = "assign"]
        BY <3>5, Parts DEF ProvType
      <3>6. CASE prov' = [prov EXCEPT !.pc = "update", !.target = new]
        BY <3>2, <3>6, Parts DEF ProvType
      <3> QED  BY <3>3, <3>4, <3>5, <3>6
    <2>2. CASE ProvDrain \/ ProvUpdate \/ ProvAssign
      <3>1. prov'.pc # "update"
        <4>1. CASE ProvDrain
          <5>1. prov'.pc = "batch"
            BY <4>1 DEF ProvDrain, ProvIdle
          <5> QED  BY <5>1
        <4>2. CASE ProvUpdate \/ ProvAssign
          <5>1. prov'.pc \in {"idle", "assign"}
            BY <4>2, Parts, ProvProceeds
          <5> QED  BY <5>1
        <4> QED  BY <2>2, <4>1, <4>2
      <3> QED  BY <3>1
    <2>3. CASE UNCHANGED prov
      BY <2>3 DEF CapacityInv
    <2> QED
      BY <2>1, <2>2, <2>3
      DEF Next, vars, Provisioner, Refresh, NodeScan, HkPass1, Session,
          HkPass4Check, HkPass456, HkTerminate, HkScale, HkRetry, CloudFormation,
          StackCreated, StackDeleted, AutoScaling, AsgLaunch, AsgTerminate, Submit,
          Delete, Finish, Requeue, PbsRun
  <1>5. hk'.pc = "scale" \/ hk'.pc = "terminate" => hk'.target <= Asked
    <2>1. CASE HkPass456
      <3>1. PICK off \in SUBSET hk.cand :
               \/ hk' = [HkIdle EXCEPT !.pc = "terminate", !.gone = hk.gone]
               \/ hk' = [hk EXCEPT !.pc = "terminate",
                           !.target = Remaining(Cardinality(off)),
                           !.miscount = ~(off \subseteq inst) \/ Excess]
               \/ hk' = HkIdle
        BY <2>1 DEF HkPass456, HkAbort
      <3>2. Cardinality(off) \in Nat
        <4>1. off \in SUBSET Insts  BY Parts DEF HkType
        <4> QED  BY <4>1, InstsCount
      <3>3. Remaining(Cardinality(off)) \in Nat /\ Remaining(Cardinality(off)) <= desired
        BY <1>2, <3>2, RemainingType
      <3>4. \/ hk'.target = 0 \/ hk'.target = Remaining(Cardinality(off))
        <4>1. CASE hk' = HkIdle
          BY <4>1 DEF HkIdle
        <4>2. CASE hk' = [HkIdle EXCEPT !.pc = "terminate", !.gone = hk.gone]
          BY <4>2 DEF HkIdle
        <4>3. CASE hk' = [hk EXCEPT !.pc = "terminate",
                            !.target = Remaining(Cardinality(off)),
                            !.miscount = ~(off \subseteq inst) \/ Excess]
          <5> DEFINE left == Remaining(Cardinality(off))
                     odd == ~(off \subseteq inst) \/ Excess
          <5>1. hk' = [hk EXCEPT !.pc = "terminate", !.target = left, !.miscount = odd]
            BY <4>3
          <5> HIDE DEF left, odd
          <5>2. hk'.target = left
            BY <5>1, Parts DEF HkType
          <5> QED  BY <5>2 DEF left
        <4> QED  BY <3>1, <4>1, <4>2, <4>3
      <3> QED  BY <1>1, <1>2, <3>3, <3>4 DEF CapacityInv
    <2>2. CASE HkTerminate
      <3>1. hk' = HkIdle \/ (hk' = [hk EXCEPT !.pc = "scale", !.gone = {}] /\ hk.pc = "terminate")
        BY <2>2 DEF HkTerminate, HkAbort
      <3>2. CASE hk' = HkIdle
        BY <3>2 DEF HkIdle
      <3>3. CASE hk' = [hk EXCEPT !.pc = "scale", !.gone = {}] /\ hk.pc = "terminate"
        <4>1. hk'.target = hk.target
          BY <3>3, Parts DEF HkType
        <4> QED  BY <3>3, <4>1 DEF CapacityInv
      <3> QED  BY <3>1, <3>2, <3>3
    <2>3. CASE HkPass1 \/ HkPass4Check \/ HkScale \/ HkRetry
      <3>1. hk'.pc \notin {"scale", "terminate"}
        <4>1. CASE HkPass1
          <5>1. PICK over : hk' = [HkIdle EXCEPT !.pc = "check", !.cand = over,
                                                 !.gone = Quiet \ cached]
            BY <4>1 DEF HkPass1
          <5> QED  BY <5>1 DEF HkIdle
        <4>2. CASE HkPass4Check
          BY <4>2, Parts DEF HkPass4Check, HkType
        <4>3. CASE HkScale \/ HkRetry
          <5>1. hk' = HkIdle \/ hk' = [HkIdle EXCEPT !.pc = "retry"]
            BY <4>3 DEF HkScale, HkRetry
          <5> QED  BY <5>1 DEF HkIdle
        <4> QED  BY <2>3, <4>1, <4>2, <4>3
      <3> QED  BY <3>1
    <2>4. CASE UNCHANGED hk
      BY <2>4 DEF CapacityInv
    <2> QED
      BY <2>1, <2>2, <2>3, <2>4
      DEF Next, vars, Provisioner, ProvDrain, ProvStart, ProvUpdate, ProvAssign, Refresh, NodeScan,
          Session, CloudFormation, StackCreated, StackDeleted, AutoScaling, AsgLaunch,
          AsgTerminate, Submit, Delete, Finish, Requeue, PbsRun
  <1>6. desired' \in Nat /\ prov'.target \in Nat /\ hk'.target \in Nat
    <2>1. TypeOK'  BY StepType
    <2> QED  BY <2>1 DEF TypeOK
  <1> QED  BY <1>1, <1>2, <1>3, <1>4, <1>5, <1>6 DEF CapacityInv

\* A group never asks for more capacity than the jobs submitted to it did, for any
\* number of jobs, instances and faults, when a node is free with no more jobs than
\* it weighs.  Where it may have more, find_available_capacity counts below zero,
\* and compute_batch_capacity asks for what is missing on top.
THEOREM CapacityIsBounded ==
    ASSUME Slots <= Weight + 1
    PROVE  Spec => []CapacityBounded
  <1>1. Init => CapacityInv
    <2> SUFFICES ASSUME Init PROVE CapacityInv
      OBVIOUS
    <2>1. Submitted = {}
      BY DEF Init, Submitted
    <2>2. Asked = 0
      BY <2>1, FS_EmptySet, ConstantsAssumption DEF Asked
    <2> QED  BY <2>2 DEF Init, CapacityInv, ProvIdle, HkIdle
  <1>2. TypeOK /\ CapacityInv /\ [Next]_vars => CapacityInv'
    BY CapacityStep
  <1>3. CapacityInv => CapacityBounded
    BY DEF CapacityInv, CapacityBounded, Asked, Submitted
  <1> QED  BY <1>1, <1>2, <1>3, TypeCorrect, PTL DEF Spec

-----------------------------------------------------------------------------
(* No session ends a job it could have seen.                                *)

\* Only OpenPBS puts a job on an instance.
LEMMA NewOnNode ==
    ASSUME TypeOK, [Next]_vars, NEW i \in Insts, NEW j \in JobsOn(i)'
    PROVE  j \in JobsOn(i) \/ PbsRun(j, i)
  <1>1. j \in Jobs /\ job'[j].on = i /\ i # NoInst
    BY ConstantsAssumption DEF JobsOn
  <1>2. \/ job'[j].on \in {job[j].on, NoInst}
        \/ \E k \in Insts : PbsRun(j, k) /\ job'[j].on = k
    BY <1>1, JobSteps
  <1> QED  BY <1>1, <1>2 DEF JobsOn

Acting == hk.pc \in {"offline", "terminate", "scale"}

\* A job on a node has a node.
NodesHaveJobs == \A i \in Insts : JobsOn(i) # {} => node[i] # "none"

\* From pass4 on no candidate is full with jobs that ran then.
CandidatesQuiet == Acting => \A i \in hk.cand : ~StillFull(i)

\* A session that is going to delete the stack, having counted right, has all
\* instances for candidates: none is full but with jobs started since.
StackQuiet ==
    /\ hk.pc \in {"terminate", "scale"}
    /\ hk.cand # {} /\ hk.target = 0 /\ ~hk.miscount
    => \A i \in inst : ~StillFull(i)

QuietInv == NodesHaveJobs /\ CandidatesQuiet /\ StackQuiet

LEMMA NodesStep ==
    ASSUME TypeOK, NodesHaveJobs, [Next]_vars
    PROVE  NodesHaveJobs'
  <1> SUFFICES ASSUME NEW i \in Insts, NEW j \in JobsOn(i)'
               PROVE  node'[i] # "none"
    BY DEF NodesHaveJobs
  <1>0. NodeType
    BY Parts
  <1>1. CASE PbsRun(j, i)
    BY <1>1 DEF PbsRun
  <1>2. CASE j \in JobsOn(i)
    <2>1. node[i] # "none"
      BY <1>2 DEF NodesHaveJobs
    <2>2. CASE UNCHANGED node
      BY <2>1, <2>2
    <2>3. CASE NodeScan
      BY <1>0, <2>1, <2>3 DEF NodeScan, NodeType
    <2>4. CASE HkPass456
      BY <1>0, <2>1, <2>4 DEF HkPass456, NodeType
    <2>5. CASE HkTerminate
      BY <1>0, <1>2, <2>1, <2>5 DEF HkTerminate, NodeType
    <2> QED
      BY <2>2, <2>3, <2>4, <2>5
      DEF Next, vars, Provisioner, ProvDrain, ProvStart, ProvUpdate, ProvAssign, Refresh,
          HkPass1, Session, HkPass4Check, HkScale, HkRetry, CloudFormation,
          StackCreated, StackDeleted, AutoScaling, AsgLaunch, AsgTerminate, Submit,
          Delete, Finish, Requeue, PbsRun
  <1> QED  BY <1>1, <1>2, NewOnNode

\* A node that loses jobs, or gets only new ones, is no fuller than before.
LEMMA FewerJobs ==
    ASSUME NEW i \in Insts, ~StillFull(i), (JobsOn(i) \ late)' \subseteq JobsOn(i) \ late
    PROVE  ~StillFull(i)'
  <1> DEFINE before == JobsOn(i) \ late
             after == (JobsOn(i) \ late)'
  <1>1. before \in SUBSET Jobs /\ after \subseteq before
    BY DEF JobsOn
  <1>2. StillFull(i)' <=> Cardinality(after) >= Slots
    BY DEF StillFull
  <1> HIDE DEF after
  <1>3. /\ IsFiniteSet(before) /\ Cardinality(before) \in Nat
        /\ Cardinality(after) \in Nat /\ Cardinality(after) <= Cardinality(before)
    BY <1>1, JobsCount, FS_Subset
  <1>4. Cardinality(before) < Slots /\ Slots \in Nat
    BY <1>3, ConstantsAssumption DEF StillFull
  <1> HIDE DEF before
  <1> QED  BY <1>2, <1>3, <1>4

\* While the session waits, what is started on its candidates is counted.
LEMMA WaitingStep ==
    ASSUME TypeOK, [Next]_vars, UNCHANGED hk, Acting, hk.cand # {}, late \subseteq late',
           NEW i \in Insts, ~StillFull(i)
    PROVE  ~StillFull(i)'
  <1>1. ASSUME NEW j \in JobsOn(i)', j \notin late'
        PROVE  j \in JobsOn(i) \ late
    <2>1. ~PbsRun(j, i)
      BY <1>1 DEF PbsRun, Acting
    <2> QED  BY <1>1, <2>1, NewOnNode
  <1> QED  BY <1>1, FewerJobs

\* A node without jobs is not full.
LEMMA EmptyNotFull ==
    ASSUME NEW i, JobsOn(i) = {}
    PROVE  ~StillFull(i)
  <1>1. Cardinality(JobsOn(i) \ late) = 0
    BY FS_EmptySet
  <1> QED  BY <1>1, ConstantsAssumption DEF StillFull

\* The steps of the others leave the session alone, and forget no job.
Others ==
    \/ Provisioner \/ Refresh \/ NodeScan \/ CloudFormation \/ AutoScaling \/ Submit
    \/ \E j \in Jobs : Delete(j) \/ Finish(j) \/ Requeue(j)
    \/ \E j \in Jobs, i \in Insts : PbsRun(j, i)
    \/ UNCHANGED vars

LEMMA OthersStep ==
    ASSUME TypeOK, QuietInv, [Next]_vars, Others
    PROVE  CandidatesQuiet' /\ StackQuiet'
  <1>1. UNCHANGED hk /\ late \subseteq late'
    BY DEF Others, vars, Provisioner, ProvDrain, ProvStart, ProvUpdate, ProvAssign, Refresh,
           NodeScan, CloudFormation, StackCreated, StackDeleted, AutoScaling,
           AsgLaunch, AsgTerminate, Submit, Delete, Finish, Requeue, PbsRun
  <1>2. hk.cand \subseteq Insts /\ inst \subseteq Insts
    BY DEF TypeOK
  <1>3. CandidatesQuiet'
    <2> SUFFICES ASSUME Acting, NEW i \in hk.cand
                 PROVE  ~StillFull(i)'
      BY <1>1 DEF CandidatesQuiet, Acting
    <2>1. ~StillFull(i)
      BY DEF QuietInv, CandidatesQuiet
    <2> QED  BY <1>1, <1>2, <2>1, WaitingStep
  <1>4. StackQuiet'
    <2> SUFFICES ASSUME hk.pc \in {"terminate", "scale"},
                        hk.cand # {}, hk.target = 0, ~hk.miscount,
                        NEW i \in inst'
                 PROVE  ~StillFull(i)'
      BY <1>1 DEF StackQuiet
    <2>1. i \in inst \/ (i \in Insts /\ node[i] = "none")
      BY DEF Others, vars, Provisioner, ProvDrain, ProvStart, ProvUpdate, ProvAssign, Refresh,
             NodeScan, CloudFormation, StackCreated, StackDeleted, AutoScaling,
             AsgLaunch, AsgTerminate, Submit, Delete, Finish, Requeue, PbsRun, Unknown
    <2>2. ~StillFull(i)
      BY <2>1, EmptyNotFull DEF QuietInv, StackQuiet, NodesHaveJobs
    <2> QED  BY <1>1, <1>2, <2>1, <2>2, WaitingStep DEF Acting
  <1> QED  BY <1>3, <1>4

\* A session that is not past pass4, or is past cleanup, ends nothing.
LEMMA IdleIsQuiet ==
    ASSUME hk'.pc \notin {"offline", "terminate", "scale"}
    PROVE  CandidatesQuiet' /\ StackQuiet'
  BY DEF CandidatesQuiet, StackQuiet, Acting

\* pass5 and pass6: the desired capacity left is zero only when every instance
\* is a candidate, unless the capacity it is computed from is not the group's.
LEMMA NothingRemains ==
    ASSUME TypeOK, NEW off \in SUBSET inst, ~Excess,
           Remaining(Cardinality(off)) = 0
    PROVE  inst = off
  <1>1. inst \in SUBSET Insts /\ off \in SUBSET Insts /\ desired \in Nat
    BY DEF TypeOK
  <1>2. /\ IsFiniteSet(inst) /\ Cardinality(inst) \in Nat
        /\ IsFiniteSet(off) /\ Cardinality(off) \in Nat
    BY <1>1, InstsCount
  <1>3. 0 >= desired - Weight * Cardinality(off)
    BY <1>1, <1>2, RemainingType
  <1>4. Cardinality(off) <= Cardinality(inst)
    BY <1>2, FS_Subset
  <1>5. ASSUME Cardinality(off) < Cardinality(inst)
        PROVE  FALSE
    <2> DEFINE fewer == Cardinality(inst) - 1
    <2>1. fewer \in Nat /\ Cardinality(off) <= fewer
      BY <1>2, <1>5
    <2>2. /\ Weight * Cardinality(off) \in Nat /\ Weight * fewer \in Nat
          /\ Weight * Cardinality(off) <= Weight * fewer
      BY <1>2, <2>1, WeightMonotone
    <2>3. ~(Weight * fewer >= desired)
      BY DEF Excess
    <2> HIDE DEF fewer
    <2> QED  BY <1>1, <1>3, <2>2, <2>3
  <1>6. Cardinality(inst) = Cardinality(off)
    BY <1>2, <1>4, <1>5
  <1> QED  BY <1>2, <1>6, FS_Subset

LEMMA SessionStep ==
    ASSUME TypeOK, QuietInv, HkPass1 \/ Session
    PROVE  CandidatesQuiet' /\ StackQuiet'
  <1>0. HkType
    BY Parts
  <1>1. CASE HkPass1
    <2>1. PICK over : hk' = [HkIdle EXCEPT !.pc = "check", !.cand = over,
                                           !.gone = Quiet \ cached]
      BY <1>1 DEF HkPass1
    <2>2. hk'.pc = "check"
      BY <2>1 DEF HkIdle
    <2> QED  BY <2>2, IdleIsQuiet
  <1>2. CASE HkPass4Check
    <2>1. /\ hk'.pc = "offline"
          /\ hk'.cand = {i \in hk.cand : node[i] # "none" /\ ~Busy(i)}
      BY <1>0, <1>2 DEF HkPass4Check, HkType
    <2>2. ASSUME NEW i \in hk'.cand
          PROVE  ~StillFull(i)'
      <3>1. i \in Insts /\ ~Busy(i)
        BY <1>0, <2>1 DEF HkType
      <3>2. UNCHANGED <<job, late>>
        BY <1>2 DEF HkPass4Check
      <3>3. ~StillFull(i)
        BY <3>1, FreeIsNotFull
      <3> QED  BY <3>2, <3>3 DEF StillFull, JobsOn
    <2> QED  BY <2>1, <2>2 DEF CandidatesQuiet, StackQuiet
  <1>3. CASE HkPass456
    <2>1. PICK off \in SUBSET hk.cand :
             \/ /\ off = hk.cand /\ UNCHANGED late
                /\ hk' = IF off = {} \/ stack = "none"
                         THEN [HkIdle EXCEPT !.pc = "terminate", !.gone = hk.gone]
                         ELSE [hk EXCEPT !.pc = "terminate",
                                 !.target = Remaining(Cardinality(off)),
                                 !.miscount = ~(off \subseteq inst) \/ Excess]
             \/ HkAbort
      BY <1>3 DEF HkPass456
    <2>2. hk.pc = "offline" /\ UNCHANGED <<job, inst>>
      BY <1>3 DEF HkPass456
    <2>3. CASE HkAbort
      <3>1. hk'.pc = "idle"
        BY <2>3 DEF HkAbort, HkIdle
      <3> QED  BY <3>1, IdleIsQuiet
    <2>4. CASE hk' = [HkIdle EXCEPT !.pc = "terminate", !.gone = hk.gone]
      <3>1. hk'.cand = {}
        BY <2>4 DEF HkIdle
      <3> QED  BY <3>1 DEF CandidatesQuiet, StackQuiet
    <2>5. CASE /\ off = hk.cand /\ UNCHANGED late
               /\ hk' = [hk EXCEPT !.pc = "terminate",
                            !.target = Remaining(Cardinality(off)),
                            !.miscount = ~(off \subseteq inst) \/ Excess]
      <3> DEFINE left == Remaining(Cardinality(off))
                 odd == ~(off \subseteq inst) \/ Excess
      <3>1. hk' = [hk EXCEPT !.pc = "terminate", !.target = left, !.miscount = odd]
        BY <2>5
      <3>2. /\ hk'.cand = off
            /\ hk'.target = Remaining(Cardinality(off))
            /\ ~hk'.miscount => off \subseteq inst /\ ~Excess
        <4> HIDE DEF left, odd
        <4>1. hk'.cand = hk.cand /\ hk'.target = left /\ hk'.miscount = odd
          BY <1>0, <3>1 DEF HkType
        <4>2. ~odd => off \subseteq inst /\ ~Excess
          BY DEF odd
        <4> QED  BY <2>5, <4>1, <4>2 DEF left
      <3>3. \A i \in hk.cand : ~StillFull(i)'
        BY <2>2, <2>5 DEF QuietInv, CandidatesQuiet, Acting, StillFull, JobsOn
      <3>4. ASSUME hk'.target = 0, ~hk'.miscount
            PROVE  inst' = hk'.cand
        BY <2>2, <3>2, <3>4, NothingRemains
      <3> QED  BY <2>5, <3>2, <3>3, <3>4 DEF CandidatesQuiet, StackQuiet
    <2> QED  BY <2>1, <2>3, <2>4, <2>5
  <1>4. CASE HkTerminate
    <2>1. /\ hk.pc = "terminate" /\ inst' \subseteq inst /\ UNCHANGED job
          /\ \/ HkAbort
             \/ hk' = [hk EXCEPT !.pc = "scale", !.gone = {}] /\ UNCHANGED late
      BY <1>4 DEF HkTerminate
    <2>2. CASE HkAbort
      <3>1. hk'.pc = "idle"
        BY <2>2 DEF HkAbort, HkIdle
      <3> QED  BY <3>1, IdleIsQuiet
    <2>3. CASE hk' = [hk EXCEPT !.pc = "scale", !.gone = {}] /\ UNCHANGED late
      <3>1. /\ hk'.pc = "scale" /\ hk'.cand = hk.cand
            /\ hk'.target = hk.target /\ hk'.miscount = hk.miscount
        BY <1>0, <2>3 DEF HkType
      <3>2. \A i : StillFull(i)' = StillFull(i)
        BY <2>1, <2>3 DEF StillFull, JobsOn
      <3> QED
        BY <2>1, <2>3, <3>1, <3>2 DEF QuietInv, CandidatesQuiet, StackQuiet, Acting
    <2> QED  BY <2>1, <2>2, <2>3
  <1>5. CASE HkScale \/ HkRetry
    <2>1. hk' = HkIdle \/ hk' = [HkIdle EXCEPT !.pc = "retry"]
      BY <1>5 DEF HkScale, HkRetry
    <2>2. hk'.pc \in {"idle", "retry"}
      BY <2>1 DEF HkIdle
    <2> QED  BY <2>2, IdleIsQuiet
  <1> QED  BY <1>1, <1>2, <1>3, <1>4, <1>5 DEF Session

LEMMA QuietStep ==
    ASSUME TypeOK, QuietInv, [Next]_vars
    PROVE  QuietInv'
  <1>1. NodesHaveJobs'
    BY NodesStep DEF QuietInv
  <1>2. Others \/ HkPass1 \/ Session
    BY DEF Next, Others
  <1> QED  BY <1>1, <1>2, OthersStep, SessionStep DEF QuietInv

\* No session ends a node that was full with jobs when pass4 looked and still is,
\* with the instance or with the stack, unless it has miscounted: for any number
\* of jobs, of jobs on a node, of instances and of faults.
THEOREM BusyNodesAreSafe == Spec => BusyNodesSurvive
  <1>1. Init => QuietInv
    BY ConstantsAssumption
    DEF Init, QuietInv, NodesHaveJobs, CandidatesQuiet, StackQuiet, Acting, JobsOn,
        HkIdle
  <1>2. TypeOK /\ QuietInv /\ [Next]_vars => QuietInv'
    BY QuietStep
  <1>3. TypeOK /\ QuietInv /\ [Next]_vars =>
           [/\ HkTerminate => \A i \in inst \ inst' : ~StillFull(i)
            /\ HkScale /\ stack' # stack =>
                 (\A i \in inst : ~StillFull(i)) \/ hk.miscount]_vars
    <2> SUFFICES ASSUME TypeOK, QuietInv, [Next]_vars
                 PROVE  /\ HkTerminate => \A i \in inst \ inst' : ~StillFull(i)
                        /\ HkScale /\ stack' # stack =>
                             (\A i \in inst : ~StillFull(i)) \/ hk.miscount
      OBVIOUS
    <2>1. ASSUME HkTerminate, NEW i \in inst \ inst'
          PROVE  ~StillFull(i)
      BY <2>1 DEF HkTerminate, QuietInv, CandidatesQuiet, Acting
    <2>2. ASSUME HkScale, stack' # stack, ~hk.miscount, NEW i \in inst
          PROVE  ~StillFull(i)
      BY <2>2 DEF HkScale, QuietInv, StackQuiet
    <2> QED  BY <2>1, <2>2
  <1> QED  BY <1>1, <1>2, <1>3, TypeCorrect, PTL DEF Spec, BusyNodesSurvive
=============================================================================
