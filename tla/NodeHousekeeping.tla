--------------------------- MODULE NodeHousekeeping ---------------------------
(***************************************************************************)
(* The capacity shared by one group of HPC jobs (scaling mode batch,        *)
(* terminate_when_idle) in the scheduler module: one CloudFormation stack   *)
(* with an auto scaling group.  The job provisioner raises the group's      *)
(* desired capacity, the node monitor makes a compute node of each          *)
(* instance, and the node housekeeping session takes idle nodes away.  EC2  *)
(* Auto Scaling and OpenPBS act on their own.  The jobs table is taken to   *)
(* be up to date here (JobProvisioning is about that), and every job asks   *)
(* for one instance.  The group has one instance type; capacities are       *)
(* counted in its weight, as the group's desired capacity is.               *)
(***************************************************************************)
EXTENDS Integers, FiniteSets, FiniteSetsExt

CONSTANTS
    Jobs,      \* the jobs of the group
    Insts,     \* instance ids; an id is used again when nobody knows it
    Slots,     \* jobs that fit on one node
    Weight,    \* weighted_capacity of the instance type: its cores or vCPUs
    MaxFaults  \* bound: failing calls and deleted jobs

NoInst == "nowhere"

ASSUME ConstantsAssumption ==
    /\ IsFiniteSet(Jobs) /\ IsFiniteSet(Insts) /\ NoInst \notin Insts
    /\ Slots \in Nat \ {0} /\ Weight \in Nat \ {0}
    /\ MaxFaults \in Nat

VARIABLES
    job,     \* the jobs in OpenPBS and the jobs table; on: where one runs
    stack,   \* the stack of the group
    desired, \* the desired capacity of its auto scaling group
    inst,    \* the EC2 instances that run
    cached,  \* the instances in the instance cache
    node,    \* the compute nodes in OpenPBS
    used,    \* nodes that have run a job (they have a last_used_time)
    prov,    \* the job provisioner thread
    hk,      \* the node housekeeping session
    late,    \* history: jobs started since the session looked at the nodes
    faults   \* how many of those there were

vars == <<job, stack, desired, inst, cached, node, used, prov, hk, late, faults>>

ProvIdle == [pc |-> "idle", batch |-> {}, target |-> 0]
\* miscount: history, the desired capacity pass5 read did not stand for the
\* candidates and the instances that stay.
HkIdle == [pc |-> "idle", cand |-> {}, gone |-> {}, target |-> 0,
           miscount |-> FALSE]

Init ==
    /\ job = [j \in Jobs |-> [st |-> "new", prov |-> FALSE, on |-> NoInst]]
    /\ stack = "none"
    /\ desired = 0
    /\ inst = {}
    /\ cached = {}
    /\ node = [i \in Insts |-> "none"]
    /\ used = {}
    /\ prov = ProvIdle
    /\ hk = HkIdle
    /\ late = {}
    /\ faults = 0

Fault == faults < MaxFaults /\ faults' = faults + 1
NoFault == faults' = faults

JobsOn(i) == {j \in Jobs : job[j].on = i}

\* OpenPBS reports a node as busy when all its cores are taken, and as free
\* while one is left.
Busy(i) == Cardinality(JobsOn(i)) >= Slots
Free(i) == i \in inst /\ node[i] \in {"up", "bare"} /\ ~Busy(i)

-----------------------------------------------------------------------------
(* The job provisioner, for a queue with scaling mode batch.                *)

Unprovisioned == {j \in Jobs : job[j].st = "Q" /\ ~job[j].prov}

\* JobCache.get_desired_capacity: what the group's rows ask for together.
GroupCapacity == Weight * Cardinality({j \in Jobs : job[j].st \in {"Q", "R"}})

\* find_available_capacity: the weight of the cached instances whose node is
\* free, less one for each job on those nodes.
AvailableCapacity ==
    LET free == {i \in cached : Free(i)}
    IN  Weight * Cardinality(free) - Cardinality({j \in Jobs : job[j].on \in free})

\* What the jobs that fit in it leave of an available capacity.
Rest(a) == IF a > 0 THEN a % Weight ELSE a

\* Mutant: the capacity of the group is added to what there is already.
TargetAdds(n, p) == IF Weight * n > AvailableCapacity THEN p + GroupCapacity ELSE 0

\* compute_batch_capacity, for a batch of n jobs and a provisioned capacity
\* p: a job that fits in what is left of the available capacity takes that,
\* one that does not sets the target.  0: the capacity there is will do.
Target(n, p) ==
    IF Weight * n > AvailableCapacity
    THEN Max({0, p, GroupCapacity - Rest(AvailableCapacity)})
    ELSE IF p < GroupCapacity THEN GroupCapacity ELSE 0

\* _drain_batch_queue ends when the batch is as large as the number of jobs that
\* wait for capacity in OpenPBS; a larger one is thrown away.  The batch is
\* taken to be those jobs; one of them may be deleted from here on.
ProvDrain ==
    /\ prov.pc = "idle"
    /\ Unprovisioned # {}
    /\ prov' = [ProvIdle EXCEPT !.pc = "batch", !.batch = Unprovisioned]
    /\ UNCHANGED <<job, stack, desired, inst, cached, node, used, hk, late, faults>>

\* The jobs of a batch are interchangeable.
First(batch) == CHOOSE j \in batch : TRUE

\* A try that failed is followed by another, with the same jobs or, after the
\* last, from the queue: the next batch here.
TryFails == prov' = ProvIdle

\* A batch whose first job has been deleted is skipped.  No stack: the batch
\* builds it; a stack that is being built or deleted fails the try.
ProvStart ==
    /\ prov.pc = "batch"
    /\ LET active == job[First(prov.batch)].st \in {"Q", "R"}
           n == Cardinality(prov.batch)
       IN  \/ /\ ~active
              /\ prov' = ProvIdle
              /\ UNCHANGED <<stack, desired>>
           \/ /\ active /\ stack = "none"
              /\ stack' = "creating"
              /\ desired' = Target(n, 0)
              /\ prov' = [prov EXCEPT !.pc = "assign"]
           \/ /\ active /\ stack = "up"
              /\ prov' = [prov EXCEPT !.pc = "update", !.target = Target(n, desired)]
              /\ UNCHANGED <<stack, desired>>
           \/ /\ active /\ stack \in {"creating", "deleting"}
              /\ TryFails
              /\ UNCHANGED <<stack, desired>>
    /\ UNCHANGED <<job, inst, cached, node, used, hk, late, faults>>

\* The new desired capacity is the one computed from an earlier reading.
ProvUpdate ==
    /\ prov.pc = "update"
    /\ \/ /\ prov.target = 0
          /\ prov' = [prov EXCEPT !.pc = "assign"]
          /\ UNCHANGED desired
       \/ /\ prov.target > 0 /\ stack = "up"
          /\ desired' = prov.target
          /\ prov' = [prov EXCEPT !.pc = "assign", !.target = 0]
       \/ /\ prov.target > 0 /\ stack # "up"
          /\ TryFails
          /\ UNCHANGED desired
    /\ UNCHANGED <<job, stack, inst, cached, node, used, hk, late, faults>>

\* provision_job_in_scheduler for each job: a failing qalter ends the loop,
\* as does the one for a job deleted or started meanwhile.
ProvAssign ==
    /\ prov.pc = "assign"
    /\ \E done \in SUBSET prov.batch :
          /\ \A j \in done : job[j].st = "Q"
          /\ \/ done = prov.batch /\ NoFault /\ prov' = ProvIdle
             \/ (\E j \in prov.batch : job[j].st # "Q") /\ NoFault /\ TryFails
             \/ done # prov.batch /\ Fault /\ TryFails
          /\ job' = [j \in Jobs |-> IF j \in done
                                    THEN [job[j] EXCEPT !.prov = TRUE]
                                    ELSE job[j]]
    /\ UNCHANGED <<stack, desired, inst, cached, node, used, hk, late>>

-----------------------------------------------------------------------------
(* OpenPBS, CloudFormation and EC2 Auto Scaling (external).                 *)

Submit ==
    LET new == {j \in Jobs : job[j].st = "new"} IN
    /\ new # {}
    /\ job' = [job EXCEPT ![CHOOSE j \in new : TRUE].st = "Q"]
    /\ UNCHANGED <<stack, desired, inst, cached, node, used, prov, hk, late,
                   faults>>

\* A user deletes a job that waits (counted with the faults).
Delete(j) ==
    /\ job[j].st = "Q"
    /\ job' = [job EXCEPT ![j].st = "F"]
    /\ Fault
    /\ UNCHANGED <<stack, desired, inst, cached, node, used, prov, hk, late>>

PbsRun(j, i) ==
    /\ job[j].st = "Q" /\ job[j].prov
    /\ Free(i) /\ node[i] = "up"
    /\ job' = [job EXCEPT ![j].st = "R", ![j].on = i]
    /\ used' = used \cup {i}
    /\ late' = IF hk.pc \in {"offline", "terminate", "scale"} /\ hk.cand # {}
               THEN late \cup {j} ELSE late
    /\ UNCHANGED <<stack, desired, inst, cached, node, prov, hk, faults>>

Finish(j) ==
    /\ job[j].st = "R" /\ job[j].on \in inst
    /\ job' = [job EXCEPT ![j].st = "F", ![j].on = NoInst]
    /\ UNCHANGED <<stack, desired, inst, cached, node, used, prov, hk, late,
                   faults>>

\* The job of an instance that has gone is queued again.
Requeue(j) ==
    /\ job[j].st = "R" /\ job[j].on \notin inst
    /\ job' = [job EXCEPT ![j].st = "Q", ![j].on = NoInst]
    /\ UNCHANGED <<stack, desired, inst, cached, node, used, prov, hk, late,
                   faults>>

StackCreated ==
    /\ stack = "creating"
    /\ stack' = "up"
    /\ UNCHANGED <<job, desired, inst, cached, node, used, prov, hk, late,
                   faults>>

StackDeleted ==
    /\ stack = "deleting"
    /\ stack' = "none"
    /\ desired' = 0
    /\ inst' = {}
    /\ UNCHANGED <<job, cached, node, used, prov, hk, late, faults>>

\* The ids are interchangeable: a new instance gets one nobody knows.
Unknown == {i \in Insts \ (inst \cup cached) : node[i] = "none"}

AsgLaunch ==
    /\ stack = "up"
    /\ Weight * Cardinality(inst) < desired
    /\ Unknown # {}
    /\ inst' = inst \cup {CHOOSE i \in Unknown : TRUE}
    /\ UNCHANGED <<job, stack, desired, cached, node, used, prov, hk, late,
                   faults>>

\* The group has the desired capacity without one of its instances.
Excess == Weight * (Cardinality(inst) - 1) >= desired

\* The template sets no scale-in protection: any instance may go.
AsgTerminate(i) ==
    /\ stack = "up"
    /\ Excess
    /\ i \in inst
    /\ inst' = inst \ {i}
    /\ UNCHANGED <<job, stack, desired, cached, node, used, prov, hk, late,
                   faults>>

-----------------------------------------------------------------------------
(* The instance and the node monitor.                                       *)

\* InstanceMonitor: the cache becomes what EC2 lists.
Refresh ==
    /\ cached # inst
    /\ cached' = inst
    /\ UNCHANGED <<job, stack, desired, inst, node, used, prov, hk, late, faults>>

\* NodeMonitor, after a refresh: _check_and_provision_node for every cached
\* instance without a node.  create_node makes the node, then sets its
\* attributes.  When that fails the node stays without them, and an existing
\* node is never looked at again.
NodeScan ==
    LET new == {i \in cached : node[i] = "none"} IN
    /\ new # {}
    /\ \/ /\ node' = [i \in Insts |-> IF i \in new THEN "up" ELSE node[i]]
          /\ NoFault
       \/ \E b \in new :
             /\ node' = [i \in Insts |-> IF i = b THEN "bare"
                                        ELSE IF i \in new THEN "up" ELSE node[i]]
             /\ Fault
    /\ UNCHANGED <<job, stack, desired, inst, cached, used, prov, hk, late>>

-----------------------------------------------------------------------------
(* NodeHouseKeepingSession.begin.                                           *)

HkAbort == hk' = HkIdle /\ late' = {}

\* The nodes the session looks at: provisioned, and without jobs.
Quiet == {i \in Insts : node[i] \in {"up", "offline"} /\ JobsOn(i) = {}}

\* Mutant: a node that never ran a job has no time it was last used.
EligibleUsed(i) == (\A j \in Jobs : job[j].st # "Q") /\ i \in used

\* _can_terminate, once the node has been idle for terminate_when_idle: no
\* job waits, and the node has been used, or is free since it came up.
Eligible(i) ==
    /\ \A j \in Jobs : job[j].st # "Q"
    /\ i \in used \/ Free(i)

\* pass1: the candidates are those of the eligible nodes whose time is over.
HkPass1 ==
    /\ hk.pc = "idle"
    /\ \E over \in SUBSET {i \in Quiet \cap cached : Eligible(i)} :
          hk' = [HkIdle EXCEPT !.pc = "check", !.cand = over,
                               !.gone = Quiet \ cached]
    /\ UNCHANGED <<job, stack, desired, inst, cached, node, used, prov, late,
                   faults>>

\* Mutant: pass4 takes the candidates of pass1.
HkPass4NoCheck ==
    /\ hk.pc = "check"
    /\ hk' = [hk EXCEPT !.pc = "offline"]
    /\ UNCHANGED <<job, stack, desired, inst, cached, node, used, prov, late,
                   faults>>

\* pass4 fetches each node again and keeps those that are not busy.
HkPass4Check ==
    /\ hk.pc = "check"
    /\ hk' = [hk EXCEPT !.pc = "offline",
                        !.cand = {i \in @ : node[i] # "none" /\ ~Busy(i)}]
    /\ UNCHANGED <<job, stack, desired, inst, cached, node, used, prov, late,
                   faults>>

\* Mutant: the capacity left over may become negative.
LeftOver(n) == desired - Weight * n

\* _get_desired_capacity, when n instances go.
Remaining(n) == Max({0, desired - Weight * n})

\* The rest of pass4, pass5 and pass6.  A failing call ends the session with
\* the nodes it has reached offline; nothing ever sets a node free again.
\* Without an auto scaling group nothing is terminated.
HkPass456 ==
    /\ hk.pc = "offline"
    /\ \E off \in SUBSET hk.cand :
          /\ node' = [i \in Insts |-> IF i \in off THEN "offline" ELSE node[i]]
          /\ \/ /\ off = hk.cand /\ NoFault
                /\ hk' = IF off = {} \/ stack = "none"
                         THEN [HkIdle EXCEPT !.pc = "terminate",
                                             !.gone = hk.gone]
                         ELSE [hk EXCEPT !.pc = "terminate",
                                 !.target = Remaining(Cardinality(off)),
                                 !.miscount = ~(off \subseteq inst) \/ Excess]
                /\ UNCHANGED late
             \/ hk.cand # {} /\ Fault /\ HkAbort
    /\ UNCHANGED <<job, stack, desired, inst, cached, used, prov>>

\* cleanup: the nodes without an instance go first (qmgr refuses one that
\* has a job), then the instances of the candidates;
\* the nodes of those are for a later session.
HkTerminate ==
    /\ hk.pc = "terminate"
    /\ \E kill \in SUBSET hk.cand :
          /\ inst' = inst \ kill
          /\ \/ /\ kill = hk.cand /\ NoFault
                /\ hk' = [hk EXCEPT !.pc = "scale", !.gone = {}]
                /\ UNCHANGED late
             \/ kill # hk.cand /\ Fault /\ HkAbort
    /\ LET gone == {i \in hk.gone : JobsOn(i) = {}} IN
          /\ node' = [i \in Insts |-> IF i \in gone THEN "none" ELSE node[i]]
          /\ used' = used \ gone
    /\ UNCHANGED <<job, stack, desired, cached, prov>>

\* cleanup: detach and update the group, or delete the stack by its name.
HkScale ==
    /\ hk.pc = "scale"
    /\ \/ /\ hk.cand = {} /\ NoFault
          /\ UNCHANGED <<stack, desired>>
          /\ hk' = [HkIdle EXCEPT !.pc = "retry"]
       \/ /\ hk.cand # {} /\ hk.target = 0 /\ NoFault
          /\ stack' = IF stack = "none" THEN "none" ELSE "deleting"
          /\ UNCHANGED desired
          /\ hk' = [HkIdle EXCEPT !.pc = "retry"]
       \/ /\ hk.cand # {} /\ hk.target > 0 /\ stack = "up" /\ NoFault
          /\ desired' = hk.target
          /\ UNCHANGED stack
          /\ hk' = [HkIdle EXCEPT !.pc = "retry"]
       \/ /\ hk.cand # {} /\ hk.target > 0 /\ stack # "up" /\ NoFault
          /\ UNCHANGED <<stack, desired>>
          /\ hk' = HkIdle
       \/ /\ hk.cand # {} /\ Fault
          /\ UNCHANGED <<stack, desired>>
          /\ hk' = HkIdle
    /\ late' = {}
    /\ UNCHANGED <<job, inst, cached, node, used, prov>>

\* Mutant: queued jobs are never reset.
HkRetryNothing ==
    /\ hk.pc = "retry"
    /\ hk' = HkIdle
    /\ UNCHANGED <<job, stack, desired, inst, cached, node, used, prov, late,
                   faults>>

\* retry_provisioning_cleanup: the jobs whose stack is gone are reset.  A
\* job on shared capacity whose stack is complete is left to wait.
HkRetry ==
    /\ hk.pc = "retry"
    /\ job' = [j \in Jobs |->
                 IF job[j].st = "Q" /\ stack = "none"
                 THEN [job[j] EXCEPT !.prov = FALSE] ELSE job[j]]
    /\ hk' = HkIdle
    /\ UNCHANGED <<stack, desired, inst, cached, node, used, prov, late, faults>>

Provisioner == ProvDrain \/ ProvStart \/ ProvUpdate \/ ProvAssign

Session == HkPass4Check \/ HkPass456 \/ HkTerminate \/ HkScale \/ HkRetry

CloudFormation == StackCreated \/ StackDeleted

AutoScaling == AsgLaunch \/ \E i \in Insts : AsgTerminate(i)

Next ==
    \/ Provisioner \/ Refresh \/ NodeScan \/ HkPass1 \/ Session
    \/ CloudFormation \/ AutoScaling
    \/ Submit
    \/ \E j \in Jobs : Delete(j) \/ Finish(j) \/ Requeue(j)
    \/ \E j \in Jobs, i \in Insts : PbsRun(j, i)

Spec == Init /\ [][Next]_vars

\* In the end a session meets every node that is eligible by then.
HkPass1All ==
    HkPass1 /\ hk'.cand = {i \in Quiet \cap cached : Eligible(i)}

\* The three threads keep running and EC2, CloudFormation and OpenPBS do
\* what they are asked to; OpenPBS starts a job that can start again and
\* again.
Fairness ==
    /\ WF_vars(Provisioner)
    /\ WF_vars(Refresh) /\ WF_vars(NodeScan)
    /\ SF_vars(HkPass1All) /\ WF_vars(Session)
    /\ WF_vars(CloudFormation) /\ WF_vars(AutoScaling)
    /\ \A j \in Jobs : SF_vars(\E i \in Insts : PbsRun(j, i))
    /\ \A j \in Jobs : WF_vars(Finish(j) \/ Requeue(j))

FairSpec == Spec /\ Fairness

-----------------------------------------------------------------------------
(* Properties                                                               *)

\* The type of the state.  A node with jobs exists, jobs that run have been
\* provisioned, and there is a desired capacity whenever there is a stack.
TypeOK ==
    /\ job \in [Jobs -> [st : {"new", "Q", "R", "F"}, prov : BOOLEAN,
                          on : Insts \cup {NoInst}]]
    /\ stack \in {"none", "creating", "up", "deleting"}
    /\ desired \in Nat /\ (stack = "none" <=> desired = 0)
    /\ inst \subseteq Insts /\ cached \subseteq Insts /\ used \subseteq Insts
    /\ node \in [Insts -> {"none", "up", "bare", "offline"}]
    /\ prov \in [pc : {"idle", "batch", "update", "assign"}, batch : SUBSET Jobs,
                  target : Nat]
    /\ prov.pc # "idle" => prov.batch # {}
    /\ hk \in [pc : {"idle", "check", "offline", "terminate", "scale",
                      "retry"}, cand : SUBSET Insts, gone : SUBSET Insts,
                target : Nat, miscount : BOOLEAN]
    /\ late \subseteq Jobs
    /\ faults \in 0..MaxFaults

\* The group never asks for more capacity than the jobs submitted to it did,
\* however the provisioner's absolute updates and the session's interleave.
CapacityBounded ==
    desired <= Weight * Cardinality({j \in Jobs : job[j].st # "new"})

\* The node is full with jobs that have run since before pass4 looked at it.
StillFull(i) == Cardinality(JobsOn(i) \ late) >= Slots

\* A session ends no node that was full when pass4 looked at it and still is:
\* neither with an instance it terminates nor with the stack it deletes.
\* (It does delete the stack under a job when it counts a candidate that had
\* gone already, from a stale cache, or one that the group has replaced
\* between its termination and the update of the capacity.)
BusyNodesSurvive ==
    [][/\ HkTerminate => \A i \in inst \ inst' : ~StillFull(i)
       /\ HkScale /\ stack' # stack =>
            (\A i \in inst : ~StillFull(i)) \/ hk.miscount]_vars

\* Capacity that can not be used and is not given back: a node that was left
\* without its attributes, or offline by a session that failed.
Stranded ==
    \E i \in inst : \/ node[i] = "bare"
                    \/ node[i] = "offline" /\ i \notin hk.cand

\* A queued job runs (or is deleted), whatever the housekeeping takes away
\* under it, unless capacity is stranded.
JobsRun == \A j \in Jobs : job[j].st = "Q" ~> job[j].st # "Q" \/ Stranded

\* When all jobs are over the group's instances and its stack go, unless
\* capacity is stranded.
CapacityReleased ==
    (\A j \in Jobs : job[j].st \in {"new", "F"})
        ~> \/ inst = {} /\ stack = "none"
           \/ \E j \in Jobs : job[j].st \in {"Q", "R"}
           \/ Stranded
=============================================================================
