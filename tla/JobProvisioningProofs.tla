------------------------ MODULE JobProvisioningProofs ------------------------
(***************************************************************************)
(* Theorems about a job and its stack, for any number of housekeeping        *)
(* sessions at the same time and any number of faults.                       *)
(***************************************************************************)
EXTENDS JobProvisioning, TLAPS

\* The parts of TypeOK, by who writes them.
JobType == pbs \in [st : PbsStates, prov : BOOLEAN]
CacheType == row \in Copy \cup {NoRow} /\ record \in BOOLEAN /\ pq \in BOOLEAN
TrackerType == updates \subseteq Kinds /\ event \in BOOLEAN
MonType == mon \in [pc : {"idle", "clear", "work", "list", "sync"},
                    work : SUBSET Work, copy : Copy \cup {NoRow}]
ThreadsType ==
    /\ prov \in {"idle", "check", "build", "qalter", "sync"}
    /\ hk \in [Sessions -> {"idle", "delete", "reset", "reap"}]
    /\ fin \in {"idle", "scan", "finish", "forget", "process"}
StackType == stack \in StackStates
HistoryType == hist \subseteq {"missed", "dropped"} /\ faults \in 0..MaxFaults

LEMMA Parts ==
    TypeOK <=> /\ JobType /\ CacheType /\ TrackerType /\ MonType
               /\ ThreadsType /\ StackType /\ HistoryType
  BY DEF TypeOK, JobType, CacheType, TrackerType, MonType, ThreadsType,
         StackType, HistoryType

LEMMA NextParts ==
    TypeOK' <=> /\ JobType' /\ CacheType' /\ TrackerType' /\ MonType'
                /\ ThreadsType' /\ StackType' /\ HistoryType'
  BY DEF TypeOK, JobType, CacheType, TrackerType, MonType, ThreadsType,
         StackType, HistoryType

\* A fault stays within its bound.
LEMMA FaultType ==
    ASSUME faults \in 0..MaxFaults, Fault \/ NoFault
    PROVE  faults' \in 0..MaxFaults
  BY ConstantsAssumption DEF Fault, NoFault

\* What qstat reports of an active job is a copy that the cache can hold.
LEMMA ListedType ==
    ASSUME JobType, Active
    PROVE  Listed \in Copy
  BY DEF JobType, Active, Listed, Copy, PbsStates

\* An update is one of the tracker's kinds.
LEMMA UpdatedType ==
    ASSUME TrackerType, NEW kind \in Kinds, Updated(kind)
    PROVE  TrackerType'
  BY DEF TrackerType, Updated

\* The end of the work on a kind leaves the monitor well typed.
LEMMA DoneType ==
    ASSUME MonType, NEW kind, Done(kind)
    PROVE  MonType'
  BY DEF MonType, Done, MonIdle, NoRow, Copy

-----------------------------------------------------------------------------
(* One lemma for each thread: its steps keep the types.                      *)

LEMMA HookTypes ==
    ASSUME TypeOK, HookValidateJob \/ HookRunJob
    PROVE  TypeOK'
  <1>1. UNCHANGED <<cache, pq, mon, prov, hk, fin, stack, hist, faults>>
    BY DEF HookValidateJob, HookRunJob
  <1>2. JobType'
    BY Parts DEF HookValidateJob, HookRunJob, JobType, PbsStates
  <1>3. TrackerType'
    BY Parts, UpdatedType DEF HookValidateJob, HookRunJob, Kinds
  <1> QED
    BY <1>1, <1>2, <1>3 DEF TypeOK, JobType, TrackerType, cache

LEMMA MonTypes ==
    ASSUME TypeOK, MonNext
    PROVE  TypeOK'
  <1>1. ASSUME NEW late, MonTake(late)
        PROVE  TypeOK'
    <2>1. MonType'
      BY <1>1 DEF TypeOK, MonTake, MonType, MonIdle, NoRow, Copy, Kinds, Work
    <2>2. TrackerType'
      BY <1>1 DEF TypeOK, MonTake, TrackerType
    <2> QED  BY <1>1, <2>1, <2>2 DEF TypeOK, MonTake, MonType, TrackerType, cache
  <1>2. CASE MonClear
    BY <1>2 DEF TypeOK, MonClear, Missed, cache
  <1>3. CASE MonReconcile
    <2>1. MonType'
      BY <1>3 DEF MonReconcile, MonType, MonIdle, NoRow, Copy, Work
    <2> QED  BY <1>3, <2>1 DEF TypeOK, MonReconcile, MonType, cache, tracker
  <1>4. CASE MonSelect
    <2>1. MonType'
      <3>1. CASE Done("queued")  BY <3>1, Parts, DoneType
      <3>2. CASE mon' = [mon EXCEPT !.pc = "list"]
        BY <3>2, Parts DEF MonType
      <3> QED  BY <1>4, <3>1, <3>2 DEF MonSelect
    <2> QED  BY <1>4, <2>1 DEF TypeOK, MonSelect, MonType, cache, tracker
  <1>5. ASSUME NEW kind \in Work, MonList(kind)
        PROVE  TypeOK'
    <2>1. MonType'
      <3>1. CASE Done(kind)  BY <3>1, Parts, DoneType
      <3>2. CASE Active /\ mon' = [mon EXCEPT !.pc = "sync", !.copy = Listed]
        BY <3>2, Parts, ListedType DEF MonType
      <3> QED  BY <1>5, <3>1, <3>2 DEF MonList
    <2>2. HistoryType'
      BY <1>5, Parts, FaultType DEF MonList, HistoryType, Missed
    <2> QED  BY <1>5, <2>1, <2>2 DEF TypeOK, MonList, MonType, HistoryType, cache, tracker
  <1>6. ASSUME NEW kind \in Work, MonSync(kind)
        PROVE  TypeOK'
    <2>1. MonType'  BY <1>6, Parts, DoneType DEF MonSync
    <2>2. row' \in Copy \cup {NoRow} /\ pq' \in BOOLEAN
      <3>1. row' \in Copy \cup {NoRow}
        BY <1>6, Parts DEF MonSync, MonType
      <3>2. pq' \in BOOLEAN
        BY <1>6, Zenon DEF MonSync
      <3> QED  BY <3>1, <3>2
    <2> QED  BY <1>6, <2>1, <2>2 DEF TypeOK, MonSync, MonType, tracker
  <1> QED  BY <1>1, <1>2, <1>3, <1>4, <1>5, <1>6 DEF MonNext

LEMMA ProvTypes ==
    ASSUME TypeOK, ProvNext
    PROVE  TypeOK'
  <1>1. CASE ProvGet    BY <1>1 DEF TypeOK, ProvGet, cache, tracker
  <1>2. CASE ProvCheck
    <2>1. /\ prov' \in {"idle", "check", "build"}
          /\ pq' \in {pq, TRUE}
      BY <1>2 DEF ProvCheck, Retry
    <2>2. CacheType' /\ ThreadsType'
      BY <1>2, <2>1, Parts DEF ProvCheck, CacheType, ThreadsType, cache
    <2>3. JobType' /\ TrackerType' /\ MonType' /\ StackType' /\ HistoryType'
      BY <1>2, Parts DEF ProvCheck, JobType, TrackerType, MonType, StackType, HistoryType,
         tracker
    <2> QED  BY <2>2, <2>3, NextParts
  <1>3. CASE ProvBuild
    <2>1. /\ prov' \in {"idle", "check", "qalter"}
          /\ pq' \in {pq, TRUE}
          /\ stack' \in {stack, "creating"}
      BY <1>3 DEF ProvBuild, Retry
    <2>2. faults' \in 0..MaxFaults
      BY <1>3, FaultType DEF ProvBuild, TypeOK
    <2>3. CacheType' /\ StackType' /\ ThreadsType'
      BY <1>3, <2>1, Parts DEF ProvBuild, CacheType, StackType, ThreadsType, StackStates, cache
    <2> QED
      BY <1>3, <2>2, <2>3 DEF TypeOK, ProvBuild, CacheType, StackType, ThreadsType, tracker
  <1>4. CASE ProvQalter
    <2>1. /\ prov' \in {"idle", "check", "sync"}
          /\ pq' \in {pq, TRUE}
      BY <1>4 DEF ProvQalter, Retry
    <2>2. JobType'
      BY <1>4, Parts DEF ProvQalter, JobType
    <2>3. faults' \in 0..MaxFaults
      BY <1>4, FaultType DEF ProvQalter, TypeOK
    <2>4. CacheType' /\ ThreadsType'
      BY <1>4, <2>1, Parts DEF ProvQalter, CacheType, ThreadsType, cache
    <2>5. TrackerType' /\ MonType' /\ StackType' /\ HistoryType'
      BY <1>4, <2>3, Parts DEF ProvQalter, TrackerType, MonType, StackType, HistoryType,
         tracker
    <2> QED  BY <2>2, <2>4, <2>5, NextParts
  <1>5. CASE ProvSync
    BY <1>5 DEF TypeOK, ProvSync, Copy, tracker
  <1> QED  BY <1>1, <1>2, <1>3, <1>4, <1>5 DEF ProvNext

LEMMA HkTypes ==
    ASSUME TypeOK, NEW s \in Sessions, HkNext(s)
    PROVE  TypeOK'
  <1>1. CASE HkRow(s)
    <2>1. TrackerType'
      BY <1>1, Parts, UpdatedType DEF HkRow, TrackerType, tracker, Kinds
    <2>2. pq' \in BOOLEAN /\ hk' \in [Sessions -> {"idle", "delete", "reset", "reap"}]
      BY <1>1 DEF HkRow, TypeOK
    <2> QED  BY <1>1, <2>1, <2>2 DEF TypeOK, HkRow, TrackerType, cache
  <1>2. CASE HkDelete(s)
    BY <1>2, FaultType DEF TypeOK, HkDelete, DeleteStack, StackStates, cache, tracker
  <1>3. CASE HkReset(s)
    <2>1. TrackerType'
      BY <1>3, Parts, UpdatedType DEF HkReset, TrackerType, tracker, Kinds
    <2>2. JobType'
      BY <1>3, Parts DEF HkReset, JobType
    <2>3. faults' \in 0..MaxFaults
      BY <1>3, FaultType DEF HkReset, TypeOK
    <2> QED  BY <1>3, <2>1, <2>2, <2>3 DEF TypeOK, HkReset, JobType, TrackerType, cache
  <1>4. CASE HkCandidate(s)
    BY <1>4 DEF TypeOK, HkCandidate, cache, tracker
  <1>5. CASE HkReap(s)
    BY <1>5 DEF TypeOK, HkReap, DeleteStack, StackStates, cache, tracker
  <1> QED  BY <1>1, <1>2, <1>3, <1>4, <1>5 DEF HkNext

LEMMA FinTypes ==
    ASSUME TypeOK, FinNext
    PROVE  TypeOK'
  <1>1. CASE FinSelect
    <2>1. faults' \in 0..MaxFaults
      BY <1>1, FaultType DEF FinSelect, TypeOK
    <2> QED  BY <1>1, <2>1 DEF TypeOK, FinSelect, cache, tracker
  <1>2. CASE FinScan
    BY <1>2 DEF TypeOK, FinScan, cache, tracker
  <1>3. CASE FinDelete
    BY <1>3 DEF TypeOK, FinDelete, tracker
  <1>4. CASE FinProcess
    <2>1. HistoryType' /\ CacheType' /\ ThreadsType'
      BY <1>4, FaultType, Parts DEF FinProcess, HistoryType, CacheType, ThreadsType
    <2>2. JobType' /\ TrackerType' /\ MonType' /\ StackType'
      BY <1>4, Parts DEF FinProcess, JobType, TrackerType, MonType, StackType, tracker
    <2> QED  BY <2>1, <2>2, NextParts
  <1> QED  BY <1>1, <1>2, <1>3, <1>4 DEF FinNext

LEMMA EnvironmentTypes ==
    ASSUME TypeOK, Enqueue \/ Hold \/ Release \/ Start \/ Finish \/ CfnNext \/ Restart
    PROVE  TypeOK'
  <1>1. CASE Enqueue \/ Hold \/ Release \/ Start \/ Finish
    <2>1. JobType'
      BY <1>1, Parts DEF Enqueue, Hold, Release, Start, Finish, JobType, PbsStates
    <2>2. HistoryType'
      BY <1>1, Parts, FaultType
         DEF Enqueue, Hold, Release, Start, Finish, HistoryType
    <2> QED
      BY <1>1, <2>1, <2>2
         DEF TypeOK, Enqueue, Hold, Release, Start, Finish, JobType, HistoryType,
             cache, tracker, threads
  <1>2. CASE CfnNext
    <2>1. /\ stack' \in StackStates
          /\ UNCHANGED <<pbs, cache, pq, tracker, threads, hist>>
          /\ Fault \/ NoFault
      BY <1>2 DEF CfnNext, StackCreated, StackFails, RollbackEnds, StackDeleted,
                  StackDeleteFails, StackAges, StackIs, StackStates
    <2>2. faults' \in 0..MaxFaults  BY <2>1, FaultType DEF TypeOK
    <2> QED  BY <2>1, <2>2 DEF TypeOK, cache, tracker, threads
  <1>3. CASE Restart
    <2>1. MonType'
      BY <1>3 DEF Restart, MonType, MonStartup, MonIdle, NoRow, Copy, Work
    <2>2. HistoryType'
      BY <1>3, Parts, FaultType DEF Restart, HistoryType, Missed
    <2>3. TrackerType' /\ ThreadsType' /\ pq' \in BOOLEAN
      BY <1>3 DEF Restart, TrackerType, ThreadsType
    <2> QED
      BY <1>3, <2>1, <2>2, <2>3
         DEF TypeOK, Restart, MonType, HistoryType, TrackerType, ThreadsType, cache
  <1> QED  BY <1>1, <1>2, <1>3

LEMMA StutterTypes ==
    ASSUME TypeOK, UNCHANGED vars
    PROVE  TypeOK'
  BY DEF TypeOK, vars, cache, tracker

\* Every reachable state is well typed, whatever fails and restarts.
THEOREM TypeCorrect == Spec => []TypeOK
  <1>1. Init => TypeOK
    <2> SUFFICES ASSUME Init PROVE TypeOK  OBVIOUS
    <2>1. JobType /\ CacheType /\ TrackerType /\ StackType
      BY DEF Init, JobType, CacheType, TrackerType, StackType, PbsStates, NoRow, StackStates
    <2>2. MonType
      BY DEF Init, MonType, MonIdle, NoRow
    <2>3. ThreadsType /\ HistoryType
      BY ConstantsAssumption DEF Init, ThreadsType, HistoryType
    <2> QED  BY <2>1, <2>2, <2>3, Parts
  <1>2. TypeOK /\ [Next]_vars => TypeOK'
    BY HookTypes, MonTypes, ProvTypes, HkTypes, FinTypes, EnvironmentTypes,
       StutterTypes DEF Next
  <1> QED  BY <1>1, <1>2, PTL DEF Spec

-----------------------------------------------------------------------------
(* The provisioner builds a stack only under a name that is free: no step of  *)
(* another thread gives the name to a stack between the check and the build.  *)

LEMMA StackAppears ==
    ASSUME TypeOK, [Next]_vars, stack = "none", stack' # "none"
    PROVE  ProvBuild /\ prov' = "qalter"
  <1>1. CASE HookValidateJob \/ HookRunJob
    BY <1>1 DEF HookValidateJob, HookRunJob
  <1>2. CASE MonNext
    BY <1>2 DEF MonNext, MonTake, MonClear, MonReconcile, MonSelect, MonList, MonSync
  <1>3. CASE ProvNext
    BY <1>3 DEF ProvNext, ProvGet, ProvCheck, ProvBuild, ProvQalter, ProvSync
  <1>4. ASSUME NEW s \in Sessions, HkNext(s)
        PROVE  FALSE
    BY <1>4 DEF HkNext, HkRow, HkDelete, HkReset, HkCandidate, HkReap, DeleteStack
  <1>5. CASE FinNext
    BY <1>5 DEF FinNext, FinSelect, FinScan, FinDelete, FinProcess
  <1>6. CASE Enqueue \/ Hold \/ Release \/ Start \/ Finish \/ Restart
    BY <1>6 DEF Enqueue, Hold, Release, Start, Finish, Restart
  <1>7. CASE CfnNext
    BY <1>7 DEF CfnNext, StackCreated, StackFails, RollbackEnds, StackDeleted,
                StackDeleteFails, StackAges, StackIs
  <1>8. CASE UNCHANGED vars
    BY <1>8 DEF vars
  <1> QED  BY <1>1, <1>2, <1>3, <1>4, <1>5, <1>6, <1>7, <1>8 DEF Next

\* The status of the stack is read before the step to the build.
LEMMA BuildBegins ==
    ASSUME TypeOK, [Next]_vars, prov # "build", prov' = "build"
    PROVE  stack = "none" /\ stack' = "none"
  <1>1. CASE HookValidateJob \/ HookRunJob
    BY <1>1 DEF HookValidateJob, HookRunJob
  <1>2. CASE MonNext
    BY <1>2 DEF MonNext, MonTake, MonClear, MonReconcile, MonSelect, MonList, MonSync
  <1>3. CASE ProvNext
    <2>1. CASE ProvCheck
      <3>1. CheckStatus = "NOT_PROVISIONED" /\ stack' = stack
        BY <2>1 DEF ProvCheck, Retry
      <3>2. stack = "none"
        BY <3>1 DEF CheckStatus, TypeOK, StackStates
      <3> QED  BY <3>1, <3>2
    <2>2. CASE ProvGet \/ ProvBuild \/ ProvQalter \/ ProvSync
      BY <2>2 DEF ProvGet, ProvBuild, ProvQalter, ProvSync, Retry
    <2> QED  BY <1>3, <2>1, <2>2 DEF ProvNext
  <1>4. ASSUME NEW s \in Sessions, HkNext(s)
        PROVE  FALSE
    BY <1>4 DEF HkNext, HkRow, HkDelete, HkReset, HkCandidate, HkReap
  <1>5. CASE FinNext
    BY <1>5 DEF FinNext, FinSelect, FinScan, FinDelete, FinProcess
  <1>6. CASE Enqueue \/ Hold \/ Release \/ Start \/ Finish \/ Restart
    BY <1>6 DEF Enqueue, Hold, Release, Start, Finish, Restart, threads
  <1>7. CASE CfnNext
    BY <1>7 DEF CfnNext, StackCreated, StackFails, RollbackEnds, StackDeleted,
                StackDeleteFails, StackAges, StackIs, threads
  <1>8. CASE UNCHANGED vars
    BY <1>8 DEF vars
  <1> QED  BY <1>1, <1>2, <1>3, <1>4, <1>5, <1>6, <1>7, <1>8 DEF Next

\* create_new_stack is never called for a name that is taken, whatever sessions
\* delete under that name while the provisioner tries again.
THEOREM FreshBuilds == Spec => []BuildIsFresh
  <1>1. Init => BuildIsFresh
    BY DEF Init, BuildIsFresh
  <1>2. TypeOK /\ BuildIsFresh /\ [Next]_vars => BuildIsFresh'
    <2> SUFFICES ASSUME TypeOK, BuildIsFresh, [Next]_vars, prov' = "build"
                 PROVE  stack' = "none"
      BY DEF BuildIsFresh
    <2>1. CASE prov = "build"
      <3>1. stack = "none"  BY <2>1 DEF BuildIsFresh
      <3> QED  BY <3>1, StackAppears
    <2>2. CASE prov # "build"
      BY <2>2, BuildBegins
    <2> QED  BY <2>1, <2>2
  <1> QED  BY <1>1, <1>2, TypeCorrect, PTL DEF Spec
=============================================================================
