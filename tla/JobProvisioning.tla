---------------------------- MODULE JobProvisioning ----------------------------
(***************************************************************************)
(* One HPC job with ephemeral capacity (a CloudFormation stack of its own)  *)
(* in the scheduler module (idea-scheduler), from the submission hook to    *)
(* its record as a finished job: the copy of the job in the job cache, the  *)
(* update tracker, the job submission and execution monitors, the job       *)
(* provisioner, the node housekeeping sessions, the finished job processor, *)
(* and, as the environment, OpenPBS and CloudFormation.  Every thread reads *)
(* OpenPBS with a command, and writes what it read, or decides on it, in a  *)
(* later step.  The order of the provisioning queue is the subject of       *)
(* JobProvisioningQueue: here a job is in it or not.                        *)
(***************************************************************************)
EXTENDS Naturals, FiniteSets

CONSTANTS
    Sessions,  \* node housekeeping sessions that may run at the same time
    MaxFaults  \* bound: restarts, holds, failing calls, stacks that fail

ASSUME ConstantsAssumption ==
    /\ Sessions # {} /\ IsFiniteSet(Sessions)
    /\ MaxFaults \in Nat

VARIABLES
    pbs,     \* the job in OpenPBS: its state, and whether its select
             \* expression names a stack instead of compute_node=tbd
    row,     \* the copy in the job cache's jobs table
    pq,      \* whether the job is in the provisioning queue
    updates, \* pending updates of the JobMonitorState
    event,   \* its event _job_updates_available
    mon,     \* the job submission monitor thread
    prov,    \* the job provisioner thread
    hk,      \* the housekeeping sessions
    fin,     \* the finished job processor thread
    stack,   \* the CloudFormation stack with the job's name
    record,  \* whether the job is recorded in the finished jobs table
    hist,    \* history: the irregular things that have happened so far
    faults   \* how many faults there were

tracker == <<updates, event>>
cache == <<row, record>>
vars == <<pbs, cache, pq, tracker, mon, prov, hk, fin, stack, hist,
          faults>>

-----------------------------------------------------------------------------
(* Types.  A job is not in OpenPBS before the hook has accepted it; between *)
(* the runjob hook and the start OpenPBS still reports it as queued.        *)

PbsStates == {"none", "hooked", "Q", "H", "starting", "R", "F"}
Copy == [st : {"Q", "H", "R"}, prov : BOOLEAN]
NoRow == [st |-> "none", prov |-> FALSE]
Kinds == {"queued", "modified", "running"}
Work == Kinds \cup {"reconcile", "startup"}
StackStates == {"none", "creating", "complete", "old", "rollingBack",
                "failed", "deleting", "deleteFailed"}
ProvisioningStatuses == {"NOT_PROVISIONED", "COMPLETED", "IN_PROGRESS",
                         "DELETE_IN_PROGRESS", "FAILED", "TIMEOUT", "None"}

MonIdle == [pc |-> "idle", work |-> {}, copy |-> NoRow]
MonStartup == [MonIdle EXCEPT !.pc = "work", !.work = {"startup"}]

Init ==
    /\ pbs = [st |-> "none", prov |-> FALSE]
    /\ row = NoRow
    /\ pq = FALSE
    /\ updates = {}
    /\ event = FALSE
    /\ mon = MonIdle
    /\ prov = "idle"
    /\ hk = [s \in Sessions |-> "idle"]
    /\ fin = "idle"
    /\ stack = "none"
    /\ record = FALSE
    /\ hist = {}
    /\ faults = 0

Fault == faults < MaxFaults /\ faults' = faults + 1
NoFault == faults' = faults

\* SocaContext.is_ready: the job cache has been filled at startup.
Ready == "startup" \notin mon.work

Active == pbs.st \in {"Q", "H", "starting", "R"}

\* Mutant: the state is not mapped.
ListedRaw == [st |-> pbs.st, prov |-> pbs.prov]

\* qstat: what OpenPBS reports of an active job.
Listed == [st |-> IF pbs.st = "starting" THEN "Q" ELSE pbs.st, prov |-> pbs.prov]

\* qselect -s QH -l stack_id.eq.tbd: is the job selected?
Selected == pbs.st \in {"Q", "H"} /\ ~pbs.prov

\* An update that the job runs is missed (while it matters).
Missed(when) == IF when /\ Active THEN {"missed"} ELSE {}

-----------------------------------------------------------------------------
(* The update tracker, JobMonitorState, and the hooks that feed it.         *)

\* Mutant: a running job does not set the event.
UpdatedSilently(kind) ==
    /\ updates' = updates \cup {kind}
    /\ event' = (event \/ kind # "running")

\* job_queued, job_modified and job_running add an update and set the event.
Updated(kind) ==
    /\ updates' = updates \cup {kind}
    /\ event' = TRUE

\* The queuejob hook is validated: the monitor is told before OpenPBS has
\* the job.
HookValidateJob ==
    /\ pbs.st = "none"
    /\ pbs' = [pbs EXCEPT !.st = "hooked"]
    /\ Updated("queued")
    /\ UNCHANGED <<cache, pq, mon, prov, hk, fin, stack, hist, faults>>

\* The runjob hook: the monitor is told before the job runs.  A stack is up
\* minutes after it is created, so the provisioner is done by then.
HookRunJob ==
    /\ pbs.st = "Q" /\ pbs.prov
    /\ stack \in {"complete", "old"}
    /\ pbs' = [pbs EXCEPT !.st = "starting"]
    /\ Updated("running")
    /\ UNCHANGED <<cache, pq, mon, prov, hk, fin, stack, hist, faults>>

-----------------------------------------------------------------------------
(* The job submission monitor.                                              *)

\* JobMonitorState.get_updates up to the clearing of the event: the modified
\* and running updates in late are less than a second old and stay, and the
\* event is not cleared.
MonTake(late) ==
    /\ mon.pc = "idle" /\ event
    /\ late \subseteq updates \cap {"modified", "running"} /\ late # updates
    /\ mon' = [MonIdle EXCEPT !.pc = IF late = {} THEN "clear" ELSE "work",
                              !.work = updates \ late]
    /\ updates' = late
    /\ UNCHANGED <<pbs, cache, pq, event, prov, hk, fin, stack, hist, faults>>

\* The event is cleared after the locks are released: an update that came
\* in between waits for the next one.
MonClear ==
    /\ mon.pc = "clear"
    /\ mon' = [mon EXCEPT !.pc = "work"]
    /\ event' = FALSE
    /\ hist' = hist \cup Missed("running" \in updates)
    /\ UNCHANGED <<pbs, cache, pq, updates, prov, hk, fin, stack, faults>>

\* _monitor_job_submission: the reconciler's interval has passed, and the
\* qselect of _job_reconciler returns the job.
MonReconcile ==
    /\ mon.pc = "idle" /\ Selected
    /\ mon' = [MonIdle EXCEPT !.pc = "list", !.work = {"reconcile"}]
    /\ UNCHANGED <<pbs, cache, pq, tracker, prov, hk, fin, stack, hist, faults>>

\* The queued updates are handled first, then the modified, then the running.
Current(kind) ==
    /\ kind \in mon.work
    /\ kind = "modified" => "queued" \notin mon.work
    /\ kind = "running" => mon.work = {"running"}

\* The work on a kind of update is done, or given up.
Done(kind) == mon' = IF mon.work = {kind} THEN MonIdle
                     ELSE [mon EXCEPT !.pc = "work", !.work = @ \ {kind},
                                      !.copy = NoRow]

\* _sync_jobs of the queued jobs: qselect; a job that is in the cache already
\* is not fetched.
MonSelect ==
    /\ mon.pc = "work" /\ "queued" \in mon.work
    /\ IF Selected /\ row = NoRow
       THEN mon' = [mon EXCEPT !.pc = "list"]
       ELSE Done("queued")
    /\ UNCHANGED <<pbs, cache, pq, tracker, prov, hk, fin, stack, hist, faults>>

\* scheduler.list_jobs for what is being worked on.  qstat fails for all the
\* jobs of a query when one of them has finished, and then the updates are
\* gone: of this job, or (a fault) of another one.  When the listing at
\* startup fails, the cache is taken for ready with what is in its database
\* (no fault of its own: there is one listing for each restart).
MonList(kind) ==
    /\ Current(kind)
    /\ mon.pc = IF kind \in {"queued", "reconcile"} THEN "list" ELSE "work"
    /\ \/ /\ Active
          /\ mon' = [mon EXCEPT !.pc = "sync", !.copy = Listed]
          /\ hist' = hist \cup Missed(kind = "running" /\ Listed.st # "R")
          /\ NoFault
       \/ ~Active /\ Done(kind) /\ NoFault /\ UNCHANGED hist
       \/ /\ Done(kind)
          /\ IF kind = "startup" THEN NoFault ELSE Fault
          /\ hist' = hist \cup Missed(kind = "running")
    /\ UNCHANGED <<pbs, cache, pq, tracker, prov, hk, fin, stack>>

\* JobProvisioningQueue.put accepts unprovisioned queued jobs.
Accepts(copy) == copy.st = "Q" /\ ~copy.prov

\* job_cache.sync writes the copies that were fetched; unless the job is
\* known to run, _submit_to_provisioning_queue offers them to the queue.
MonSync(kind) ==
    /\ mon.pc = "sync" /\ Current(kind)
    /\ row' = mon.copy
    /\ pq' = (pq \/ (kind # "running" /\ Accepts(mon.copy)))
    /\ Done(kind)
    /\ UNCHANGED <<pbs, record, tracker, prov, hk, fin, stack, hist, faults>>

MonNext ==
    \/ \E late \in SUBSET {"modified", "running"} : MonTake(late)
    \/ MonClear
    \/ MonReconcile
    \/ MonSelect
    \/ \E kind \in Work : MonList(kind) \/ MonSync(kind)

-----------------------------------------------------------------------------
(* The job provisioner.                                                     *)

\* JobProvisioningUtil.check_status.  "old" is CREATE_COMPLETE for longer
\* than stack_provisioning_timeout_seconds; for a stack that rolls back or
\* could not be deleted the method falls through and returns None.
CheckStatus ==
    [none |-> "NOT_PROVISIONED", creating |-> "IN_PROGRESS",
     complete |-> "COMPLETED", old |-> "TIMEOUT", rollingBack |-> "None",
     failed |-> "FAILED", deleting |-> "DELETE_IN_PROGRESS",
     deleteFailed |-> "None"][stack]

\* JobProvisioningQueue.get: the job is read from the cache again.
ProvGet ==
    /\ prov = "idle" /\ Ready /\ pq
    /\ pq' = FALSE
    /\ prov' = IF Accepts(row) THEN "check" ELSE "idle"
    /\ UNCHANGED <<pbs, cache, tracker, mon, hk, fin, stack, hist, faults>>

\* _provision_with_retry_backoff: another try, or the last one has failed
\* and _poll_queue queues the job again.
Retry ==
    \/ prov' = "check" /\ UNCHANGED pq
    \/ prov' = "idle" /\ pq' = TRUE

\* Mutant: a stack that is being deleted counts as gone.
ProvCheckDeleting ==
    /\ prov = "check"
    /\ CASE ~Active -> prov' = "idle" /\ UNCHANGED pq
         [] Active /\ CheckStatus \in {"NOT_PROVISIONED", "DELETE_IN_PROGRESS"} ->
                prov' = "build" /\ UNCHANGED pq
         [] Active /\ CheckStatus = "IN_PROGRESS" -> Retry
         [] OTHER -> prov' = "idle" /\ UNCHANGED pq
    /\ UNCHANGED <<pbs, cache, tracker, mon, hk, fin, stack, hist, faults>>

\* A try begins: qstat, then ProvisionJobs.invoke reads the status of the
\* stack.  A completed stack needs nothing more (handle_completed), a failed
\* one is left to the housekeeper.
ProvCheck ==
    /\ prov = "check"
    /\ CASE ~Active -> prov' = "idle" /\ UNCHANGED pq
         [] Active /\ CheckStatus = "NOT_PROVISIONED" ->
                prov' = "build" /\ UNCHANGED pq
         [] Active /\ CheckStatus \in {"IN_PROGRESS", "DELETE_IN_PROGRESS"} -> Retry
         [] OTHER -> prov' = "idle" /\ UNCHANGED pq
    /\ UNCHANGED <<pbs, cache, tracker, mon, hk, fin, stack, hist, faults>>

\* create_new_stack: a check of budgets, quotas or licenses may raise, the
\* builder may fail (left to the housekeeper), or the stack is created.
ProvBuild ==
    /\ prov = "build"
    /\ \/ stack' = "creating" /\ prov' = "qalter" /\ UNCHANGED pq /\ NoFault
       \/ UNCHANGED stack /\ Retry /\ Fault
       \/ UNCHANGED stack /\ prov' = "idle" /\ UNCHANGED pq /\ Fault
    /\ UNCHANGED <<pbs, cache, tracker, mon, hk, fin, hist>>

\* scheduler.provision_job: qalter names the stack in the job's select.  A
\* job that starts, runs or has finished cannot be altered, and the try fails
\* (set_job_attributes raises SCHEDULER_ERROR, which provision_job passes on).
ProvQalter ==
    /\ prov = "qalter"
    /\ \/ /\ pbs.st \in {"Q", "H"}
          /\ pbs' = [pbs EXCEPT !.prov = TRUE]
          /\ prov' = "sync" /\ UNCHANGED pq /\ NoFault
       \/ pbs.st \in {"starting", "R", "F"} /\ Retry /\ UNCHANGED pbs /\ NoFault
       \/ Retry /\ UNCHANGED pbs /\ Fault
    /\ UNCHANGED <<cache, tracker, mon, hk, fin, stack, hist>>

\* provision_job_in_scheduler writes the provisioner's own copy of the job.
ProvSync ==
    /\ prov = "sync"
    /\ row' = [st |-> "Q", prov |-> TRUE]
    /\ prov' = "idle"
    /\ UNCHANGED <<pbs, record, pq, tracker, mon, hk, fin, stack, hist, faults>>

ProvNext == ProvGet \/ ProvCheck \/ ProvBuild \/ ProvQalter \/ ProvSync

-----------------------------------------------------------------------------
(* A node housekeeping session: retry_provisioning_cleanup, and the passes  *)
(* that delete a stack whose job is gone.                                   *)

\* cloudformation_delete_stack.
DeleteStack == stack' = IF stack \in {"none", "deleting"} THEN stack ELSE "deleting"

\* The rows of queued and held jobs are read: a job that was held is fetched
\* again, one that is not provisioned is offered to the queue again, for a
\* provisioned one the status of the stack decides.
HkRow(s) ==
    /\ hk[s] = "idle" /\ Ready
    /\ \/ /\ row.st = "H" /\ Active /\ pbs.st # "H"
          /\ Updated("modified")
          /\ UNCHANGED <<pq, hk>>
       \/ /\ Accepts(row)
          /\ pq' = TRUE
          /\ UNCHANGED <<tracker, hk>>
       \/ /\ row.st = "Q" /\ row.prov
          /\ hk' = [hk EXCEPT ![s] =
                       CASE CheckStatus \in {"FAILED", "TIMEOUT"} -> "delete"
                         [] CheckStatus \in {"NOT_PROVISIONED", "None"} -> "reset"
                         [] OTHER -> "idle"]
          /\ UNCHANGED <<pq, tracker>>
    /\ UNCHANGED <<pbs, cache, mon, prov, fin, stack, hist, faults>>

\* The deletion is requested; the job is reset even if that fails.
HkDelete(s) ==
    /\ hk[s] = "delete"
    /\ hk' = [hk EXCEPT ![s] = "reset"]
    /\ \/ DeleteStack /\ NoFault
       \/ UNCHANGED stack /\ Fault
    /\ UNCHANGED <<pbs, cache, pq, tracker, mon, prov, fin, hist>>

\* Mutant: the select of the job keeps the name of the stack.
HkResetCacheOnly(s) ==
    /\ hk[s] = "reset"
    /\ hk' = [hk EXCEPT ![s] = "idle"]
    /\ Updated("modified")
    /\ UNCHANGED <<pbs, cache, pq, mon, prov, fin, stack, hist, faults>>

\* scheduler.reset_job and, if it does not raise, job_monitor.job_modified.
HkReset(s) ==
    /\ hk[s] = "reset"
    /\ hk' = [hk EXCEPT ![s] = "idle"]
    /\ \/ /\ pbs.st \in {"Q", "H"}
          /\ pbs' = [pbs EXCEPT !.prov = FALSE]
          /\ Updated("modified") /\ NoFault
       \/ pbs.st = "F" /\ Updated("modified") /\ UNCHANGED pbs /\ NoFault
       \/ pbs.st \in {"starting", "R"} /\ UNCHANGED <<pbs, tracker>> /\ NoFault
       \/ UNCHANGED <<pbs, tracker>> /\ Fault
    /\ UNCHANGED <<cache, pq, mon, prov, fin, stack, hist>>

\* pass1 and _can_terminate: no job is on the node, and the cache does not
\* know the job of the stack.
HkCandidate(s) ==
    /\ hk[s] = "idle" /\ Ready
    /\ stack \in {"complete", "old"} /\ pbs.st # "R"
    /\ row = NoRow
    /\ hk' = [hk EXCEPT ![s] = "reap"]
    /\ UNCHANGED <<pbs, cache, pq, tracker, mon, prov, fin, stack, hist, faults>>

\* pass4 looks at the node again: all its cores may be busy by now.  Then
\* the node is offline, and cleanup deletes the stack.
HkReap(s) ==
    /\ hk[s] = "reap"
    /\ hk' = [hk EXCEPT ![s] = "idle"]
    /\ \/ DeleteStack
       \/ pbs.st = "R" /\ UNCHANGED stack
    /\ UNCHANGED <<pbs, cache, pq, tracker, mon, prov, fin, hist, faults>>

HkNext(s) == HkRow(s) \/ HkDelete(s) \/ HkReset(s)
                \/ HkCandidate(s) \/ HkReap(s)

-----------------------------------------------------------------------------
(* The finished job processor.                                              *)

\* qselect of the active jobs does not list the job: it is not active, or
\* the command has failed, for then the list is empty.  (Nothing is done
\* about a job that is listed.)
FinSelect ==
    /\ fin = "idle"
    /\ fin' = "scan"
    /\ IF Active THEN Fault ELSE NoFault
    /\ UNCHANGED <<pbs, cache, pq, tracker, mon, prov, hk, stack, hist>>

\* The rows are read: that of a job that is not in the list is to be deleted,
\* and a job that was not provisioned is to be forgotten.
FinScan ==
    /\ fin = "scan"
    /\ fin' = CASE row = NoRow -> "idle"
                [] row # NoRow /\ row.prov -> "finish"
                [] OTHER -> "forget"
    /\ UNCHANGED <<pbs, cache, pq, tracker, mon, prov, hk, stack, hist, faults>>

\* Mutant: only a job that was seen running is processed.
FinDeleteRunning ==
    /\ fin \in {"finish", "forget"}
    /\ row' = NoRow
    /\ fin' = IF fin = "finish" /\ row.st = "R" THEN "process" ELSE "idle"
    /\ hist' = IF Active \/ (pbs.prov /\ fin = "forget")
               THEN hist \cup {"dropped"} ELSE hist
    /\ UNCHANGED <<pbs, record, pq, tracker, mon, prov, hk, stack, faults>>

\* delete_jobs: what was written to the row since it was read goes with it.
FinDelete ==
    /\ fin \in {"finish", "forget"}
    /\ row' = NoRow
    /\ fin' = IF fin = "finish" THEN "process" ELSE "idle"
    /\ hist' = IF Active \/ (pbs.prov /\ fin = "forget")
               THEN hist \cup {"dropped"} ELSE hist
    /\ UNCHANGED <<pbs, record, pq, tracker, mon, prov, hk, stack, faults>>

\* _process_finished_jobs: the job is fetched (qstat -x, in any state), and
\* its record is written.
FinProcess ==
    /\ fin = "process"
    /\ fin' = "idle"
    /\ \/ record' = TRUE /\ NoFault /\ UNCHANGED hist
       \/ UNCHANGED record /\ Fault /\ hist' = hist \cup {"dropped"}
    /\ UNCHANGED <<pbs, row, pq, tracker, mon, prov, hk, stack>>

FinNext == FinSelect \/ FinScan \/ FinDelete \/ FinProcess

-----------------------------------------------------------------------------
(* The environment: OpenPBS, the user, CloudFormation; and a restart.       *)

threads == <<mon, prov, hk, fin>>

\* OpenPBS has accepted the job.
Enqueue ==
    /\ pbs.st = "hooked"
    /\ pbs' = [pbs EXCEPT !.st = "Q"]
    /\ UNCHANGED <<cache, pq, tracker, threads, stack, hist, faults>>

\* qhold and qrls: no hook tells the scheduler module.
Hold ==
    /\ pbs.st = "Q" /\ Fault
    /\ pbs' = [pbs EXCEPT !.st = "H"]
    /\ UNCHANGED <<cache, pq, tracker, threads, stack, hist>>

Release ==
    /\ pbs.st = "H"
    /\ pbs' = [pbs EXCEPT !.st = "Q"]
    /\ UNCHANGED <<cache, pq, tracker, threads, stack, hist, faults>>

\* The job runs.
Start ==
    /\ pbs.st = "starting"
    /\ pbs' = [pbs EXCEPT !.st = "R"]
    /\ UNCHANGED <<cache, pq, tracker, threads, stack, hist, faults>>

\* The job ends, or is deleted with qdel.
Finish ==
    /\ Active
    /\ pbs' = [pbs EXCEPT !.st = "F"]
    /\ hist' = hist \ {"missed"}
    /\ UNCHANGED <<cache, pq, tracker, threads, stack, faults>>

StackIs(from, to) ==
    /\ stack = from /\ stack' = to
    /\ UNCHANGED <<pbs, cache, pq, tracker, threads, hist>>

\* Time.  A stack takes minutes to come up, and longer to be old, while the
\* threads take seconds for what they have in hand: by then the monitor has
\* taken every update it was signalled and is done with it, the provisioner
\* has written the job, and the finished job processor is done with a list
\* from before.
MinutesLater ==
    /\ mon.pc = "idle" /\ ~event
    /\ prov \notin {"qalter", "sync"}
    /\ fin \in {"idle", "process"}

StackCreated ==
    /\ MinutesLater
    /\ StackIs("creating", "complete") /\ NoFault

RollbackEnds == StackIs("rollingBack", "failed") /\ NoFault
StackDeleted == StackIs("deleting", "none") /\ NoFault

\* The failures and the age of a stack matter as long as its job is active.
StackFails == Active /\ StackIs("creating", "rollingBack") /\ Fault
StackDeleteFails == Active /\ StackIs("deleting", "deleteFailed") /\ Fault

\* The provisioning timeout passes.  That a job could have run all the time
\* and has not is a fault (its nodes did not come up).
StackAges ==
    /\ Active /\ MinutesLater
    /\ StackIs("complete", "old")
    /\ IF pbs.st = "Q" /\ pbs.prov THEN Fault ELSE NoFault

CfnNext == StackCreated \/ StackFails \/ RollbackEnds \/ StackDeleted
              \/ StackDeleteFails \/ StackAges

\* The scheduler application restarts: what is in memory is lost, the job
\* cache's database is not; JobMonitor._initialize lists the jobs first.
Restart ==
    /\ Fault
    /\ pq' = FALSE
    /\ updates' = {} /\ event' = FALSE
    /\ mon' = MonStartup
    /\ prov' = "idle"
    /\ hk' = [s \in Sessions |-> "idle"]
    /\ fin' = "idle"
    /\ hist' = hist \cup (IF fin = "process" THEN {"dropped"} ELSE {})
                    \cup Missed("running" \in updates \cup mon.work)
    /\ UNCHANGED <<pbs, cache, stack>>

Next ==
    \/ HookValidateJob \/ HookRunJob
    \/ MonNext
    \/ ProvNext
    \/ \E s \in Sessions : HkNext(s)
    \/ FinNext
    \/ Enqueue \/ Hold \/ Release \/ Start \/ Finish
    \/ CfnNext
    \/ Restart

Spec == Init /\ [][Next]_vars

\* Every thread of the application keeps running, and an update gets a second
\* old; OpenPBS and CloudFormation do what they were asked for, a stack being
\* up at a moment at which nothing from minutes before is still in hand.  (A
\* stack need not age, and a job need not end.)
Fairness ==
    /\ WF_vars(MonNext) /\ SF_vars(MonTake({}))
    /\ WF_vars(ProvNext)
    /\ \A s \in Sessions : WF_vars(HkNext(s))
    /\ WF_vars(FinNext)
    /\ WF_vars(Enqueue \/ HookRunJob \/ Start)
    /\ WF_vars(CfnNext /\ stack # "complete") /\ SF_vars(StackCreated)

FairSpec == Spec /\ Fairness

-----------------------------------------------------------------------------
(* Properties.                                                              *)

TypeOK ==
    /\ pbs \in [st : PbsStates, prov : BOOLEAN]
    /\ row \in Copy \cup {NoRow}
    /\ pq \in BOOLEAN
    /\ updates \subseteq Kinds
    /\ event \in BOOLEAN
    /\ mon \in [pc : {"idle", "clear", "work", "list", "sync"},
                work : SUBSET Work, copy : Copy \cup {NoRow}]
    /\ prov \in {"idle", "check", "build", "qalter", "sync"}
    /\ hk \in [Sessions -> {"idle", "delete", "reset", "reap"}]
    /\ fin \in {"idle", "scan", "finish", "forget", "process"}
    /\ stack \in StackStates
    /\ record \in BOOLEAN
    /\ hist \subseteq {"missed", "dropped"}
    /\ faults \in 0..MaxFaults

\* The provisioner never asks for a stack whose name is still taken, however
\* its retries interleave with the deletions of the housekeeper, which reuse
\* the name.
BuildIsFresh == prov = "build" => stack = "none"

\* A stack bears the job's name and is up or has failed, but the job is not
\* assigned to it.
Stranded == /\ ~pbs.prov
            /\ stack \in {"complete", "old", "rollingBack", "failed", "deleteFailed"}

\* The job is assigned to a stack, and the cache does not know that.
Forgotten == pbs.prov /\ ~row.prov /\ prov # "sync"

\* A queued job starts, is held or is deleted, whatever stacks fail and calls
\* raise and restarts there are, except when it is stranded or forgotten.
JobsStart == pbs.st = "Q" ~> (pbs.st # "Q" \/ Stranded \/ Forgotten)

\* A job that finishes with a stack is recorded as finished, unless its row
\* was dropped: because it was stale, or the list of active jobs was, or by
\* a failure after the deletion of the row.
FinishedRecorded ==
    (pbs.st = "F" /\ pbs.prov)
        ~> (record \/ "dropped" \in hist)

\* The cache learns that the job runs, unless that update was missed or the
\* row of the active job dropped.
RunningSeen ==
    pbs.st = "R" ~> (pbs.st = "F" \/ row.st = "R" \/ hist # {})

\* retry_provisioning_cleanup: only "where job is queued but not started" is
\* the stack deleted.
OnlyUnstarted ==
    [][(\E s \in Sessions : hk[s] = "delete" /\ hk'[s] = "reset" /\ stack' # stack)
            => pbs.st # "R"]_vars
=============================================================================
