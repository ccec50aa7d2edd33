# A TLA+ model of IDEA's virtual desktops, job provisioning and project access

IDEA (Integrated Digital Engineering on AWS) runs two kinds of work on EC2:
virtual desktops, managed by the *virtual desktop controller* (VDC), and batch
jobs, for which the *scheduler* provisions capacity; the *cluster manager* decides
who may use which project. All three are control loops over state that others
change too: DynamoDB rows, SQS messages, EC2 instances, the DCV broker, the
OpenPBS server, CloudFormation stacks. This directory models the loops whose
ordering matters most, checks them with TLC on small instances and proves their
safety properties with TLAPS for all values of the constants.

Paths below are relative to `src/source/idea/`.

## 1. Inventory

### Virtual desktop controller (`idea-virtual-desktop-controller`)

| Part | State | Operations | Correct when |
|---|---|---|---|
| sessions (`sessions/`) | the session row (state, DCV session id), counters | create, stop, resume, reboot, terminate, update | a request is carried through; terminate is final; the row agrees with the instance |
| servers (`servers/`) | the server row | provision, stop or hibernate, start, reboot, terminate | no instance runs without a row that leads to it |
| events thread (`events/service/events_handler_thread.py`) | the batch in hand | receive, handle in order, keep or delete | messages of a group in order; a failing message does not block its group for ever |
| event handlers (`events/handlers/`) | none of their own | one per event type | each decides by the row it read |
| controller queue monitor (`events/service/controller_queue_monitor_service.py`) | a standard queue | EC2 and SSM notifications become events | at least once, any order |
| broker client, SSM commands | external | create, describe, delete, resume | |
| schedules, permissions, profiles, software stacks | tables | create, update, delete | |

The API threads and the events threads share the rows. They read a row, change
the copy in memory and write the whole row back without a condition, so two
writers can overwrite each other and a deleted row can come back. The events
queue is an SQS FIFO queue with one message group per session, deduplication by
content, and a dead-letter queue. A handler that wants to try again raises, and
the message stays at the head of its group.

### Scheduler (`idea-scheduler`)

| Part | State | Operations | Correct when |
|---|---|---|---|
| provisioning queue (`job_provisioning_queue.py`) | ring of groups, a heap per group, `_queued_jobs` | put, get, delete, limit checks | a waiting job is not lost, groups take turns, order within a group |
| job monitor (`job_monitor.py`) | pending updates by kind and an event; the job cache | hooks add updates; take them, list, synchronise, put; reconcile | every queued job is put; the cache learns that a job runs |
| job provisioner | the job or batch in hand | get, check the stack, build it, assign the job, retry, put back; raise the capacity of a group | one stack for a name at a time; a job gets capacity |
| node housekeeper, node monitor | nodes, the session's candidates | passes over nodes, offline, terminate, scale down, delete stacks, reset jobs that do not start | no node with work is terminated; idle capacity goes; a reset job is provisioned again |
| job cache, finished jobs | SQLite tables | synchronise, delete, record | a finished job is recorded |
| OpenPBS adapter, job parameters, licenses, budgets, quotas | look-ups | | |

### Cluster manager, SDK, deployment

| Part | State | Operations | Correct when |
|---|---|---|---|
| accounts (`accounts/`) | users, groups, group members | add, remove, enable, disable, delete; a task for each change | |
| projects (`projects/`) | projects, project groups, user projects | create, update, enable, disable; a task for each | who is entitled has access, nobody else has |
| task manager (`tasks/task_manager.py`) | an SQS FIFO queue, a thread pool | send, receive, execute, delete | every task ends |
| email, notifications, SDK, administrator, bootstrap, gateway, portal | | | |

The API writes the tables of accounts and projects; the user-projects table, which
decides who may use a project, is written by tasks only. Tasks about one user are
in order, and so are tasks about one project; between the two there is no order.
The SDK has the leader election and the distributed lock, and libraries
(configuration, tokens, HTTP server, metrics). The administrator deploys
everything with the CDK; the bootstrap templates configure hosts. From these the
model takes the settings of the queues and what a desktop host sends when it has
booted.

### What is hard

Rows read before a remote call and written after it; notifications late, doubled or out of
order; retries counted in two places; messages that look the same dropped as duplicates; a
crash between an AWS call and the row that records it; heaps whose entries change in
place; a put that waits while it holds the locks of get; a second copy of OpenPBS's jobs
that four threads write; the name of a stack used again while it is being deleted; a
capacity that two threads read and write back; a table kept up to date by tasks that
nothing orders. `PROJECT.json` lists each hazard at its line with the properties that
watch it, or why none does yet.

## 2. Modules

| Module | Models | Size of the instance |
|---|---|---|
| `VdcSession` | one desktop session: rows, requests, events thread, handlers, queue, EC2, broker, SSM | one session, 0 to 3 requests, 0 or 1 faults |
| `VdcSessionProofs` | theorems about it | all; one of them for requests that start nothing |
| `JobProvisioningQueue` | the provisioning queue with its putting threads and the provisioner | 1 to 5 jobs, 1 or 3 groups |
| `MCJobProvisioningQueue` | small queue profiles for TLC | |
| `FifoJobGroups` | what that queue promises in FIFO mode (abstract) | |
| `JobProvisioningHeapProofs` | lemmas: what `heappush` and `heappop` do to a heap | heaps of any length |
| `JobProvisioningQueueProofs` | theorems about the queue | all; one of them in FIFO mode |
| `JobProvisioning` | one job from its hook to its record: monitor, provisioner, housekeeper, finished job processor, stack | one job, one session, one fault |
| `JobProvisioningProofs` | theorems about it | all |
| `NodeHousekeeping` | the capacity of a job group: provisioner, node monitor, housekeeping session, auto scaling group | two jobs, three instances, one fault |
| `NodeHousekeepingProofs` | theorems about it | all; one of them for as many jobs on a node as it weighs |
| `ProjectMembership` | groups, projects, the task queue and its workers, the access table | one user, one or two groups, one project, two workers |
| `ProjectMembershipProofs` | theorems about it: types, and who is entitled has access | all |
| `ProjectRevokesProofs` | and nobody else has | all |

### VdcSession

*State.* `session` is the session row (its state, and whether it has a `dcv_session_id`;
the state `NONE` is no row), `server` the state column of the server row, `ctr` the three
counters. `queue` is the session's message group, each message with its type and receive
count; `dedup` holds the bodies without a timestamp that were sent in the last five
minutes. `thread` is the events thread: the size of its batch, how many of it are handled,
and the row it has read. `api` is the request being served, with the row it has read.
`ec2`, `boot`, `broker`, `ssm` and `notes` are the instance, the message the host will
send after booting, the DCV session, the commands on the host and the controller queue.
`hist` is a history variable: the set of irregular things that have happened (a crash, a
dead-lettered message, a message dropped as a duplicate, an overwritten row, a
notification older or newer than the row, an EC2 call that failed after the row was
written, a creation or a deletion whose write raised, a termination that failed). No
action's guard reads it; properties use it to say exactly what may break them.

*Requests.* Every request is a sequence of steps, one per remote call or write:
`ApiRead` reads the row and checks the state, `FirstStep`, `Target` and
`AfterWrite` give the order of the calls for each operation, as in
`VirtualDesktopSessionUtils`. The order differs: a stop or terminate asks the
broker first and then writes the row, a resume starts the instance first, a
reboot writes first.

*Events thread.* `Receive` takes the whole group and counts the delivery of every
message; messages delivered `MaxReceive` times go to the dead-letter queue.
`ReadRow` and a handler's action are separate steps, because a request may run
between them. `Handled` moves on, `Kept` ends the batch (the handler raised), and
`DeleteHandled` deletes what was handled. Inside one handler the write and the
publishing are one step, except in `_continue_delete_session`, where the row goes
before the instance (`ContinueDeleteSession`, `ContinueTerminate`). The handlers
that call `stop_sessions`, `resume_sessions` or `terminate_sessions` read the row
again, as the code does (`CpuStops`, `ScheduledResumeStarts`, `TerminateMarks`).

*Environment.* EC2, the host, the broker, SSM and the clock are external and
nondeterministic. A reboot or a stop ends the DCV session; a resume command
recreates it; the broker may refuse or lose a session. The age of a row, which
the deletion handler compares with a timeout, is a free choice: a deletion may
be pending while the broker still has the session, or continue by timeout.

*Faults.* `Crash` loses the request and the batch in hand. `HandlerRaises` is a
remote call that raises before anything is changed. Two calls raise after something was
changed and are caught (`Fails`): a write of `create_session` after `RunInstances`, which
becomes a failed answer and leaves the instance without its rows (`create_error`), and
the deletions before the session row's in `_continue_delete_session`, after which the
message is deleted and the row stays DELETING (`delete_error`, `ContinueDeleteFails`).
When `describe_instances` fails, `_continue_stop_session` takes a stopped instance for
one that is still stopping. `InstanceFails` is an instance stopped by somebody else. A
notification may be published twice.

*Left out.* The time between deliveries; more than one events thread (a FIFO group
is held by one thread as long as the batch finishes within the visibility
timeout); sender validation; schedules' days and hours (a schedule may fire at any
time); the parts of a session that no handler decides by.

### JobProvisioningQueue

*State.* `ring` is `RoundRobinPriorityQueue._queues`, a sequence of groups each
with a heap; `index` its position; `tracked` is `_queued_jobs`; `prio` the
priority attribute of the entries. `blocked` says that a put waits for room and
holds the locks. `putter` is what each putting thread has listed, `getter` where
the provisioner thread is. `job` is the job as the scheduler and the cache agree
on it; the cache as a second, older copy is the subject of `JobProvisioning`.

*Heaps.* Python's `heapq` is modelled element by element (`SiftDown`, `HeapPop`),
because the code changes the priority of an entry while it is in the heap, and
what `get` then returns depends on the heap's shape. The path that an entry rises or
the hole sinks along is given as a set, not by recursion: `Ancestors(i)` is the
smallest set with `i` that has, with a position, the one above it, and `Holes` are the
positions all of whose ancestors but the root are the smaller child of the one above.

*Atomicity.* `put` holds the lock of `JobProvisioningQueue` and then the ring's;
`get` holds the ring's lock while it takes an entry and the other one while it
checks limits. Each is one action; `get` is two, `RingGet` or `RingDrop` and then
`GetDrops`, `GetLimited` or `GetReturns`, and a put may come in between.

*Abstractions.* The limits are a free choice (a limit may hold or not at any time)
when `Limits` is set. The fair share score, which depends on the other jobs and
the clock, is any member of `Scores`. `ProvisionEnds` stands for every way in
which `_poll_queue` finishes with a job without putting it back. Only the
single-job scaling mode is modelled. `delete`, the `modified` argument and the
`processed` flag change fields that nothing reads.

*What it promises.* `FifoJobGroups` has no heap, ring or index: a set of waiting
jobs, and at most one in hand, which was the first of its group. `Fifo` in
`JobProvisioningQueue` instantiates it with the entries of all heaps as the
waiting jobs and the entry between the two halves of `get` as the job in hand;
`ServesInOrder` says that the queue in FIFO mode implements it.

### JobProvisioning

*State.* `pbs` is the job in OpenPBS: its state, and whether its select expression
names a stack. `row` is its copy in the jobs table, `pq` says that the provisioning
queue has it, `updates` and `event` are `JobMonitorState`. `mon`, `prov`, `hk` and
`fin` are the threads: the job monitor (what it works on and the copy it has
fetched), the provisioner, the housekeeping sessions and the finished job
processor. `stack` is the CloudFormation stack that bears the job's name, `record`
the row in the finished jobs table. `hist` records two irregular things: an update
that the job runs which was missed, a row that was dropped too early.

*Actions.* Every command (`qstat`, `qselect`, `qalter`, a call of CloudFormation)
and every write of the jobs table is a step of its own. `HookValidateJob` and
`HookRunJob` tell the monitor before OpenPBS has the job or starts it, as the hooks
do. `MonTake` and `MonClear` are `get_updates`: updates less than a second old stay,
and the event is cleared after the locks. `MonSelect`, `MonList` and `MonSync` are
`_sync_jobs`. `ProvGet` to `ProvSync` are a job's way through `_poll_queue`;
`CheckStatus` gives what `check_status` returns for each state of the stack, None
included. `HkRow`, `HkDelete` and `HkReset` are `retry_provisioning_cleanup`,
`HkCandidate` and `HkReap` the passes that delete the stack of a job the cache does
not know. `FinSelect` to
`FinProcess` are the finished job processor: what is written to a row after it was read
in `FinScan` goes with it in `FinDelete`.

*Time.* Creating a stack takes minutes, and so does getting old, while a thread takes
seconds for what it has in hand. Two guards say so: a job does not start while its stack
is being created; and a stack is not complete, and does not become older than its
timeout, before the monitor has taken every update it was signalled and is done with it,
the provisioner is past two consecutive calls and the finished job processor past a list
from before (`MinutesLater`). A stack may age at any time after that (`StackAges`); if
the job could have run all that time and has not, that counts as a fault. The listing
at a restart may fail without being counted, since there is one for each restart.

*Left out.* More than one job (the queue's order is the other module's subject;
what a `qstat` for several jobs does when one of them has finished is a fault
here), spot fleets, reserved instances, budgets and licenses (a check that raises
is a fault), job status messages.

### NodeHousekeeping

*State.* `job` has each job's state, whether it is assigned, and the node it runs on.
`stack`, `desired` and `inst` are the stack of the group, the desired capacity of its
auto scaling group and the instances; `cached` is the instance cache, `node` the
compute nodes in OpenPBS (`bare`: created without attributes), `used` those that
have run a job. `prov` and `hk` are the two threads with what they have read. `late`
and `hk.miscount` are history: jobs that started after the session looked at the
nodes, and a reading of the desired capacity that does not stand for the instances.

*Actions.* `ProvDrain`, `ProvStart`, `ProvUpdate` and `ProvAssign` are the provisioner in
batch mode (a job of the batch may be deleted or, after a failed try, have started in
between), with the arithmetic of `BatchCapacityHelper` in `Target` and `Rest`. As in the
code and in the group's launch template overrides, capacities are counted in units of
`Weight`, the `weighted_capacity` of the instance type: a job asks for `Weight`, and a job
on a node that is still free takes one unit of what the node is worth. `HkPass1`,
`HkPass4Check`, `HkPass456`, `HkTerminate`, `HkScale` and `HkRetry` are the session, cut
where others can interfere. `_can_terminate` is `Eligible`; that a node has been idle for
long enough is any choice in `HkPass1`. Instance ids are used again when nobody knows them
any more, so that a small set is enough.

*Left out.* Spot fleets, `keep_forever`, the minimum idle time as a number, overlapping
sessions (in `JobProvisioning` they may overlap), the deletion of the computer in the
directory. The jobs table is taken to be up to date.

### ProjectMembership

*State.* `group`, `member` and `project` are the tables the API writes, `removal` what the
deletion of a group has still to do, `linked` and `access` the project-groups and
user-projects tables. `known` and `enrolled` are the directory's groups and their members.
`queue` holds the tasks by message group id (a user or a project), in the order in which
the calls wrote their tables; the first `sent` of them have been sent and are the messages
on SQS, each with its receive count, the others belong to calls that have still to send.
`hidden` are the message groups in flight, `recent` the messages of the last five minutes.
`work` is what each worker does. `lost` is history: `raced` (tasks about a user and about
a project were pending at the same time, one of them a revocation), `regroup` (the groups
of a project were changed), and `other` for everything else that may keep a task from its
effect, named where it is noted: a duplicate that was dropped, a message that was not
sent, a call that sends before one that wrote earlier, a dead-lettered task (the one of a
group that is gone, or one that the directory refuses), an addition that the directory has
already, a task of a disabled group, a member of two groups, a task that took longer than
the visibility timeout.

*Actions.* A call of the API writes its tables (`AddUser`, `RemoveUser`, `UpdateProject`,
`SetProject`, and `DeletionRemoves` for each member of a group that is deleted) and later
sends its task (`Send`), is dropped as a duplicate (`SendIsDropped`) or fails to send
(`SendFails`); what other calls write and send comes in between, and `Send` may take the
task of a later write first. A task is several steps: `MemberTask` reads the group,
`MemberEnrols` changes the directory, which may refuse (`MemberFails`) or know the member
(`MemberExists`: the message is deleted), and reads the group's projects, and
`MemberWrite` writes the access rows; `ProjectTask` reads the project's groups, and for each
`ProjectLink` writes the link, `ProjectMembers` reads the members and `ProjectWrite`
writes their rows. `Receive`, `Finish`, `Crash`, `Expire` and `DeadLetter` are the
task manager and its queue. `SyncGroup` makes the directory follow the groups table; its
messages have message groups of their own, so it may come at any time.

*Left out.* The life of users, the rest of the synchronisation with the directory, a
project's deletion, a call that fails halfway through several users (each user is a call).
What a call checks it checks in the step that writes. A crash between two tables of one
API call is not told apart from a call that fails before its task is sent.

## 3. Runs

Passing runs:

| Run | Question | Properties |
|---|---|---|
| `stop_terminate` | Are stop, terminate and the disabling of the owner carried through, at any moment, and does a creation come to an end? | `TypeOK`, `RowsHaveSession`, `DeletionIsPending`, `DeletingIsFinal`, `CreationSettles`, `TerminateCompletes`, `StopCompletes`, `DisabledUserLosesSession` |
| `reboot_resume` | Does the row agree with the instance over forced stop, resume, reboot and update, and does the group drain whatever fails? | `StoppedIsStopped`, `ResumeCompletes`, `GroupDrains` |
| `hibernation` | The same when stopping is hibernating, with the schedule's stop and resume | `StoppedIsStopped`, `ResumeCompletes` |
| `faults` | Can an instance be lost track of? | `InstanceHasServerRow`, `OrphanHasCause` |
| `queue_fifo` | Do heap and index agree, and does the queue implement `FifoJobGroups`? | `TypeOK`, `InOneHeap`, `ServesInOrder` |
| `queue_groups` | Do groups that come and go all get their turn, and does a job that the queue has dropped come back? | `RingInRange`, `QueuedComesBack`, `GroupsAreServed` |
| `job_provisioning` | Does a job get one stack, start, and end in the finished jobs table, whatever overtakes what? | `TypeOK`, `BuildIsFresh`, `JobsStart`, `FinishedRecorded`, `RunningSeen` |
| `node_housekeeping` | Does the session take idle capacity away, and only that, while the provisioner adds some? | `TypeOK`, `CapacityBounded`, `BusyNodesSurvive`, `JobsRun`, `CapacityReleased` |
| `project_membership` | Does the access table agree with the tables when the tasks are done, and are they ever done? | `TypeOK`, `GrantsArrive`, `RevokesArrive`, `Drained` |

Runs in which TLC shows that the code does not do what a comment or document says
(quoted in `PROJECT.json`, `findings`):

| Run | Shows |
|---|---|
| `terminate_undone` | A reboot starts a resume command; the user terminates; the end of the command writes INITIALIZING over DELETING. |
| `retry_started` | The monitor takes the update that a job runs and lists the job before OpenPBS has started it; its row stays QUEUED: when the stack is older than its timeout the housekeeper deletes it under the job. No fault is needed. |
| `groups_take_effect` | A group is added to an enabled project: its task gets the sets of groups as text and does nothing, and the members have no access. No fault is needed. |

More disagreements, met while modelling, have no run of their own. TLC finds those of
the modules with the constants given here:

* with the queue's real `max_receive_count` (`MaxReceive` = 16, thresholds 30, 30, 4, 6, no
  requests) `CreationSettles` fails: the message of a host whose DCV session is refused
  goes to the dead-letter queue before the handler has counted to its threshold, and the
  session stays in CREATING (`dcv_host_ready_event_handler.py:141` promises ERROR);
* stop, resume and terminate within five minutes (`Requests` = {"stop", "resume",
  "terminate"}, `MaxRequests` = 3): the second validation of a deletion has the same body
  as the first and is dropped, the session stays DELETING and its instance runs, which
  the handler's timeout is there to prevent
  (`validate_dcv_session_deletion_event_handler.py:154`);
* with `MaxSize` = 2 and three jobs of one group `GroupsAreServed` fails: `put` to a full
  group waits for room while it holds the locks that `get` needs
  (`job_provisioning_queue.py:112`; the real size is 10000);
* a job that a limit blocks is not put back (`GetLimited`; `job_provisioning_queue.py:414`,
  against line 486): `put` finds it tracked and does nothing, and `get` then removes it.
  `QueuedComesBack` says what the code does have: the next listing queues it again;
* a forced stop (`forceStop`) of a session that has already stopped sets STOPPING,
  and no EC2 event will ever change it; `virtual_desktop_server_utils.py:107` says
  the event will. `StopCompletes` fails with `Requests = {"forceStop"}`,
  `MaxRequests = 2`, so the run that checks it takes plain stops;
* under fair share, `put` of a tracked job changes the entry's priority inside the
  heap (`job_provisioning_queue.py:287`), and with `Scores = {10, 20}` and two jobs of one
  group TLC finds a heap whose first entry has not its lowest priority, against the
  class's "maintaining order or jobs being provisioned (fifo or fair-share)";
* `get_queue_order` (line 179) reuses the name of its parameter in the loop, so the
  position of a job's queue in the profile has no effect, against its docstring;
* with `Slots` = 2 a node that runs a job is terminated under it: pass4 leaves out nodes
  that are busy, and a node with room for another job is not (`node_house_keeper.py:514`,
  against the comment at line 492). `BusyNodesSurvive` therefore speaks of full nodes, which
  do survive; asked for every job that ran at pass4 (`JobsOn(i) \subseteq late` in place of
  `~StillFull(i)`), it fails;
* with `Slots` = 4, `Weight` = 2 and four jobs `CapacityBounded` fails: a free node that
  runs three jobs makes the available capacity negative, and `compute_batch_capacity`
  adds what is missing to the capacity of the whole group. A node has more room than
  weight when hyper-threading is off for the job, so that the weight is its cores, but the
  launch template cannot turn it off (`cloudformation_stack_builder.py:466`: no CPU
  options, or several instance types) and OpenPBS counts vCPUs;
* without its excuse `hk.miscount`, `BusyNodesSurvive` fails: pass5 subtracts from the
  desired capacity a candidate that has gone already, or that the group has replaced
  meanwhile, reaches 0 and deletes the stack under the other nodes' jobs;
* `check_status` returns None for a stack that rolls back, so the housekeeper resets the
  job but leaves the stack, and the next try finds it failed and leaves it to the
  housekeeper, which now sees a job that is not provisioned: `JobsStart` holds only with
  its clause `Stranded`;
* the same clause covers an assignment (`qalter`) that fails after the stack was built:
  the retry finds the stack complete and does nothing more;
* the clause `Forgotten` covers a listing taken before the provisioner has written the
  row, and synchronised after it: the row says the job is not provisioned;
* `GrantsArrive` and `RevokesArrive` except: two calls about one user or project write in
  one order and send in the other, and the last task undoes the last write; a removal that
  is delivered again after a crash is refused by the directory and its access rows stay;
  an addition that Active Directory reports as existing is deleted without its rows; a
  member removed from one of two groups of a project loses access; adding, removing and
  adding a member within five minutes drops the third message; the tasks of a disabled
  group are passed over and not repeated when it is enabled.

Two defects lie in parts that are not modelled. The thread pool's `submit` counts idle
workers as active, so with as many minimum as maximum workers it refuses every task
(`thread_pool_executor.py:228`). The distributed lock's `stop` removes entries from the
dictionary it iterates over (`distributed_lock.py:138`), and the application's shutdown
stops the lock before the leader election, which still uses it (`soca_context.py:256`).

### Bounds, and why they are enough

* `MaxRequests` is 2 in the runs with users: the hazards are about one operation
  overtaking another (a terminate during a stop, a reboot during a resume). The
  creation of the session is in every run and is not counted.
* `MaxReceive` is 2 or 3 and the thresholds are 0 or 1, so that a message can fail,
  be retried, be given up and be dead-lettered, and the dead-letter queue takes
  its followers too. `faults` sets the creation threshold to 0, so that a session
  can be given up, rebooted and terminated around one redelivery. `stop_terminate`
  has `MaxReceive` 3, more than its thresholds: it is about the handlers' logic, and
  the configured limit, which is lower than the thresholds, is listed above.
* `MaxFaults` is 1: one crash at any step is what recovery code can be asked to
  survive. `faults` combines it with a reboot and a termination. The theorems hold
  for any number.
* `queue_fifo` has five jobs and room for four, so that a heap has three levels and fills
  up; `queue_groups` three groups, so that groups before, at and after the index come and
  go, under fair share with two scores and limits that may fail. One putting thread stands
  for the job monitor; two add nothing but a second copy of a listing.
* `job_provisioning` has one job, because jobs meet only in the queue, and one fault, which
  may be a restart, a hold, a failing call or a stack that fails, at any step. A second
  session multiplies the states without new outcomes for one job; the theorems cover any
  number.
* `node_housekeeping` has two jobs and three instances: while one node runs a job another
  is a candidate, and a terminated instance can still be in the cache while its successor
  comes up. One fault may be a failing call or a deleted job. With `Slots` = 1 a node is
  full with one job; the theorem about full nodes is for any number. `Weight` = 2 tells
  units from instances.
* `project_membership` has two calls, on tables in any consistent state: add and remove, two
  of one kind, a change of a member and of a project, a deletion and anything else. Two calls
  can overtake each other, race and be taken for duplicates; three are beyond the time of a
  run, and the theorems are for any number. Two workers are what one user's and one
  project's tasks can use. `groups_take_effect` has two groups and no faults.
  The directory of the run can be changed (`ReadOnly` is FALSE); the theorems are for both.
* The runs of `VdcSession`, the queue and `ProjectMembership` allow the system to stop:
  requests, jobs and calls are used up. The other two check for deadlock.

### Fairness

`VdcSession!Fairness` is weak fairness of the steps that something drives: the
events thread polls in a loop, a request runs to its end, EC2 brings an instance
from pending to running and from stopping to stopped, the host's boot script
sends its message, SSM ends a command (with success or failure) and the queue
monitor polls. Nothing is assumed of users, schedules, faults, the broker (it may
never make a session ready) or the end of the deduplication window.
`JobProvisioningQueue!FairSpec` is weak fairness of the provisioner thread, which
loops on `get` with a timeout. Nothing is assumed of the putting threads, but in
`QueuedComesBack`, which says so (`ListingGoesOn`: the job monitor lists what is queued at
least once a minute).
`JobProvisioning!Fairness` and `NodeHousekeeping!Fairness` are weak fairness of the threads,
which are loops with a timeout, and of OpenPBS, CloudFormation and Auto Scaling doing what
they were asked for. Strong fairness is assumed four times: that the monitor some time
meets its updates when all are a second old (`MonTake({})`), that a stack is up although the
threads have something in hand again and again (`StackCreated`), that some session meets every
node whose time is over, and that OpenPBS starts a job that can start again and again.
Nothing is assumed of users, faults, the ageing of a stack or the end of a job with a
stack of its own; a job on shared capacity ends.
`ProjectMembership!FairSpec` is weak fairness of the listener, of each worker and of the
calls' sending: a call that has written goes on, or fails.

The liveness properties of `VdcSession` end with `\/ hist # {}`: they say what
happens absent irregularities. `CreationSettles` and `GroupDrains` have no such
clause. Those of the scheduler and of project access name in their text what they
except (`Stranded`, `Forgotten`, `hist`, `lost`), each with the cause in the comment.

## 4. Proofs

| Theorem | States | Argument |
|---|---|---|
| `TypeCorrect` | `Spec => []TypeOK` | `TypeOK` is inductive as it stands, because it contains `ThreadInBatch`: what the thread has handled is part of its batch, and its batch is a prefix of the queue (others only append). |
| `RowsCorrect` | `Spec => []RowsHaveSession` | `RowsInv`: the property of the row alone is not inductive, because a copy is written back later; the copies of the thread and of the request must have it too, and a request that is about to write DELETING holds a copy with a DCV session id. |
| `ServerRowCorrect`, `OrphanCorrect` | `Spec => []InstanceHasServerRow`, `Spec => []OrphanHasCause` | `HostInv` links the steps of a creation and of a termination to what they have already written: a request past `createServer` has a server row, one at `deleteRow` has a terminated instance or a recorded failure. A creation whose write of a row raises leaves the instance and says so (`create_error`). |
| `DeletionCorrect` | `Spec => []DeletionIsPending` | `DeletionInv`: the validation stays behind the handled part of the batch until a handler ends the deletion, and any step that removes it is one of the five recorded losses. |
| `StoppedCorrect` | `Spec => []StoppedIsStopped` | `StoppedInv`: the clause "or a resume" of the property is too weak by itself, because a resume that fails to start would leave it; the invariant grants it only to a resume that has started the instance and is about to write RESUMING. A copy that says STOPPED is harmless: where it is written over something else, the loss is recorded. `LaunchInv` (until the launch writes the row there is none, nor a copy of one) keeps the launch from meeting a STOPPED row. |
| `DeletingStays` | for requests without `forceStop`, `resume`, `reboot`, `scheduledResume`: `Spec => DeletingIsFinal` | `FinalInv`: without a start or a reboot no event that resumes comes into being, in the host, SSM, the controller queue or the session's queue, and a plain stop that is under way has not read DELETING. The condition is the weakest of its kind: `terminate_undone` shows a reboot undoing a termination, and TLC finds the same with `Requests` = {"forceStop", "terminate"}, {"stop", "resume", "terminate"} and {"stop", "scheduledResume", "terminate"} (`MaxRequests` 2, 3, 3). |
| `JobProvisioningQueueProofs!TypeCorrect` | `Spec => []TypeOK` | from `QueueInv`, below. |
| `HeapsCorrect` | `Spec => []InOneHeap` | from `QueueInv`: the ring's groups are distinct, each heap holds jobs of its group, each once (`Distinct`), and what is tracked is what the ring holds and what `get` has in hand. `heappush` and `heappop` only rearrange entries (`HeapPushResult`, `HeapPopResult`). |
| `RingCorrect` | `Spec => []RingInRange` | from `QueueInv`: the index after a removal is in the shorter ring. |
| `Implements` | in FIFO mode, `Spec => ServesInOrder` | `put` is `Put` or, of a job that is tracked already, a stutter; `RingGet` is `Take` of the root, which is in one place by `HeapsCorrect` and the first because `QueueInv` says that in FIFO mode the priority of every entry is that of its submission, and that every heap is one: each entry is at least the one above it (`RootLowest`); the second half of `get` is `Decide`; `RingDrop` and everything else stutters. |
| `JobProvisioningProofs!TypeCorrect` | `Spec => []TypeOK` | inductive as it stands. |
| `FreshBuilds` | `Spec => []BuildIsFresh` | only the provisioner makes a stack, and it does so in the step `build`, which it reached from `check` when there was none; no other step of any thread turns `none` into something else. |
| `NodeHousekeepingProofs!TypeCorrect` | `Spec => []TypeOK` | `TypeOK` contains that a desired capacity exists exactly with a stack; what is subtracted never goes below 0. |
| `CapacityIsBounded` | with `Slots` at most `Weight` + 1, `Spec => []CapacityBounded` | `CapacityInv`: the targets that the provisioner and the session hold are bounded, too, when they are written back later; the available capacity is not negative, because a free node has no more jobs than it weighs: each job on a free node has a unit of the weight of its node to itself (`FreeHasRoom`), and the pairs of a free node and a unit are as many as these nodes weigh together. |
| `BusyNodesAreSafe` | `Spec => BusyNodesSurvive` | `QuietInv`: from pass4 on, a candidate is not full but with late jobs (`FewerJobs`: others only leave); and if the counted capacity leaves nothing, every instance is a candidate (`NothingRemains`: fewer candidates would weigh less than the desired capacity), unless the reading was off. |
| `ProjectMembershipProofs!TypeCorrect` | `Spec => []TypeOK` | inductive as it stands: a worker's task was in its message group when it was received, and no more is sent of a message group than it has. |
| `GrantsCorrect` | `Spec => []GrantsArrive` | `GrantInv`, which holds as long as no task was lost or overtaken. It counts a task from the write of its call on, so that sending one in order changes nothing (`SendQuiet`), and the directory decides only whether a task goes on. `GrantsArrive` speaks of quiet states only; the strengthening says of every state who will bring what is missing. A missing link of an enabled project has an enabling task that waits or has still to come to the group (`LinksComing`); a missing access row has such a task, or a task that adds the member and has still to write the project (`AccessComing`). The step that could break it is the member's task that reads the links before the project's task writes them: then `LinksComing` says that the project's task is still to link the group, and it reads the members after that. A task that takes away is followed by the one that gives back (`LastTasks`), and no two workers execute tasks of one message group (`Owned`). |
| `RevokesCorrect` | `Spec => []RevokesArrive` | `RevokeInv`, on top of `GrantInv`, holds as long as nothing is noted in `lost`. It says of every state who will take away what is too much: a link of a disabled project has a disabling task (`LinksGoing`), an access row belongs to a member of a group of the project whose disabling, if it is disabled, is still to come, or whose removal is (`AccessGoing`). What a worker has read may be old when it writes; `WorkWithin` says that it still agrees with the tables. That is so because a task that takes away never meets one of the other kind (`~Conflict`, the condition that `lost` records as `raced`): members are removed only while no project has a task, and projects disabled only while no user has one. |

The assumptions are `ConstantsAssumption` of each module, which TLC evaluates in every
run. The theorems hold for every threshold, every `MaxReceive`, any set of requests and
any number of faults; for any jobs, groups, threads and sizes; for any housekeeping
sessions, instances and weights; for any users, groups, projects, workers and calls (the
runs have one user and one project). Three theorems take one condition more, each because
the code does not have the property without it: `CapacityIsBounded` that a node is free
with no more jobs than it weighs (with more, see section 3), `Implements` FIFO mode,
`DeletingStays` that nothing is started, rebooted or stopped by force.

*Heaps of any length.* That `heapq` moves entries along a path does not follow by
expanding definitions: the path is as long as the heap is deep. `JobProvisioningHeapProofs`
argues with least and greatest elements of sets of positions (`LeastElement`, from the
library's theorem on minimal elements of a well-founded order, which has no operator
parameter): the ancestors of a position are a chain from the root (`AncestorChain`,
`AncestorsNest`), the position at which an entry stops rising exists (`TopExists`), and
so does the lowest hole, which is a leaf with the other holes above it (`HolesLine`).
`SiftDownMakesHeap` asks of the input only that it is a heap except at the entry that
moves; `HeapPushResult` and `HeapPopResult` say what the queue's proofs need: the entries
are the same but for the one pushed or popped, each once, and the order holds again.

Every safety property of the passing runs, invariant or action property, is proved.
Model-checked only: the liveness properties (`CreationSettles`, `TerminateCompletes`,
`StopCompletes`, `DisabledUserLosesSession`, `ResumeCompletes`, `GroupDrains`,
`GroupsAreServed`, `QueuedComesBack`, `JobsStart`, `FinishedRecorded`, `RunningSeen`,
`JobsRun`, `CapacityReleased`, `Drained`), because the prover has no rule for fairness and
no ENABLED. `DeletingIsFinal` with a reboot, `OnlyUnstarted` and `GroupsTakeEffect` are
refuted by their runs.

## 5. Not modelled

* *VDC*: several events threads and the visibility timeout of their queue; permissions,
  profiles and software stacks, which are tables with create, update and delete.
* *Scheduler*: spot fleets and reserved instances; job status messages; the parsing of
  OpenPBS output and of select expressions; licenses, budgets, applications.
* *Cluster manager*: the life of users, the synchronisation of users with the directory, the
  AD automation agent, mail.
* *SDK*: leader election and distributed lock (the lease is kept by a vendored lock
  client; the two modules call it, and what is wrong in them, listed above, needs no
  model); the thread pool; configuration, tokens, HTTP server, metrics.
* Deployment code (CDK), shell templates, the command line, the gateway, the web portal,
  record types and AWS request building: no ordering or shared state that a state
  machine would show. They are the larger part of the repository.

What would add most: several threads and groups of the VDC's events queue with an abstract
specification of a group handled in order; an abstract session that `VdcSession` refines;
users in `ProjectMembership`.

## 6. Running

    tlc -workers 2 -config stop_terminate.cfg VdcSession
    tlc -workers 2 -config queue_groups.cfg MCJobProvisioningQueue
    tlapm VdcSessionProofs.tla
    tlapm JobProvisioningHeapProofs.tla
    tlapm JobProvisioningQueueProofs.tla
    tlapm JobProvisioningProofs.tla
    tlapm NodeHousekeepingProofs.tla
    tlapm ProjectMembershipProofs.tla
    tlapm ProjectRevokesProofs.tla

No run takes more than about two minutes with two workers; `faults` has the most states,
about 7 million. The
definitions marked *Mutant* are variants of the definition after them, each a
plausible slip; with the variant in its place TLC reports the property that
`PROJECT.json` pairs with it.
