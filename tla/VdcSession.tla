------------------------------ MODULE VdcSession ------------------------------
(***************************************************************************)
(* The life of one virtual desktop session of the virtual desktop          *)
(* controller (idea-virtual-desktop-controller): the session, server and   *)
(* counter rows in DynamoDB, the FIFO group of the session in the events    *)
(* queue, the events thread that handles it, one API request at a time,     *)
(* and, as the environment, EC2, the DCV broker, SSM and the controller     *)
(* queue.  Rows are read, changed in memory and written back whole, so the  *)
(* read and the write of a handler and of a request are separate steps.     *)
(***************************************************************************)
EXTENDS Naturals, Sequences, FiniteSets

CONSTANTS
    SESSION_CREATION_THRESHOLD_COUNT, \* retries of the broker's create
    VALIDATION_REQUEST_THRESHOLD,     \* validations before giving up
    SESSION_DELETED_THRESHOLD,        \* validations that tolerate DELETED
    RESUME_REQUEST_COUNT_THRESHOLD,   \* reboot messages of a READY session
    MaxReceive,                       \* max_receive_count of the queue
    HibernationEnabled,               \* session.hibernation_enabled
    Requests,                         \* what users and schedules may ask for
    MaxRequests,                      \* bound: how many requests are made
    MaxFaults                         \* bound: crashes, duplicates, instance
                                      \* failures

AllRequests == {"stop", "forceStop", "resume", "reboot", "terminate", "update",
                "scheduledStop", "scheduledResume", "userDisabled"}

ASSUME ConstantsAssumption ==
    /\ SESSION_CREATION_THRESHOLD_COUNT \in Nat
    /\ VALIDATION_REQUEST_THRESHOLD \in Nat
    /\ SESSION_DELETED_THRESHOLD \in Nat
    /\ RESUME_REQUEST_COUNT_THRESHOLD \in Nat
    /\ MaxReceive \in Nat \ {0}
    /\ HibernationEnabled \in BOOLEAN
    /\ Requests \subseteq AllRequests
    /\ MaxRequests \in Nat
    /\ MaxFaults \in Nat

VARIABLES
    session,  \* the row of the sessions table; st = "NONE": there is no row
    server,   \* the state column of the servers table; "none": no row
    ctr,      \* the counters table
    queue,    \* the session's message group in the events queue
    dedup,    \* bodies without a timestamp sent in the last five minutes
    thread,   \* the events thread that holds the group
    api,      \* the request being served
    ec2,      \* the instance
    boot,     \* the message the host has still to send after booting
    broker,   \* the DCV session as the broker reports it
    ssm,      \* commands sent to the host and not finished
    notes,    \* notifications in the controller queue (a standard queue)
    hist,     \* history: the irregular things that have happened so far
    requests, \* how many requests have been made
    faults    \* how many faults have happened

db == <<session, server, ctr>>
env == <<ec2, boot, broker, ssm>>
budget == <<requests, faults>>
vars == <<db, queue, dedup, thread, api, env, notes, hist, budget>>

-----------------------------------------------------------------------------
(* Rows and messages *)

States == {"PROVISIONING", "CREATING", "INITIALIZING", "READY", "RESUMING",
           "STOPPING", "STOPPED", "ERROR", "DELETING"}

\* dcv: whether the row holds a dcv_session_id.
Rows == [st : States \cup {"NONE"}, dcv : BOOLEAN]
NoRow == [st |-> "NONE", dcv |-> FALSE]

ServerStates == {"none", "CREATED", "STOPPING", "STOPPED", "HIBERNATED"}
InstanceStates == {"none", "pending", "running", "stopping", "stopped",
                   "terminated"}
BrokerStates == {"none", "CREATING", "READY", "DELETING", "DELETED"}
NoteTypes == {"Ec2Running", "Ec2Stopping", "Ec2Stopped", "ResumeSuccess",
              "ResumeFailed", "CpuReport"}
EventTypes == NoteTypes \cup
              {"HostReady", "RebootComplete", "ValidateCreation",
               "ValidateDeletion", "ScheduledResume", "ScheduledStop",
               "Terminate"}
Flags == {"crash", "dead_letter", "dedup_drop", "lost_update", "stale_event",
          "ec2_error", "terminate_error", "create_error", "delete_error"}

Message(t) == [type |-> t, rc |-> 0]

\* EventsClient.publish_event gives no deduplication id: the queue drops a body
\* it has seen in the last five minutes.  A body with a timestamp is never
\* the same; these are the publishers that put none into the detail.
Repeats(t) == t \in dedup
Send(t) == queue' = Append(queue, Message(t))
SendUntimed(t) ==
    /\ queue' = IF Repeats(t) THEN queue ELSE Append(queue, Message(t))
    /\ dedup' = dedup \cup {t}

Gone == session.st = "NONE"
Dropped(t) == IF Repeats(t) THEN {"dedup_drop"} ELSE {}
\* A whole row is written over one that is not the row that was read.
Overwrites(read) == IF session # read THEN {"lost_update"} ELSE {}

Init ==
    /\ session = NoRow
    /\ server = "none"
    /\ ctr = [creation |-> 0, validate |-> 0, resumed |-> 0]
    /\ queue = <<>>
    /\ dedup = {}
    /\ thread = [pc |-> "idle", n |-> 0, done |-> 0, snap |-> NoRow]
    /\ api = [pc |-> "idle", op |-> "none", snap |-> NoRow]
    /\ ec2 = "none"
    /\ boot = "none"
    /\ broker = "none"
    /\ ssm = {}
    /\ notes = {}
    /\ hist = {}
    /\ requests = 0
    /\ faults = 0

-----------------------------------------------------------------------------
(* Requests: the create, stop, resume, reboot, terminate and update APIs *)

ApiIdle == [pc |-> "idle", op |-> "none", snap |-> NoRow]
ApiAt(step) == api.pc = step
ApiGoto(step) == api' = [api EXCEPT !.pc = step]
ApiEnds == api' = ApiIdle

\* A call raises in the middle of the work, and that is noted.
Fails(flag) ==
    /\ faults < MaxFaults
    /\ faults' = faults + 1
    /\ hist' = hist \cup {flag}

\* provision_host_for_session: RunInstances, then the server row.
ApiProvision ==
    /\ ApiAt("idle")
    /\ ec2 = "none"
    /\ ec2' = "pending"
    /\ boot' = "first"
    /\ api' = [ApiIdle EXCEPT !.pc = "createServer", !.op = "create"]
    /\ UNCHANGED <<db, queue, dedup, thread, broker, ssm, notes, hist, budget>>

\* When server_db.create raises, create_session catches that and returns the
\* session with a failure reason: the instance stays, without any row.
ApiCreateServerRow ==
    /\ ApiAt("createServer")
    /\ \/ server' = "CREATED" /\ ApiGoto("createRow") /\ UNCHANGED <<hist, faults>>
       \/ Fails("create_error") /\ ApiEnds /\ UNCHANGED server
    /\ UNCHANGED <<session, ctr, queue, dedup, thread, env, notes, requests>>

\* update_schedule_for_session or session_db.create raises: the instance and
\* its server row stay, without a session row.
ApiCreateSessionRow ==
    /\ ApiAt("createRow")
    /\ \/ /\ session' = [st |-> "PROVISIONING", dcv |-> FALSE]
          /\ UNCHANGED <<hist, faults>>
       \/ Fails("create_error") /\ UNCHANGED session
    /\ ApiEnds
    /\ UNCHANGED <<server, ctr, queue, dedup, thread, env, notes, requests>>

\* The states in which VirtualDesktopSessionUtils accepts a request.
Accepts(op, row) ==
    CASE op = "stop"   -> row.st \in {"READY", "RESUMING"}
      [] op = "resume" -> row.st = "STOPPED"
      [] op = "reboot" -> row.st \in {"READY", "ERROR"}
      [] OTHER         -> TRUE

\* Mutants: the broker is asked to delete a session that was never created; the
\* row is deleted and the instance left.
FirstStepIgnoresId(op, row) ==
    CASE op \in {"stop", "forceStop", "terminate"} -> "brokerDelete"
      [] op = "resume"                             -> "startInstance"
      [] OTHER                                     -> "writeRow"
FirstStepLeavesInstance(op, row) ==
    CASE op \in {"stop", "forceStop"} -> IF row.dcv THEN "brokerDelete"
                                                   ELSE "writeRow"
      [] op = "terminate" -> IF ~row.dcv \/ row.st = "STOPPED"
                             THEN "deleteRow" ELSE "brokerDelete"
      [] op = "resume"    -> "startInstance"
      [] OTHER            -> "writeRow"

\* The first call the request makes once it has read the row.
FirstStep(op, row) ==
    CASE op \in {"stop", "forceStop"} -> IF row.dcv THEN "brokerDelete"
                                                   ELSE "writeRow"
      [] op = "terminate" -> IF ~row.dcv \/ row.st = "STOPPED"
                             THEN "terminateInstance" ELSE "brokerDelete"
      [] op = "resume"    -> "startInstance"
      [] OTHER            -> "writeRow"

\* A refused request changes nothing.  One for a session without a row fails
\* on the missing row (session.failure_reason of None) and changes nothing.
ApiRead(op) ==
    /\ ApiAt("idle")
    /\ op \in {"stop", "forceStop", "resume", "reboot", "terminate", "update"}
    /\ op \in Requests
    /\ requests < MaxRequests
    /\ ~Gone
    /\ Accepts(op, session)
    /\ api' = [pc |-> FirstStep(op, session), op |-> op, snap |-> session]
    /\ requests' = requests + 1
    /\ UNCHANGED <<db, queue, dedup, thread, env, notes, hist, faults>>

\* DCVBrokerClient.delete_sessions: refused when there are connections and the
\* request does not force, or by the broker; a session the broker does not
\* know counts as deleted.
BrokerDelete == broker' = IF broker \in {"CREATING", "READY"}
                          THEN "DELETING" ELSE broker

ApiBrokerDelete ==
    /\ ApiAt("brokerDelete")
    /\ \/ ApiEnds /\ UNCHANGED broker
       \/ ApiGoto("writeRow") /\ BrokerDelete
    /\ UNCHANGED <<db, queue, dedup, thread, ec2, boot, ssm, notes, hist, budget>>

\* Mutant: resume_sessions does not save RESUMING.
TargetForgetsResume(op, row) ==
    CASE op \in {"stop", "forceStop"} -> "STOPPING"
      [] op = "terminate"             -> "DELETING"
      [] op = "reboot"                -> "RESUMING"
      [] OTHER                        -> row.st

Target(op, row) ==
    CASE op \in {"stop", "forceStop"} -> "STOPPING"
      [] op = "terminate"             -> "DELETING"
      [] op \in {"resume", "reboot"}  -> "RESUMING"
      [] OTHER                        -> row.st

\* Mutant: no validation is published for a terminated session.
AfterWriteForgetsEvent(op, row) ==
    CASE op \in {"stop", "forceStop"} -> IF row.dcv THEN "publish"
                                                   ELSE "stopInstance"
      [] op = "reboot"                -> "rebootInstance"
      [] OTHER                        -> "idle"

AfterWrite(op, row) ==
    CASE op \in {"stop", "forceStop"} -> IF row.dcv THEN "publish"
                                                   ELSE "stopInstance"
      [] op = "terminate" -> "publish"
      [] op = "reboot"    -> "rebootInstance"
      [] OTHER            -> "idle"

\* VirtualDesktopSessionDB.update writes the whole row, whatever is there; on
\* a deleted row it creates it again and then fails on the missing old entry.
ApiWriteRow ==
    /\ ApiAt("writeRow")
    /\ session' = [api.snap EXCEPT !.st = Target(api.op, api.snap)]
    /\ hist' = hist \cup Overwrites(api.snap)
    /\ IF Gone \/ AfterWrite(api.op, api.snap) = "idle"
       THEN ApiEnds
       ELSE ApiGoto(AfterWrite(api.op, api.snap))
    /\ UNCHANGED <<server, ctr, queue, dedup, thread, env, notes, budget>>

ApiPublish ==
    /\ ApiAt("publish")
    /\ SendUntimed("ValidateDeletion")
    /\ hist' = hist \cup Dropped("ValidateDeletion")
    /\ ApiEnds
    /\ UNCHANGED <<db, thread, env, notes, budget>>

\* stop_instances fails on an instance that is not running or stopped, and
\* the server row must exist.
CanStopInstance == ec2 \in {"running", "stopping", "stopped"} /\ server # "none"
StopInstance ==
    /\ ec2' = IF ec2 = "running" THEN "stopping" ELSE ec2
    /\ notes' = IF ec2 = "running" THEN notes \cup {"Ec2Stopping"} ELSE notes
ServerAfterStop == IF HibernationEnabled THEN "HIBERNATED" ELSE "STOPPING"

\* A call to EC2 raises after the row has been written: the row is left so.
Ec2Error == hist' = hist \cup {"ec2_error"}

ApiStopInstance ==
    /\ ApiAt("stopInstance")
    /\ \/ /\ CanStopInstance /\ StopInstance /\ server' = ServerAfterStop
          /\ UNCHANGED hist
       \/ UNCHANGED <<ec2, notes, server>> /\ Ec2Error
    /\ ApiEnds
    /\ UNCHANGED <<session, ctr, queue, dedup, thread, boot, broker, ssm, budget>>

\* start_instances: an error (wrong state, no capacity) fails the request.
CanStartInstance == ec2 \in {"pending", "running", "stopped"}
StartInstance ==
    /\ ec2' = IF ec2 = "stopped" THEN "pending" ELSE ec2
    /\ boot' = IF ec2 = "stopped" /\ ~HibernationEnabled /\ boot # "first"
               THEN "again" ELSE boot

ApiStartInstance ==
    /\ ApiAt("startInstance")
    /\ \/ CanStartInstance /\ StartInstance /\ ApiGoto("writeRow")
       \/ ApiEnds /\ UNCHANGED <<ec2, boot>>
    /\ UNCHANGED <<db, queue, dedup, thread, broker, ssm, notes, hist, budget>>

\* A reboot emits no EC2 state change; the DCV session dies with the host's
\* processes and the host reports when it is back.
ApiRebootInstance ==
    /\ ApiAt("rebootInstance")
    /\ \/ /\ ec2 = "running"
          /\ boot' = IF boot = "first" THEN boot ELSE "again"
          /\ broker' = "none"
          /\ UNCHANGED hist
       \/ UNCHANGED <<boot, broker>> /\ Ec2Error
    /\ ApiEnds
    /\ UNCHANGED <<db, queue, dedup, thread, ec2, ssm, notes, budget>>

\* terminate_dcv_hosts: on success the instance is going and the server row
\* is deleted; on a ClientError the error is returned and the row stays.  On
\* a server row that is already gone the deletion raises.
Alive == ec2 \in {"pending", "running", "stopping", "stopped"}
\* Mutant: the server row is deleted whatever EC2 answered.
TerminateSucceedsAnyway ==
    /\ server # "none"
    /\ ec2' \in {ec2, "terminated"}
    /\ server' = "none"
    /\ UNCHANGED hist

TerminateSucceeds ==
    /\ server # "none"
    /\ ec2' = "terminated"
    /\ server' = "none"
    /\ UNCHANGED hist
TerminateFails ==
    /\ hist' = hist \cup (IF Alive THEN {"terminate_error"} ELSE {})
    /\ UNCHANGED <<ec2, server>>

ApiTerminateInstance ==
    /\ ApiAt("terminateInstance")
    /\ \/ TerminateSucceeds /\ ApiGoto("deleteRow")
       \/ TerminateFails /\ ApiGoto("deleteRow")
       \/ server = "none" /\ ApiEnds /\ UNCHANGED <<ec2, server, hist>>
    /\ UNCHANGED <<session, ctr, queue, dedup, thread, boot, broker, ssm, notes, budget>>

ApiDeleteRow ==
    /\ ApiAt("deleteRow")
    /\ session' = NoRow
    /\ ApiEnds
    /\ UNCHANGED <<server, ctr, queue, dedup, thread, env, notes, hist, budget>>

\* ScheduledEventHandler and UserDisabledEventHandler publish into the group.
PublishScheduled(op, t) ==
    /\ op \in Requests
    /\ requests < MaxRequests
    /\ ~Gone
    /\ SendUntimed(t)
    /\ hist' = hist \cup Dropped(t)
    /\ requests' = requests + 1
    /\ UNCHANGED <<db, thread, api, env, notes, faults>>

ScheduleStops == PublishScheduled("scheduledStop", "ScheduledStop")
ScheduleResumes == PublishScheduled("scheduledResume", "ScheduledResume")

UserIsDisabled ==
    /\ "userDisabled" \in Requests
    /\ requests < MaxRequests
    /\ ~Gone
    /\ Send("Terminate")
    /\ requests' = requests + 1
    /\ UNCHANGED <<db, dedup, thread, api, env, notes, hist, faults>>

-----------------------------------------------------------------------------
(* The events thread: a batch of the group is received, its messages are     *)
(* handled in order, and the handled ones are deleted together at the end.   *)

ThreadIdle == [pc |-> "idle", n |-> 0, done |-> 0, snap |-> NoRow]
Snap == thread.snap
Handling(t) == thread.pc = "handle" /\ queue[thread.done + 1].type = t

\* Mutant: the end of the batch is noticed one message late.
HandledLate ==
    thread' = [thread EXCEPT
                 !.pc = IF thread.done = thread.n THEN "delete" ELSE "read",
                 !.done = @ + 1, !.snap = NoRow]

\* The handler returned: the message will be deleted.
Handled ==
    thread' = [thread EXCEPT
                 !.pc = IF thread.done + 1 = thread.n THEN "delete" ELSE "read",
                 !.done = @ + 1, !.snap = NoRow]
\* The handler raised: this message and the rest of the group stay.
Kept == thread' = [thread EXCEPT !.pc = "delete", !.snap = NoRow]
\* The handler's update found no row: it has created one, and raised.
HandledUnlessGone == IF Gone THEN Kept ELSE Handled

\* Every message of the group is received, and counted, together.  The queue
\* moves a message to the dead-letter queue instead of delivering it once more
\* than max_receive_count times: those are the first k messages.
Expired(m) == m.rc >= MaxReceive
\* Mutant: without a redrive policy a message is delivered for ever.
ReceivedUncounted(m) == m
Received(m) == [m EXCEPT !.rc = @ + 1]

Receive ==
    /\ thread.pc = "idle"
    /\ queue # <<>>
    /\ \E k \in 0 .. Len(queue) :
          /\ \A i \in 1 .. Len(queue) : i <= k <=> Expired(queue[i])
          /\ queue' = [i \in 1 .. Len(queue) - k |-> Received(queue[i + k])]
          /\ hist' = IF k = 0 THEN hist ELSE hist \cup {"dead_letter"}
          /\ thread' = IF k = Len(queue) THEN thread
                       ELSE [ThreadIdle EXCEPT !.pc = "read", !.n = Len(queue) - k]
    /\ UNCHANGED <<db, dedup, api, env, notes, budget>>

ReadRow ==
    /\ thread.pc = "read"
    /\ thread' = [thread EXCEPT !.pc = "handle", !.snap = session]
    /\ UNCHANGED <<db, queue, dedup, api, env, notes, hist, budget>>

\* delete_message_batch
DeleteHandled ==
    /\ thread.pc = "delete"
    /\ queue' = SubSeq(queue, thread.done + 1, Len(queue))
    /\ thread' = ThreadIdle
    /\ UNCHANGED <<db, dedup, api, env, notes, hist, budget>>

\* A call to the broker or to AWS raises before the handler has changed
\* anything; handlers that make no such call do not raise this way.
Remote == {"HostReady", "RebootComplete", "ValidateCreation",
           "ValidateDeletion", "ScheduledStop", "CpuReport"}
HandlerRaises ==
    /\ thread.pc = "handle"
    /\ queue[thread.done + 1].type \in Remote
    /\ faults < MaxFaults
    /\ faults' = faults + 1
    /\ Kept
    /\ UNCHANGED <<db, queue, dedup, api, env, notes, hist, requests>>

\* The event is older than the instance's state, or newer than the row's: the
\* instance or the host reports before the handler can read the RESUMING of
\* resume_sessions.
Stale == IF ec2 \in {"pending", "running"} THEN {"stale_event"} ELSE {}
Early == IF Snap.st # "RESUMING" /\ (api.op = "resume" \/ session.st = "RESUMING")
         THEN {"stale_event"} ELSE {}

\* The message asks for nothing in the state the row was in: it is deleted.
Ignored == {<<"HostReady", s>> : s \in {"NONE", "INITIALIZING", "READY", "STOPPING",
                                        "STOPPED", "ERROR", "DELETING"}}
    \cup {<<"RebootComplete", s>> : s \in {"NONE", "PROVISIONING", "CREATING",
                                        "INITIALIZING", "STOPPING", "DELETING"}}
    \cup {<<t, "NONE">> : t \in {"ValidateCreation", "ValidateDeletion", "Ec2Stopping",
                                 "Ec2Stopped", "Ec2Running", "ScheduledResume",
                                 "ScheduledStop"}}
    \cup {<<"ValidateDeletion", s>> : s \in States \ {"STOPPING", "DELETING"}}
    \cup {<<t, s>> : t \in {"Ec2Stopping", "Ec2Stopped"},
                     s \in {"STOPPED", "DELETING", "ERROR"}}
    \cup {<<"ScheduledResume", s>> : s \in States \ {"STOPPED", "ERROR"}}
    \cup {<<"ScheduledStop", s>> : s \in States \ {"READY", "RESUMING"}}

HandleIgnored ==
    /\ thread.pc = "handle"
    /\ <<queue[thread.done + 1].type, Snap.st>> \in Ignored
    /\ Handled
    /\ hist' = hist \cup Early
    /\ UNCHANGED <<db, queue, dedup, api, env, notes, budget>>

\* DCVHostReadyEventHandler
HostReadyGuard == Handling("HostReady")
                  /\ Snap.st \in {"PROVISIONING", "CREATING", "RESUMING"}
\* RESUMING is first saved as CREATING; a row that is gone stops it there.
HostReadyLosesRow ==
    /\ HostReadyGuard /\ Snap.st = "RESUMING" /\ Gone
    /\ session' = [Snap EXCEPT !.st = "CREATING"]
    /\ hist' = hist \cup Overwrites(Snap)
    /\ Kept
    /\ UNCHANGED <<server, ctr, queue, dedup, api, env, notes, budget>>

\* The broker accepts the session.
HostReadyCreates ==
    /\ HostReadyGuard /\ ~(Snap.st = "RESUMING" /\ Gone)
    /\ broker' = "CREATING"
    /\ session' = [st |-> "INITIALIZING", dcv |-> TRUE]
    /\ hist' = hist \cup Overwrites(Snap)
    /\ IF Gone THEN UNCHANGED <<queue, ctr>>
               ELSE Send("ValidateCreation") /\ ctr' = [ctr EXCEPT !.creation = 0]
    /\ HandledUnlessGone
    /\ UNCHANGED <<server, dedup, api, ec2, boot, ssm, notes, budget>>

\* Mutant: the counter entry is not saved.
ForgetRefusal(c) == c
CountRefusal(c) == [c EXCEPT !.creation = @ + 1]

\* The broker refuses: try again until the threshold, then ERROR.
HostReadyRetries ==
    /\ HostReadyGuard /\ ~(Snap.st = "RESUMING" /\ Gone)
    /\ ctr.creation < SESSION_CREATION_THRESHOLD_COUNT
    /\ ctr' = CountRefusal(ctr)
    /\ IF Snap.st = "CREATING"
       THEN UNCHANGED <<session, hist>>
       ELSE /\ session' = [Snap EXCEPT !.st = "CREATING"]
            /\ hist' = hist \cup Overwrites(Snap)
    /\ Kept
    /\ UNCHANGED <<server, queue, dedup, api, env, notes, budget>>

HostReadyGivesUp ==
    /\ HostReadyGuard /\ ~(Snap.st = "RESUMING" /\ Gone)
    /\ ctr.creation >= SESSION_CREATION_THRESHOLD_COUNT
    /\ session' = [st |-> "ERROR", dcv |-> FALSE]
    /\ hist' = hist \cup Overwrites(Snap)
    /\ HandledUnlessGone
    /\ UNCHANGED <<server, ctr, queue, dedup, api, env, notes, budget>>

HandleHostReady == HostReadyLosesRow \/ HostReadyCreates \/ HostReadyRetries
                   \/ HostReadyGivesUp

\* What describe_sessions reports for the row's dcv_session_id.
Described(row) == IF row.dcv THEN broker ELSE "none"

\* Mutant: the validation does not look for DELETING.
ValidatingDeleting == Handling("ValidateCreation") /\ Snap.st # "NONE"

\* ValidateDCVSessionCreationEventHandler
ValidatingCreation == Handling("ValidateCreation")
                      /\ Snap.st \notin {"NONE", "DELETING"}

CreationOfDeleting ==
    /\ Handling("ValidateCreation") /\ Snap.st = "DELETING"
    /\ ctr' = [ctr EXCEPT !.validate = 0]
    /\ Handled
    /\ UNCHANGED <<session, server, queue, dedup, api, env, notes, hist, budget>>

CreationReady ==
    /\ ValidatingCreation /\ Described(Snap) = "READY"
    /\ session' = [Snap EXCEPT !.st = "READY"]
    /\ hist' = hist \cup Overwrites(Snap)
    /\ ctr' = IF Gone THEN ctr ELSE [ctr EXCEPT !.validate = 0]
    /\ HandledUnlessGone
    /\ UNCHANGED <<server, queue, dedup, api, env, notes, budget>>

CreationFailed ==
    \/ ctr.validate > SESSION_DELETED_THRESHOLD /\ Described(Snap) = "DELETED"
    \/ ctr.validate > VALIDATION_REQUEST_THRESHOLD

CreationGivesUp ==
    /\ ValidatingCreation /\ Described(Snap) # "READY" /\ CreationFailed
    /\ session' = [Snap EXCEPT !.st = "ERROR"]
    /\ hist' = hist \cup Overwrites(Snap)
    /\ HandledUnlessGone
    /\ UNCHANGED <<server, ctr, queue, dedup, api, env, notes, budget>>

CreationOfStopping ==
    /\ ValidatingCreation /\ Described(Snap) # "READY" /\ ~CreationFailed
    /\ Snap.st = "STOPPING"
    /\ Handled
    /\ UNCHANGED <<db, queue, dedup, api, env, notes, hist, budget>>

CreationRetries ==
    /\ ValidatingCreation /\ Described(Snap) # "READY" /\ ~CreationFailed
    /\ Snap.st # "STOPPING"
    /\ IF Snap.st = "INITIALIZING"
       THEN UNCHANGED <<session, hist>>
       ELSE /\ session' = [Snap EXCEPT !.st = "INITIALIZING"]
            /\ hist' = hist \cup Overwrites(Snap)
    /\ ctr' = IF Gone /\ Snap.st # "INITIALIZING" THEN ctr
              ELSE [ctr EXCEPT !.validate = @ + 1]
    /\ Kept
    /\ UNCHANGED <<server, queue, dedup, api, env, notes, budget>>

HandleValidateCreation == CreationOfDeleting \/ CreationReady \/ CreationGivesUp
                          \/ CreationOfStopping \/ CreationRetries

\* ValidateDCVSessionDeletionEventHandler.  The DCV session is gone, or the
\* row is older than the validation timeout (the clock is not modelled: the
\* timeout may have been exceeded or not).
DeletionValidated == Described(Snap) \in {"none", "DELETED"}

DeletionPending ==
    /\ Handling("ValidateDeletion") /\ Snap.st \in {"STOPPING", "DELETING"}
    /\ ~DeletionValidated
    /\ Kept
    /\ UNCHANGED <<db, queue, dedup, api, env, notes, hist, budget>>

\* _continue_delete_session: the row first, then the instance.
ContinueDeleteSession ==
    /\ Handling("ValidateDeletion") /\ Snap.st = "DELETING"
    /\ session' = NoRow
    /\ IF Gone THEN Handled ELSE thread' = [thread EXCEPT !.pc = "terminate"]
    /\ UNCHANGED <<server, ctr, queue, dedup, api, env, notes, hist, budget>>

\* Any failure is logged and the message deleted: when the schedules, the
\* permissions or the row cannot be deleted, the row stays DELETING.
ContinueDeleteFails ==
    /\ Handling("ValidateDeletion") /\ Snap.st = "DELETING"
    /\ Fails("delete_error")
    /\ Handled
    /\ UNCHANGED <<db, queue, dedup, api, env, notes, requests>>

ContinueTerminate ==
    /\ thread.pc = "terminate"
    /\ \/ TerminateSucceeds
       \/ TerminateFails
    /\ Handled
    /\ UNCHANGED <<session, ctr, queue, dedup, api, boot, broker, ssm, notes, budget>>

\* _continue_stop_session: a stop that EC2 refuses raises and is retried.  Only
\* an instance that describe_instances shows as stopped makes the session
\* STOPPED at once; the call may fail, or not find the instance.
ContinueStopSession ==
    /\ Handling("ValidateDeletion") /\ Snap.st = "STOPPING"
    /\ CanStopInstance
    /\ StopInstance
    /\ \E seen \in {ec2 = "stopped", FALSE} :
          /\ session' = [Snap EXCEPT !.st = IF HibernationEnabled \/ seen
                                            THEN "STOPPED" ELSE "STOPPING"]
          /\ server' = IF ~HibernationEnabled /\ seen THEN "STOPPED"
                       ELSE ServerAfterStop
          /\ hist' = hist \cup Overwrites(Snap)
                \cup (IF ~HibernationEnabled /\ ec2 = "stopped" /\ ~seen
                      THEN {"ec2_error"} ELSE {})
    /\ HandledUnlessGone
    /\ UNCHANGED <<ctr, queue, dedup, api, boot, broker, ssm, budget>>

ContinueStopRefused ==
    /\ Handling("ValidateDeletion") /\ Snap.st = "STOPPING"
    /\ ~CanStopInstance
    /\ Kept
    /\ UNCHANGED <<db, queue, dedup, api, env, notes, hist, budget>>

HandleValidateDeletion == DeletionPending \/ ContinueDeleteSession
                          \/ ContinueDeleteFails \/ ContinueTerminate \/ ContinueStopSession
                          \/ ContinueStopRefused

\* EC2StateChangeEventHandler
Unexpected == {"PROVISIONING", "CREATING", "INITIALIZING", "RESUMING"}
HandleEc2Stopping(t, st, row) ==
    /\ Handling(t) /\ Snap.st \in Unexpected \cup {"READY", "STOPPING"}
    /\ IF Snap.st \in Unexpected \/ server # "none"
       THEN /\ session' = [Snap EXCEPT !.st = IF @ \in Unexpected THEN "ERROR" ELSE st]
            /\ server' = IF Snap.st \in Unexpected THEN server ELSE row
            /\ hist' = hist \cup Overwrites(Snap) \cup Stale
            /\ HandledUnlessGone
       ELSE Kept /\ UNCHANGED <<session, server, hist>>
    /\ UNCHANGED <<ctr, queue, dedup, api, env, notes, budget>>

\* 'stopping' leaves the server row as it is: the new state is not saved.
HandleStopping == HandleEc2Stopping("Ec2Stopping", "STOPPING", server)
\* Mutant: 'stopped' is handled as 'stopping' is.
HandleStoppedAsStopping == HandleEc2Stopping("Ec2Stopped", "STOPPING", "STOPPED")
HandleStopped == HandleEc2Stopping("Ec2Stopped", "STOPPED", "STOPPED")

\* Mutant: nobody continues the resume of a hibernated session.
HandleRunningSilently ==
    /\ Handling("Ec2Running") /\ Snap.st # "NONE"
    /\ IF server = "none" THEN Kept /\ UNCHANGED server
                          ELSE Handled /\ server' = "CREATED"
    /\ hist' = hist \cup Early
    /\ UNCHANGED <<session, ctr, queue, dedup, api, env, notes, budget>>

HandleRunning ==
    /\ Handling("Ec2Running") /\ Snap.st # "NONE"
    /\ IF HibernationEnabled /\ Snap.st = "RESUMING"
       THEN /\ SendUntimed("RebootComplete")
            /\ hist' = hist \cup Dropped("RebootComplete")
       ELSE /\ hist' = hist \cup Early
            /\ UNCHANGED <<queue, dedup>>
    /\ IF server = "none" THEN Kept /\ UNCHANGED server
                          ELSE Handled /\ server' = "CREATED"
    /\ UNCHANGED <<session, ctr, api, env, notes, budget>>

HandleEc2StateChange == HandleStopping \/ HandleStopped \/ HandleRunning

\* DCVHostRebootCompleteEventHandler
RebootGuard == Handling("RebootComplete")
               /\ Snap.st \in {"RESUMING", "READY", "ERROR", "STOPPED"}
ResetCounters(c) == [c EXCEPT !.validate = 0, !.creation = 0]
\* A READY session is resumed only when the broker has lost it.
RebootIsBogus == Snap.st = "READY" /\ Described(Snap) \in {"CREATING", "READY"}

RebootOfStable ==
    /\ RebootGuard /\ RebootIsBogus
    /\ \/ /\ Described(Snap) = "CREATING"
          /\ ctr' = ResetCounters(ctr)
          /\ Handled
       \/ /\ Described(Snap) = "READY"
          /\ ctr.resumed < RESUME_REQUEST_COUNT_THRESHOLD
          /\ ctr' = [ResetCounters(ctr) EXCEPT !.resumed = @ + 1]
          /\ Kept
       \/ /\ Described(Snap) = "READY"
          /\ ctr.resumed >= RESUME_REQUEST_COUNT_THRESHOLD
          /\ ctr' = [ResetCounters(ctr) EXCEPT !.resumed = 0]
          /\ Handled
    /\ UNCHANGED <<session, server, queue, dedup, api, env, notes, hist, budget>>

\* ERROR is saved as RESUMING.  The resume command is then submitted, which
\* sets RESUMING in memory only: a READY or STOPPED row is not written.
RebootSaves ==
    IF Snap.st = "ERROR"
    THEN /\ session' = [Snap EXCEPT !.st = "RESUMING"]
         /\ hist' = hist \cup Overwrites(Snap)
    ELSE UNCHANGED <<session, hist>>

RebootResumes ==
    /\ RebootGuard /\ ~RebootIsBogus
    /\ ~(Snap.st = "ERROR" /\ Gone)
    /\ ec2 = "running" /\ server # "none"
    /\ ctr' = ResetCounters(ctr)
    /\ RebootSaves
    /\ ssm' = ssm \cup {"resume"}
    /\ server' = "CREATED"
    /\ Handled
    /\ UNCHANGED <<queue, dedup, api, ec2, boot, broker, notes, budget>>

\* The host does not take commands yet, or the row is gone: try again later.
RebootRetries ==
    /\ RebootGuard /\ ~RebootIsBogus
    /\ ctr' = ResetCounters(ctr)
    /\ RebootSaves
    /\ Kept
    /\ UNCHANGED <<server, queue, dedup, api, env, notes, budget>>

HandleRebootComplete == RebootOfStable \/ RebootResumes \/ RebootRetries

\* IDEAResumeSessionCommandProgressEventHandler: no look at the row's state.
HandleResumeSuccess ==
    /\ Handling("ResumeSuccess") /\ Snap.st # "NONE"
    /\ Send("ValidateCreation")
    /\ session' = [Snap EXCEPT !.st = "INITIALIZING"]
    /\ hist' = hist \cup Overwrites(Snap)
    /\ HandledUnlessGone
    /\ UNCHANGED <<server, ctr, dedup, api, env, notes, budget>>

\* Mutant: a failed resume command is only logged.
HandleResumeFailedSilently ==
    /\ Handling("ResumeFailed") /\ Snap.st # "NONE"
    /\ Handled
    /\ UNCHANGED <<db, queue, dedup, api, env, notes, hist, budget>>

HandleResumeFailed ==
    /\ Handling("ResumeFailed") /\ Snap.st # "NONE"
    /\ session' = [Snap EXCEPT !.st = "ERROR"]
    /\ hist' = hist \cup Overwrites(Snap)
    /\ HandledUnlessGone
    /\ UNCHANGED <<server, ctr, queue, dedup, api, env, notes, budget>>

\* These handlers use the row without asking whether there is one.
HandleMissingRow ==
    /\ \/ Handling("ResumeSuccess") /\ Snap.st = "NONE"
       \/ Handling("ResumeFailed") /\ Snap.st = "NONE"
       \/ Handling("CpuReport") /\ Snap.st = "NONE"
       \/ Handling("Terminate") /\ Gone
    /\ Kept
    /\ UNCHANGED <<db, queue, dedup, api, env, notes, hist, budget>>

HandleResumeProgress == HandleResumeSuccess \/ HandleResumeFailed \/ HandleMissingRow

\* IDEASessionScheduledStopEventHandler: ask the host for its CPU load.
HandleScheduledStop ==
    /\ Handling("ScheduledStop") /\ Snap.st \in {"READY", "RESUMING"}
    /\ IF ec2 = "running" THEN ssm' = ssm \cup {"cpu"} /\ Handled
                          ELSE UNCHANGED ssm /\ Kept
    /\ UNCHANGED <<db, queue, dedup, api, ec2, boot, broker, notes, hist, budget>>

\* IDEASessionCPUUtilizationCommandProgressEventHandler: the host is busy or
\* has failed to answer, or it is idle and stop_sessions reads the row again.
HandleCpuBusy ==
    /\ Handling("CpuReport") /\ Snap.st # "NONE"
    /\ Handled
    /\ UNCHANGED <<db, queue, dedup, api, env, notes, hist, budget>>

CpuStopRefused ==
    /\ Handling("CpuReport") /\ Snap.st # "NONE"
    /\ \/ ~Accepts("stop", session)
       \/ session.dcv                             \* refused by the broker
       \/ ~session.dcv /\ ~CanStopInstance
    /\ Kept
    /\ session' = IF Accepts("stop", session) /\ ~session.dcv
                  THEN [session EXCEPT !.st = "STOPPING"] ELSE session
    /\ UNCHANGED <<server, ctr, queue, dedup, api, env, notes, hist, budget>>

CpuStops ==
    /\ Handling("CpuReport") /\ Snap.st # "NONE" /\ Accepts("stop", session)
    /\ session' = [session EXCEPT !.st = "STOPPING"]
    /\ IF session.dcv
       THEN /\ BrokerDelete
            /\ SendUntimed("ValidateDeletion")
            /\ hist' = hist \cup Dropped("ValidateDeletion")
            /\ UNCHANGED <<ec2, notes, server>>
       ELSE /\ CanStopInstance /\ StopInstance /\ server' = ServerAfterStop
            /\ UNCHANGED <<broker, queue, dedup, hist>>
    /\ Handled
    /\ UNCHANGED <<ctr, api, boot, ssm, budget>>

HandleCpuReport == HandleCpuBusy \/ CpuStopRefused \/ CpuStops

\* IDEASessionScheduledResumeEventHandler: resume_sessions reads the row
\* again and takes a STOPPED session only.
ScheduledResumeGuard == Handling("ScheduledResume") /\ Snap.st \in {"STOPPED", "ERROR"}

ScheduledResumeStarts ==
    /\ ScheduledResumeGuard /\ Accepts("resume", session)
    /\ CanStartInstance /\ StartInstance
    /\ session' = [session EXCEPT !.st = "RESUMING"]
    /\ Handled
    /\ UNCHANGED <<server, ctr, queue, dedup, api, broker, ssm, notes, hist, budget>>

ScheduledResumeFails ==
    /\ ScheduledResumeGuard
    /\ Kept
    /\ UNCHANGED <<db, queue, dedup, api, env, notes, hist, budget>>

HandleScheduledResume == ScheduledResumeStarts \/ ScheduledResumeFails

\* IDEASessionTerminateEventHandler, with force: terminate_sessions.
TerminateDeletes ==
    /\ Handling("Terminate") /\ ~Gone
    /\ FirstStep("terminate", session) = "terminateInstance"
    /\ TerminateSucceeds \/ TerminateFails
    /\ session' = NoRow
    /\ Handled
    /\ UNCHANGED <<ctr, queue, dedup, api, boot, broker, ssm, notes, budget>>

TerminateMarks ==
    /\ Handling("Terminate") /\ ~Gone
    /\ FirstStep("terminate", session) = "brokerDelete"
    /\ BrokerDelete
    /\ session' = [session EXCEPT !.st = "DELETING"]
    /\ SendUntimed("ValidateDeletion")
    /\ hist' = hist \cup Dropped("ValidateDeletion")
    /\ Handled
    /\ UNCHANGED <<server, ctr, api, ec2, boot, ssm, notes, budget>>

\* Mutant: a refused termination is not tried again.
TerminateAbandoned ==
    /\ Handling("Terminate") /\ ~Gone
    /\ FirstStep("terminate", session) = "brokerDelete" \/ server = "none"
    /\ Handled
    /\ UNCHANGED <<db, queue, dedup, api, env, notes, hist, budget>>

TerminateRefused ==
    /\ Handling("Terminate") /\ ~Gone
    /\ FirstStep("terminate", session) = "brokerDelete" \/ server = "none"
    /\ Kept
    /\ UNCHANGED <<db, queue, dedup, api, env, notes, hist, budget>>

HandleTerminate == TerminateDeletes \/ TerminateMarks \/ TerminateRefused

Handle == \/ HandleIgnored \/ HandleHostReady \/ HandleValidateCreation
          \/ HandleValidateDeletion \/ HandleEc2StateChange \/ HandleRebootComplete
          \/ HandleResumeProgress \/ HandleScheduledStop \/ HandleCpuReport
          \/ HandleScheduledResume \/ HandleTerminate

-----------------------------------------------------------------------------
(* ControllerQueueMonitorService: notifications become events of the group.  *)

\* An EC2 notification of an instance without a server row is dropped.  A crash
\* before the message is deleted leaves it to be published again.
ControllerQueue(t) ==
    /\ t \in notes
    /\ IF t \in {"Ec2Running", "Ec2Stopping", "Ec2Stopped"} /\ server = "none"
       THEN UNCHANGED queue
       ELSE Send(t)
    /\ \/ notes' = notes \ {t} /\ UNCHANGED faults
       \/ faults < MaxFaults /\ faults' = faults + 1 /\ UNCHANGED notes
    /\ UNCHANGED <<db, dedup, thread, api, env, hist, requests>>

-----------------------------------------------------------------------------
(* The environment: EC2, the host, the DCV broker, SSM, the clock, crashes *)

InstanceStarts ==
    /\ ec2 = "pending"
    /\ ec2' = "running"
    /\ notes' = notes \cup {"Ec2Running"}
    /\ UNCHANGED <<db, queue, dedup, thread, api, boot, broker, ssm, hist, budget>>

InstanceStops ==
    /\ ec2 = "stopping"
    /\ ec2' = "stopped"
    /\ notes' = notes \cup {"Ec2Stopped"}
    /\ broker' = "none"
    /\ UNCHANGED <<db, queue, dedup, thread, api, boot, ssm, hist, budget>>

\* The instance is stopped by somebody else than the controller.
InstanceFails ==
    /\ ec2 = "running"
    /\ faults < MaxFaults
    /\ faults' = faults + 1
    /\ StopInstance
    /\ UNCHANGED <<db, queue, dedup, thread, api, boot, broker, ssm, hist, requests>>

\* The message of the first boot and the one of later boots carry a timestamp
\* or are sent once.
HostReports ==
    /\ ec2 = "running"
    /\ boot # "none"
    /\ Send(IF boot = "first" THEN "HostReady" ELSE "RebootComplete")
    /\ boot' = "none"
    /\ UNCHANGED <<db, dedup, thread, api, ec2, broker, ssm, notes, hist, budget>>

BrokerProgress ==
    /\ \/ broker = "CREATING" /\ ec2 = "running" /\ broker' \in {"READY", "DELETED"}
       \/ broker = "DELETING" /\ broker' = "DELETED"
    /\ UNCHANGED <<db, queue, dedup, thread, api, ec2, boot, ssm, notes, hist, budget>>

BrokerForgets ==
    /\ broker = "DELETED"
    /\ broker' = "none"
    /\ UNCHANGED <<db, queue, dedup, thread, api, ec2, boot, ssm, notes, hist, budget>>

\* The resume command makes the DCV session again under its old id.
ResumeCommandEnds ==
    /\ "resume" \in ssm
    /\ ssm' = ssm \ {"resume"}
    /\ \/ ec2 = "running" /\ broker' = "READY" /\ notes' = notes \cup {"ResumeSuccess"}
       \/ UNCHANGED broker /\ notes' = notes \cup {"ResumeFailed"}
    /\ UNCHANGED <<db, queue, dedup, thread, api, ec2, boot, hist, budget>>

CpuCommandEnds ==
    /\ "cpu" \in ssm
    /\ ssm' = ssm \ {"cpu"}
    /\ notes' = notes \cup {"CpuReport"}
    /\ UNCHANGED <<db, queue, dedup, thread, api, ec2, boot, broker, hist, budget>>

DedupWindowEnds(t) ==
    /\ t \in dedup
    /\ dedup' = dedup \ {t}
    /\ UNCHANGED <<db, queue, thread, api, env, notes, hist, budget>>

\* The controller process restarts: a request and a batch are lost, the
\* messages of the batch are delivered again.
Crash ==
    /\ faults < MaxFaults
    /\ thread.pc # "idle" \/ api.pc # "idle"
    /\ faults' = faults + 1
    /\ thread' = ThreadIdle
    /\ api' = ApiIdle
    /\ hist' = hist \cup {"crash"}
    /\ UNCHANGED <<db, queue, dedup, env, notes, requests>>

ApiStep ==
    \/ ApiProvision \/ ApiCreateServerRow \/ ApiCreateSessionRow
    \/ ApiBrokerDelete \/ ApiWriteRow \/ ApiPublish \/ ApiStopInstance
    \/ ApiStartInstance \/ ApiRebootInstance \/ ApiTerminateInstance \/ ApiDeleteRow

Request == (\E op \in AllRequests : ApiRead(op))
           \/ ScheduleStops \/ ScheduleResumes \/ UserIsDisabled

ThreadStep == Receive \/ ReadRow \/ Handle \/ DeleteHandled

EnvStep == \/ InstanceStarts \/ InstanceStops \/ HostReports \/ BrokerProgress
           \/ BrokerForgets \/ ResumeCommandEnds \/ CpuCommandEnds
           \/ \E t \in NoteTypes : ControllerQueue(t)
           \/ \E t \in EventTypes : DedupWindowEnds(t)

Fault == HandlerRaises \/ InstanceFails \/ Crash

Next == ApiStep \/ Request \/ ThreadStep \/ EnvStep \/ Fault

Spec == Init /\ [][Next]_vars

\* Everything that has begun goes on: the thread polls and handles, requests
\* are served, EC2, the host, SSM and the queues deliver.  Requests, faults,
\* the broker and the end of the deduplication window are not promised.
Fairness ==
    /\ WF_vars(Receive) /\ WF_vars(ReadRow) /\ WF_vars(Handle)
    /\ WF_vars(DeleteHandled) /\ WF_vars(ApiStep)
    /\ WF_vars(InstanceStarts) /\ WF_vars(InstanceStops) /\ WF_vars(HostReports)
    /\ WF_vars(ResumeCommandEnds) /\ WF_vars(CpuCommandEnds)
    /\ \A t \in NoteTypes : WF_vars(ControllerQueue(t))

FairSpec == Spec /\ Fairness

-----------------------------------------------------------------------------
(* Properties *)

ApiSteps == {"idle", "createServer", "createRow", "brokerDelete", "writeRow",
             "publish", "stopInstance", "startInstance", "rebootInstance",
             "terminateInstance", "deleteRow"}

Messages == [type : EventTypes, rc : Nat]
ThreadSteps == {"idle", "read", "handle", "terminate", "delete"}

\* The thread is never past the messages it holds, nor holds more than there are.
ThreadInBatch ==
    /\ thread.pc = "idle" => thread.n = 0 /\ thread.done = 0
    /\ thread.pc \in {"read", "handle", "terminate"} => thread.done < thread.n
    /\ thread.done <= thread.n
    /\ thread.n <= Len(queue)

\* Every variable has its type.
TypeOK ==
    /\ session \in Rows
    /\ server \in ServerStates
    /\ ctr \in [creation : Nat, validate : Nat, resumed : Nat]
    /\ queue \in Seq(Messages)
    /\ dedup \subseteq EventTypes
    /\ thread \in [pc : ThreadSteps, n : Nat, done : Nat, snap : Rows]
    /\ ThreadInBatch
    /\ api \in [pc : ApiSteps, op : AllRequests \cup {"none", "create"}, snap : Rows]
    /\ ec2 \in InstanceStates
    /\ boot \in {"none", "first", "again"}
    /\ broker \in BrokerStates
    /\ ssm \subseteq {"resume", "cpu"}
    /\ notes \subseteq NoteTypes
    /\ hist \subseteq Flags
    /\ requests \in 0 .. MaxRequests
    /\ faults \in 0 .. MaxFaults

HasSession(row) == row.st \in {"READY", "DELETING"} => row.dcv

\* A READY or DELETING session has a DCV session id, in the row and in every
\* copy of it that may still be written back.
RowsHaveSession == HasSession(session) /\ HasSession(Snap) /\ HasSession(api.snap)

\* An instance that can be billed has a server row, except while it is being
\* created or when a crash or a failing write cut its creation short.
InstanceHasServerRow ==
    Alive /\ server = "none" => \/ api.pc = "createServer"
                               \/ hist \cap {"crash", "create_error"} # {}

\* An instance without a session row is being created or terminated, or a
\* write failed in its creation, its termination failed, or the controller
\* crashed.
OrphanHasCause ==
    Alive /\ Gone => \/ api.op = "create"
                     \/ thread.pc = "terminate"
                     \/ hist \cap {"crash", "create_error", "terminate_error"} # {}

Pending(t) == \E i \in (thread.done + 1) .. Len(queue) : queue[i].type = t

\* A session marked DELETING has a validation of its deletion on the way, unless
\* the message was dropped as a duplicate or dead-lettered, a crash came before
\* it was sent, its handler failed to delete the rows, or an overlapping writer
\* brought DELETING back.
DeletionIsPending ==
    /\ session.st = "DELETING"
    /\ hist \cap {"crash", "dead_letter", "dedup_drop", "delete_error",
                "lost_update"} = {}
    => api.pc = "publish" \/ Pending("ValidateDeletion")

\* A STOPPED row means the instance is not running, absent irregularities, or
\* the start of a resume that has not written the row yet.
StoppedIsStopped ==
    session.st = "STOPPED" /\ hist = {}
    => ec2 \notin {"pending", "running"} \/ api.op = "resume"

\* A session marked DELETING stays so until its row is deleted, unless a writer
\* that read the row before overwrites it.
DeletingIsFinal ==
    [][session.st = "DELETING" => \/ session'.st \in {"DELETING", "NONE"}
                                  \/ "lost_update" \in hist']_vars

\* However messages fail, the group is drained again and again.
GroupDrains == []<>(queue = <<>>)

\* A session marked DELETING is deleted, absent irregularities.
TerminateCompletes == session.st = "DELETING" ~> Gone \/ hist # {}

\* A session marked STOPPING leaves that state, absent irregularities.
StopCompletes == session.st = "STOPPING" ~> session.st # "STOPPING" \/ hist # {}

\* A disabled user's session is deleted, absent irregularities.
DisabledUserLosesSession == Pending("Terminate") ~> Gone \/ hist # {}

\* A session marked RESUMING leaves that state, absent irregularities.
ResumeCompletes == session.st = "RESUMING" ~> session.st # "RESUMING" \/ hist # {}

\* Once its host has reported, a new session comes to READY or to ERROR, unless
\* there is a request meanwhile.
CreationSettles ==
    session.st \in {"CREATING", "INITIALIZING"} ~>
        session.st \in {"READY", "ERROR"} \/ requests > 0
=============================================================================
