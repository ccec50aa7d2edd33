--------------------------- MODULE VdcSessionProofs ---------------------------
(***************************************************************************)
(* Proofs about VdcSession, for every value of its constants.  Type        *)
(* correctness first (one lemma per group of actions), then the inductive   *)
(* invariants on top of it: RowsInv for RowsHaveSession, HostInv for        *)
(* InstanceHasServerRow and OrphanHasCause, DeletionInv, which also uses    *)
(* HostInv, for DeletionIsPending, LaunchInv and StoppedInv for             *)
(* StoppedIsStopped, and FinalInv for the action property DeletingIsFinal.  *)
(***************************************************************************)
EXTENDS VdcSession, SequenceTheorems, TLAPS

\* A function on 1 .. n is a sequence of length n (the queue after a receive).
LEMMA FunctionIsSeq ==
    ASSUME NEW S, NEW n \in Nat, NEW f \in [1 .. n -> S]
    PROVE  f \in Seq(S) /\ Len(f) = n
  <1>1. f \in Seq(S)
    BY SeqDef
  <1>2. DOMAIN f = 1 .. n /\ DOMAIN f = 1 .. Len(f) /\ Len(f) \in Nat
    BY <1>1, LenProperties
  <1> QED BY <1>1, <1>2

\* What publish_event appends is a message, and lengthens the queue by one.
LEMMA AppendMessage ==
    ASSUME NEW q \in Seq(Messages), NEW t \in EventTypes
    PROVE  /\ Append(q, Message(t)) \in Seq(Messages)
           /\ Len(Append(q, Message(t))) = Len(q) + 1
  <1>1. Message(t) \in Messages
    BY DEF Message, Messages
  <1> QED BY <1>1

\* A message that is received again is a message, and the counters stay numbers.
LEMMA ReceivedTypes == \A m \in Messages : Received(m) \in Messages
  BY DEF Received, Messages

CounterRecords == [creation : Nat, validate : Nat, resumed : Nat]

LEMMA CounterTypes ==
    \A c \in CounterRecords : /\ CountRefusal(c) \in CounterRecords
                              /\ [c EXCEPT !.validate = @ + 1] \in CounterRecords
  BY DEF CountRefusal, CounterRecords

\* What an API request becomes is a record of its type.
LEMMA ApiTypes ==
    ASSUME TypeOK, NEW step \in ApiSteps, ApiGoto(step) \/ ApiEnds
    PROVE  api' \in [pc : ApiSteps, op : AllRequests \cup {"none", "create"}, snap : Rows]
  <1>1. "idle" \in ApiSteps /\ NoRow \in Rows
    BY DEF ApiSteps, Rows, NoRow
  <1> QED BY <1>1 DEF TypeOK, ApiGoto, ApiEnds, ApiIdle

\* The tables of the request APIs name states and steps that exist.
LEMMA TargetState ==
    ASSUME NEW op, NEW row \in Rows
    PROVE  /\ [row EXCEPT !.st = Target(op, row)] \in Rows
           /\ AfterWrite(op, row) \in ApiSteps
           /\ FirstStep(op, row) \in ApiSteps
  <1>1. Target(op, row) \in States \cup {"NONE"}
    BY DEF Target, Rows, States
  <1>2. AfterWrite(op, row) \in ApiSteps
    BY DEF AfterWrite, ApiSteps
  <1>3. FirstStep(op, row) \in ApiSteps
    BY DEF FirstStep, ApiSteps
  <1> QED BY <1>1, <1>2, <1>3 DEF Rows

\* The rows the handlers build are rows.
LEMMA RowTypes ==
    /\ NoRow \in Rows
    /\ \A row \in Rows, st \in States : [row EXCEPT !.st = st] \in Rows
    /\ \A st \in States, b \in BOOLEAN : [st |-> st, dcv |-> b] \in Rows
  BY DEF Rows, NoRow

\* The history flags the steps raise are flags.
LEMMA FlagTypes ==
    ASSUME NEW row, NEW t
    PROVE  /\ Overwrites(row) \subseteq Flags /\ Dropped(t) \subseteq Flags
           /\ Stale \subseteq Flags /\ Early \subseteq Flags
  BY DEF Overwrites, Dropped, Stale, Early, Flags

\* Publishing an event, deduplicated or not, keeps the queue a queue of
\* messages and never shortens it.
LEMMA SendTypes ==
    ASSUME TypeOK, NEW t \in EventTypes, Send(t) \/ SendUntimed(t)
    PROVE  /\ queue' \in Seq(Messages)
           /\ Len(queue) <= Len(queue')
           /\ SendUntimed(t) => dedup' \subseteq EventTypes
  <1>0. queue \in Seq(Messages) /\ dedup \subseteq EventTypes /\ Len(queue) \in Nat
    BY DEF TypeOK
  <1>1. Append(queue, Message(t)) \in Seq(Messages)
        /\ Len(Append(queue, Message(t))) = Len(queue) + 1
    BY <1>0, AppendMessage
  <1>2. CASE Send(t)
    BY <1>0, <1>1, <1>2 DEF Send, SendUntimed
  <1>3. CASE SendUntimed(t)
    BY <1>0, <1>1, <1>3 DEF SendUntimed
  <1> QED BY <1>2, <1>3

\* A call that fails is within the bound, and its flag a flag.
LEMMA FailsTypes ==
    ASSUME TypeOK, NEW flag \in Flags, Fails(flag) \/ UNCHANGED <<hist, faults>>
    PROVE  hist' \subseteq Flags /\ faults' \in 0 .. MaxFaults
  BY ConstantsAssumption DEF TypeOK, Fails

\* The part of TypeOK about the events thread.
ThreadOK == thread \in [pc : ThreadSteps, n : Nat, done : Nat, snap : Rows]
            /\ ThreadInBatch

\* However a handler ends, the events thread stays inside its batch.
LEMMA ThreadTypes ==
    ASSUME TypeOK, thread.pc \in {"handle", "terminate"},
           queue' \in Seq(Messages), Len(queue) <= Len(queue'),
           Handled \/ Kept \/ HandledUnlessGone
    PROVE  ThreadOK'
  <1> USE RowTypes DEF TypeOK, ThreadOK, ThreadInBatch, ThreadSteps
  <1>0. /\ thread.n \in Nat /\ thread.done \in Nat /\ thread.done < thread.n
        /\ thread.n <= Len(queue) /\ Len(queue) \in Nat /\ Len(queue') \in Nat
    OBVIOUS
  <1>1. CASE Handled
    <2>1. thread' = [pc |-> IF thread.done + 1 = thread.n THEN "delete" ELSE "read",
                     n |-> thread.n, done |-> thread.done + 1, snap |-> NoRow]
      BY <1>1 DEF Handled
    <2> QED BY <1>0, <2>1
  <1>2. CASE Kept
    <2>1. thread' = [pc |-> "delete", n |-> thread.n, done |-> thread.done, snap |-> NoRow]
      BY <1>2 DEF Kept
    <2> QED BY <1>0, <2>1
  <1> QED BY <1>1, <1>2 DEF HandledUnlessGone

\* The initial state is well typed.
LEMMA TypeInit == Init => TypeOK
  BY ConstantsAssumption
  DEF Init, TypeOK, ThreadInBatch, Rows, NoRow, States, ServerStates, InstanceStates,
      BrokerStates, ThreadSteps, ApiSteps, Flags

\* A step of the API request being served keeps the types.
LEMMA TypeApi == TypeOK /\ ApiStep => TypeOK'
  <1> SUFFICES ASSUME TypeOK, ApiStep PROVE TypeOK'
    OBVIOUS
  <1> USE ConstantsAssumption DEF TypeOK, ThreadInBatch, db, env, budget, ApiAt, ApiGoto, ApiEnds, ApiIdle
  <1>1. CASE ApiProvision
    BY <1>1, RowTypes DEF ApiProvision, ApiSteps, InstanceStates
  <1>2. CASE ApiCreateServerRow
    <2>1. hist' \subseteq Flags /\ faults' \in 0 .. MaxFaults
      BY <1>2, FailsTypes DEF ApiCreateServerRow, Flags
    <2>2. /\ server' \in ServerStates
          /\ api' \in [pc : ApiSteps, op : AllRequests \cup {"none", "create"}, snap : Rows]
      BY <1>2, RowTypes DEF ApiCreateServerRow, ApiSteps, ServerStates
    <2> QED BY <1>2, <2>1, <2>2 DEF ApiCreateServerRow
  <1>3. CASE ApiCreateSessionRow
    <2>1. hist' \subseteq Flags /\ faults' \in 0 .. MaxFaults
      BY <1>3, FailsTypes DEF ApiCreateSessionRow, Flags
    <2>2. /\ session' \in Rows
          /\ api' \in [pc : ApiSteps, op : AllRequests \cup {"none", "create"}, snap : Rows]
      BY <1>3, RowTypes DEF ApiCreateSessionRow, ApiSteps, States
    <2> QED BY <1>3, <2>1, <2>2 DEF ApiCreateSessionRow
  <1>4. CASE ApiBrokerDelete
    <2>1. api' \in [pc : ApiSteps, op : AllRequests \cup {"none", "create"}, snap : Rows]
      <3>1. "writeRow" \in ApiSteps
        BY DEF ApiSteps
      <3> QED BY <1>4, <3>1, ApiTypes DEF ApiBrokerDelete
    <2>2. broker' \in BrokerStates
      BY <1>4 DEF ApiBrokerDelete, BrokerDelete, BrokerStates
    <2> QED BY <1>4, <2>1, <2>2 DEF ApiBrokerDelete
  <1>5. CASE ApiWriteRow
    <2>1. session' \in Rows /\ AfterWrite(api.op, api.snap) \in ApiSteps
      BY <1>5, TargetState DEF ApiWriteRow
    <2>2. hist' \subseteq Flags
      BY <1>5, FlagTypes DEF ApiWriteRow
    <2>3. api' \in [pc : ApiSteps, op : AllRequests \cup {"none", "create"}, snap : Rows]
      BY <1>5, <2>1, ApiTypes DEF ApiWriteRow
    <2> QED BY <1>5, <2>1, <2>2, <2>3 DEF ApiWriteRow
  <1>6. CASE ApiPublish
    <2>1. /\ queue' \in Seq(Messages) /\ Len(queue) <= Len(queue')
          /\ dedup' \subseteq EventTypes
      BY <1>6, SendTypes DEF ApiPublish, EventTypes
    <2>2. hist' \subseteq Flags
      BY <1>6, FlagTypes DEF ApiPublish
    <2> QED BY <1>6, <2>1, <2>2, RowTypes DEF ApiPublish, ApiSteps
  <1>7. CASE ApiStopInstance
    BY <1>7, RowTypes DEF ApiStopInstance, StopInstance, ServerAfterStop, Ec2Error,
       ApiSteps, ServerStates, InstanceStates, NoteTypes, Flags
  <1>8. CASE ApiStartInstance
    BY <1>8, RowTypes DEF ApiStartInstance, StartInstance, ApiSteps, InstanceStates
  <1>9. CASE ApiRebootInstance
    BY <1>9, RowTypes DEF ApiRebootInstance, Ec2Error, ApiSteps, BrokerStates, Flags
  <1>10. CASE ApiTerminateInstance
    <2>1. api' \in [pc : ApiSteps, op : AllRequests \cup {"none", "create"}, snap : Rows]
      <3>1. "deleteRow" \in ApiSteps
        BY DEF ApiSteps
      <3> QED BY <1>10, <3>1, ApiTypes DEF ApiTerminateInstance
    <2>2. ec2' \in InstanceStates /\ server' \in ServerStates /\ hist' \subseteq Flags
      BY <1>10 DEF ApiTerminateInstance, TerminateSucceeds, TerminateFails,
         ServerStates, InstanceStates, Flags
    <2> QED BY <1>10, <2>1, <2>2 DEF ApiTerminateInstance
  <1>11. CASE ApiDeleteRow
    BY <1>11, RowTypes DEF ApiDeleteRow, ApiSteps
  <1> QED
    BY <1>1, <1>2, <1>3, <1>4, <1>5, <1>6, <1>7, <1>8, <1>9, <1>10, <1>11 DEF ApiStep

\* An event the schedule publishes keeps the types.
LEMMA TypePublishScheduled ==
    ASSUME TypeOK, NEW op, NEW t \in EventTypes, PublishScheduled(op, t)
    PROVE  TypeOK'
  <1>1. /\ queue' \in Seq(Messages) /\ Len(queue) <= Len(queue')
        /\ dedup' \subseteq EventTypes
    BY SendTypes DEF PublishScheduled
  <1>2. hist' \subseteq Flags
    BY FlagTypes DEF PublishScheduled, TypeOK
  <1> QED
    BY <1>1, <1>2, ConstantsAssumption
    DEF PublishScheduled, TypeOK, ThreadInBatch, db, env, budget

\* A new request, of a user or of the schedule, keeps the types.
LEMMA TypeRequest == TypeOK /\ Request => TypeOK'
  <1> SUFFICES ASSUME TypeOK, Request PROVE TypeOK'
    OBVIOUS
  <1>1. ASSUME NEW op \in AllRequests, ApiRead(op) PROVE TypeOK'
    <2>1. FirstStep(op, session) \in ApiSteps
      BY TargetState DEF TypeOK
    <2> QED BY <1>1, <2>1, ConstantsAssumption
            DEF ApiRead, TypeOK, ThreadInBatch, db, env, budget
  <1>2. "ScheduledStop" \in EventTypes /\ "ScheduledResume" \in EventTypes
        /\ "Terminate" \in EventTypes
    BY DEF EventTypes
  <1>3. CASE ScheduleStops
    BY <1>2, <1>3, TypePublishScheduled DEF ScheduleStops
  <1>4. CASE ScheduleResumes
    BY <1>2, <1>4, TypePublishScheduled DEF ScheduleResumes
  <1>5. CASE UserIsDisabled
    BY <1>2, <1>5, SendTypes, ConstantsAssumption
    DEF UserIsDisabled, TypeOK, ThreadInBatch, db, env, budget
  <1> QED
    BY <1>1, <1>3, <1>4, <1>5 DEF Request

\* Receiving a batch, reading the row and deleting the handled messages keep
\* the types: in particular the thread never holds more than the queue.
LEMMA TypeQueue == TypeOK /\ (Receive \/ ReadRow \/ DeleteHandled) => TypeOK'
  <1> SUFFICES ASSUME TypeOK, Receive \/ ReadRow \/ DeleteHandled PROVE TypeOK'
    OBVIOUS
  <1> USE DEF TypeOK, ThreadInBatch, db, env, budget
  <1>1. CASE Receive
    <2>1. PICK k \in 0 .. Len(queue) :
            /\ queue' = [i \in 1 .. Len(queue) - k |-> Received(queue[i + k])]
            /\ hist' = IF k = 0 THEN hist ELSE hist \cup {"dead_letter"}
            /\ thread' = IF k = Len(queue) THEN thread
                         ELSE [ThreadIdle EXCEPT !.pc = "read", !.n = Len(queue) - k]
      BY <1>1 DEF Receive
    <2>2. Len(queue) \in Nat /\ k \in Nat /\ Len(queue) - k \in Nat
      OBVIOUS
    <2>3. \A m \in Messages : Received(m) \in Messages
      BY ReceivedTypes
    <2>4. queue' \in Seq(Messages) /\ Len(queue') = Len(queue) - k
      <3>1. \A i \in 1 .. Len(queue) - k : i + k \in 1 .. Len(queue)
        BY <2>2
      <3>2. \A i \in 1 .. Len(queue) - k : Received(queue[i + k]) \in Messages
        BY <2>3, <3>1
      <3>3. queue' \in [1 .. Len(queue) - k -> Messages]
        BY <2>1, <3>2
      <3> QED BY <2>2, <3>3, FunctionIsSeq
    <2>5. thread.pc = "idle"
      BY <1>1 DEF Receive
    <2>6. ThreadOK'
      <3>1. CASE k = Len(queue)
        BY <2>1, <2>2, <2>4, <2>5, <3>1 DEF ThreadOK
      <3>2. CASE k # Len(queue)
        <4>1. thread' = [pc |-> "read", n |-> Len(queue) - k, done |-> 0, snap |-> NoRow]
          BY <2>1, <3>2 DEF ThreadIdle
        <4> QED BY <2>2, <2>4, <3>2, <4>1, RowTypes DEF ThreadOK, ThreadSteps
      <3> QED BY <3>1, <3>2
    <2>7. hist' \subseteq Flags
      BY <2>1 DEF Flags
    <2> QED BY <1>1, <2>4, <2>6, <2>7 DEF Receive, ThreadOK
  <1>2. CASE ReadRow
    BY <1>2 DEF ReadRow, ThreadSteps
  <1>3. CASE DeleteHandled
    <2>1. SubSeq(queue, thread.done + 1, Len(queue)) \in Seq(Messages)
      OBVIOUS
    <2> QED BY <1>3, <2>1, RowTypes DEF DeleteHandled, ThreadIdle, ThreadSteps
  <1> QED BY <1>1, <1>2, <1>3

\* A step of EC2, the host, the broker, SSM, the controller queue, a crash or a
\* failing call keeps the types.
LEMMA TypeEnv == TypeOK /\ (EnvStep \/ Fault) => TypeOK'
  <1> SUFFICES ASSUME TypeOK, EnvStep \/ Fault PROVE TypeOK'
    OBVIOUS
  <1> USE ConstantsAssumption DEF TypeOK, ThreadInBatch, db, env, budget
  <1>1. CASE InstanceStarts
    BY <1>1 DEF InstanceStarts, InstanceStates, NoteTypes
  <1>2. CASE InstanceStops
    BY <1>2 DEF InstanceStops, InstanceStates, NoteTypes, BrokerStates
  <1>3. CASE HostReports
    <2>1. "HostReady" \in EventTypes /\ "RebootComplete" \in EventTypes
      BY DEF EventTypes
    <2>2. queue' \in Seq(Messages) /\ Len(queue) <= Len(queue')
      BY <1>3, <2>1, SendTypes DEF HostReports
    <2> QED BY <1>3, <2>2 DEF HostReports
  <1>4. CASE BrokerProgress \/ BrokerForgets
    BY <1>4 DEF BrokerProgress, BrokerForgets, BrokerStates
  <1>5. CASE ResumeCommandEnds \/ CpuCommandEnds
    BY <1>5 DEF ResumeCommandEnds, CpuCommandEnds, BrokerStates, NoteTypes
  <1>6. ASSUME NEW t \in NoteTypes, ControllerQueue(t) PROVE TypeOK'
    <2>1. t \in EventTypes
      BY DEF EventTypes
    <2>2. queue' \in Seq(Messages) /\ Len(queue) <= Len(queue')
      BY <1>6, <2>1, SendTypes DEF ControllerQueue
    <2> QED BY <1>6, <2>2 DEF ControllerQueue
  <1>7. ASSUME NEW t \in EventTypes, DedupWindowEnds(t) PROVE TypeOK'
    BY <1>7 DEF DedupWindowEnds
  <1>8. CASE HandlerRaises
    <2>1. ThreadOK'
      BY <1>8, ThreadTypes DEF HandlerRaises
    <2> QED BY <1>8, <2>1 DEF HandlerRaises, ThreadOK
  <1>9. CASE InstanceFails
    BY <1>9 DEF InstanceFails, StopInstance, InstanceStates, NoteTypes
  <1>10. CASE Crash
    <2>1. ThreadOK'
      BY <1>10, RowTypes DEF Crash, ThreadIdle, ThreadSteps, ThreadOK
    <2>2. api' \in [pc : ApiSteps, op : AllRequests \cup {"none", "create"}, snap : Rows]
      BY <1>10, RowTypes DEF Crash, ApiIdle, ApiSteps
    <2>3. hist' \subseteq Flags /\ faults' \in 0 .. MaxFaults
      BY <1>10 DEF Crash, Flags
    <2> QED BY <1>10, <2>1, <2>2, <2>3 DEF Crash, ThreadOK
  <1> QED
    BY <1>1, <1>2, <1>3, <1>4, <1>5, <1>6, <1>7, <1>8, <1>9, <1>10 DEF EnvStep, Fault

\* DCVHostReadyEventHandler keeps the types.
LEMMA TypeHostReady == TypeOK /\ HandleHostReady => TypeOK'
  <1> SUFFICES ASSUME TypeOK, HandleHostReady PROVE TypeOK'
    OBVIOUS
  <1> USE RowTypes, FlagTypes, ThreadTypes DEF db, env, budget, HostReadyGuard, Handling, Snap
  <1>0. "ValidateCreation" \in EventTypes /\ {"CREATING", "INITIALIZING", "ERROR"} \subseteq States
    BY DEF EventTypes, States
  <1>1. CASE HostReadyLosesRow
    <2>1. ThreadOK'
      BY <1>1 DEF HostReadyLosesRow, TypeOK
    <2> QED BY <1>0, <1>1, <2>1 DEF HostReadyLosesRow, TypeOK, ThreadOK
  <1>2. CASE HostReadyCreates
    <2>1. queue' \in Seq(Messages) /\ Len(queue) <= Len(queue')
      BY <1>0, <1>2, SendTypes DEF HostReadyCreates, TypeOK
    <2>2. ThreadOK'
      BY <1>2, <2>1 DEF HostReadyCreates
    <2>3. ctr' \in [creation : Nat, validate : Nat, resumed : Nat]
      BY <1>2 DEF HostReadyCreates, TypeOK
    <2> QED BY <1>0, <1>2, <2>1, <2>2, <2>3 DEF HostReadyCreates, TypeOK, ThreadOK, BrokerStates
  <1>3. CASE HostReadyRetries
    <2>1. ThreadOK'
      BY <1>3 DEF HostReadyRetries, TypeOK
    <2>2. ctr' \in [creation : Nat, validate : Nat, resumed : Nat]
      BY <1>3, CounterTypes DEF HostReadyRetries, CounterRecords, TypeOK
    <2>3. session \in Rows /\ thread.snap \in Rows /\ hist \subseteq Flags
      BY DEF TypeOK
    <2>4. session' \in Rows
      BY <1>0, <1>3, <2>3 DEF HostReadyRetries
    <2>5. hist' \subseteq Flags
      BY <1>3, <2>3 DEF HostReadyRetries
    <2> QED BY <1>3, <2>1, <2>2, <2>4, <2>5 DEF HostReadyRetries, TypeOK, ThreadOK
  <1>4. CASE HostReadyGivesUp
    <2>1. ThreadOK'
      BY <1>4 DEF HostReadyGivesUp, TypeOK
    <2> QED BY <1>0, <1>4, <2>1 DEF HostReadyGivesUp, TypeOK, ThreadOK
  <1> QED BY <1>1, <1>2, <1>3, <1>4 DEF HandleHostReady

\* ValidateDCVSessionCreationEventHandler keeps the types.
LEMMA TypeValidateCreation == TypeOK /\ HandleValidateCreation => TypeOK'
  <1> SUFFICES ASSUME TypeOK, HandleValidateCreation PROVE TypeOK'
    OBVIOUS
  <1> USE RowTypes, FlagTypes, ThreadTypes DEF db, env, budget, ValidatingCreation, Handling, Snap
  <1>0. {"READY", "INITIALIZING", "ERROR"} \subseteq States
    BY DEF States
  <1>1. CASE CreationOfDeleting
    <2>1. ThreadOK'
      BY <1>1 DEF CreationOfDeleting, TypeOK
    <2> QED BY <1>1, <2>1 DEF CreationOfDeleting, TypeOK, ThreadOK
  <1>2. CASE CreationReady
    <2>1. ThreadOK'
      BY <1>2 DEF CreationReady, TypeOK
    <2> QED BY <1>0, <1>2, <2>1 DEF CreationReady, TypeOK, ThreadOK
  <1>3. CASE CreationGivesUp
    <2>1. ThreadOK'
      BY <1>3 DEF CreationGivesUp, TypeOK
    <2> QED BY <1>0, <1>3, <2>1 DEF CreationGivesUp, TypeOK, ThreadOK
  <1>4. CASE CreationOfStopping
    <2>1. ThreadOK'
      BY <1>4 DEF CreationOfStopping, TypeOK
    <2> QED BY <1>4, <2>1 DEF CreationOfStopping, TypeOK, ThreadOK
  <1>5. CASE CreationRetries
    <2>1. ThreadOK'
      BY <1>5 DEF CreationRetries, TypeOK
    <2>2. ctr' \in [creation : Nat, validate : Nat, resumed : Nat]
      BY <1>5, CounterTypes DEF CreationRetries, CounterRecords, TypeOK
    <2>3. session \in Rows /\ thread.snap \in Rows /\ hist \subseteq Flags
      BY DEF TypeOK
    <2>4. session' \in Rows
      BY <1>0, <1>5, <2>3 DEF CreationRetries
    <2>5. hist' \subseteq Flags
      BY <1>5, <2>3 DEF CreationRetries
    <2> QED BY <1>5, <2>1, <2>2, <2>4, <2>5 DEF CreationRetries, TypeOK, ThreadOK
  <1> QED BY <1>1, <1>2, <1>3, <1>4, <1>5 DEF HandleValidateCreation

\* ValidateDCVSessionDeletionEventHandler keeps the types.
LEMMA TypeValidateDeletion == TypeOK /\ HandleValidateDeletion => TypeOK'
  <1> SUFFICES ASSUME TypeOK, HandleValidateDeletion PROVE TypeOK'
    OBVIOUS
  <1> USE RowTypes, FlagTypes, ThreadTypes DEF db, env, budget, Handling, Snap
  <1>0. {"STOPPED", "STOPPING"} \subseteq States
    BY DEF States
  <1>1. CASE DeletionPending \/ ContinueStopRefused
    <2>1. ThreadOK'
      BY <1>1 DEF DeletionPending, ContinueStopRefused, TypeOK
    <2> QED BY <1>1, <2>1 DEF DeletionPending, ContinueStopRefused, TypeOK, ThreadOK
  <1>2. CASE ContinueDeleteSession
    <2>1. ThreadOK'
      <3>1. CASE Gone
        BY <1>2, <3>1 DEF ContinueDeleteSession, TypeOK
      <3>2. CASE ~Gone
        BY <1>2, <3>2 DEF ContinueDeleteSession, TypeOK, ThreadOK, ThreadInBatch, ThreadSteps
      <3> QED BY <3>1, <3>2
    <2> QED BY <1>2, <2>1 DEF ContinueDeleteSession, TypeOK, ThreadOK
  <1>5. CASE ContinueDeleteFails
    <2>1. ThreadOK'
      BY <1>5 DEF ContinueDeleteFails, TypeOK
    <2>2. hist' \subseteq Flags /\ faults' \in 0 .. MaxFaults
      BY <1>5, FailsTypes DEF ContinueDeleteFails, Flags
    <2> QED BY <1>5, <2>1, <2>2 DEF ContinueDeleteFails, TypeOK, ThreadOK
  <1>3. CASE ContinueTerminate
    <2>1. ThreadOK'
      BY <1>3 DEF ContinueTerminate, TypeOK
    <2> QED BY <1>3, <2>1 DEF ContinueTerminate, TerminateSucceeds, TerminateFails,
            ServerStates, InstanceStates, Flags, TypeOK, ThreadOK
  <1>4. CASE ContinueStopSession
    <2>1. ThreadOK'
      BY <1>4 DEF ContinueStopSession, TypeOK
    <2>2. session' \in Rows
      BY <1>0, <1>4 DEF ContinueStopSession, TypeOK
    <2>3. server' \in ServerStates
      BY <1>4 DEF ContinueStopSession, ServerAfterStop, ServerStates
    <2>4. ec2' \in InstanceStates /\ notes' \subseteq NoteTypes
      BY <1>4 DEF ContinueStopSession, StopInstance, InstanceStates, NoteTypes, TypeOK
    <2>5. hist' \subseteq Flags
      BY <1>4 DEF ContinueStopSession, Flags, TypeOK
    <2> QED BY <1>4, <2>1, <2>2, <2>3, <2>4, <2>5 DEF ContinueStopSession, TypeOK, ThreadOK
  <1> QED BY <1>1, <1>2, <1>3, <1>4, <1>5 DEF HandleValidateDeletion

\* EC2StateChangeEventHandler keeps the types.
LEMMA TypeEc2StateChange == TypeOK /\ HandleEc2StateChange => TypeOK'
  <1> SUFFICES ASSUME TypeOK, HandleEc2StateChange PROVE TypeOK'
    OBVIOUS
  <1> USE RowTypes, FlagTypes, ThreadTypes DEF db, env, budget, Handling, Snap
  <1>0. {"STOPPED", "STOPPING", "ERROR"} \subseteq States /\ "RebootComplete" \in EventTypes
    BY DEF States, EventTypes
  <1>1. ASSUME NEW t, NEW st \in States, NEW row \in ServerStates, HandleEc2Stopping(t, st, row)
        PROVE  TypeOK'
    <2>1. ThreadOK'
      BY <1>1 DEF HandleEc2Stopping, TypeOK
    <2>2. session' \in Rows
      BY <1>0, <1>1 DEF HandleEc2Stopping, TypeOK
    <2> QED BY <1>1, <2>1, <2>2 DEF HandleEc2Stopping, TypeOK, ThreadOK
  <1>2. CASE HandleStopping
    <2>1. server \in ServerStates
      BY DEF TypeOK
    <2> QED BY <1>0, <1>1, <1>2, <2>1 DEF HandleStopping
  <1>3. CASE HandleStopped
    <2>1. "STOPPED" \in ServerStates
      BY DEF ServerStates
    <2> QED BY <1>0, <1>1, <1>3, <2>1 DEF HandleStopped
  <1>4. CASE HandleRunning
    <2>1. queue' \in Seq(Messages) /\ Len(queue) <= Len(queue') /\ dedup' \subseteq EventTypes
      BY <1>0, <1>4, SendTypes DEF HandleRunning, TypeOK
    <2>2. ThreadOK'
      BY <1>4, <2>1 DEF HandleRunning
    <2>3. hist' \subseteq Flags
      BY <1>4 DEF HandleRunning, TypeOK
    <2> QED BY <1>4, <2>1, <2>2, <2>3 DEF HandleRunning, ServerStates, TypeOK, ThreadOK
  <1> QED BY <1>2, <1>3, <1>4 DEF HandleEc2StateChange

\* DCVHostRebootCompleteEventHandler keeps the types.
LEMMA TypeRebootComplete == TypeOK /\ HandleRebootComplete => TypeOK'
  <1> SUFFICES ASSUME TypeOK, HandleRebootComplete PROVE TypeOK'
    OBVIOUS
  <1> USE RowTypes, FlagTypes, ThreadTypes DEF db, env, budget, RebootGuard, Handling, Snap
  <1>1. CASE RebootOfStable
    <2>1. ThreadOK'
      BY <1>1 DEF RebootOfStable, TypeOK
    <2>2. ctr' \in [creation : Nat, validate : Nat, resumed : Nat]
      <3> DEFINE C == [creation : Nat, validate : Nat, resumed : Nat]
      <3>1. \A c \in C, n \in Nat : [c EXCEPT !.resumed = n] \in C /\ c.resumed + 1 \in Nat
        OBVIOUS
      <3>2. ResetCounters(ctr) \in C
        BY DEF ResetCounters, TypeOK
      <3> QED BY <1>1, <3>1, <3>2 DEF RebootOfStable
    <2> QED BY <1>1, <2>1, <2>2 DEF RebootOfStable, TypeOK, ThreadOK
  <1>2. ASSUME RebootSaves PROVE session' \in Rows /\ hist' \subseteq Flags
    BY <1>2 DEF RebootSaves, States, TypeOK
  <1>3. CASE RebootResumes
    <2>1. ThreadOK'
      BY <1>3 DEF RebootResumes, TypeOK
    <2>2. ctr' \in [creation : Nat, validate : Nat, resumed : Nat]
      BY <1>3 DEF RebootResumes, ResetCounters, TypeOK
    <2> QED BY <1>2, <1>3, <2>1, <2>2 DEF RebootResumes, ServerStates, TypeOK, ThreadOK
  <1>4. CASE RebootRetries
    <2>1. ThreadOK'
      BY <1>4 DEF RebootRetries, TypeOK
    <2>2. ctr' \in [creation : Nat, validate : Nat, resumed : Nat]
      BY <1>4 DEF RebootRetries, ResetCounters, TypeOK
    <2> QED BY <1>2, <1>4, <2>1, <2>2 DEF RebootRetries, TypeOK, ThreadOK
  <1> QED BY <1>1, <1>3, <1>4 DEF HandleRebootComplete

\* IDEAResumeSessionCommandProgressEventHandler keeps the types.
LEMMA TypeResumeProgress == TypeOK /\ HandleResumeProgress => TypeOK'
  <1> SUFFICES ASSUME TypeOK, HandleResumeProgress PROVE TypeOK'
    OBVIOUS
  <1> USE RowTypes, FlagTypes, ThreadTypes DEF db, env, budget, Handling, Snap
  <1>0. {"INITIALIZING", "ERROR"} \subseteq States /\ "ValidateCreation" \in EventTypes
    BY DEF States, EventTypes
  <1>1. CASE HandleResumeSuccess
    <2>1. queue' \in Seq(Messages) /\ Len(queue) <= Len(queue')
      BY <1>0, <1>1, SendTypes DEF HandleResumeSuccess
    <2>2. ThreadOK'
      BY <1>1, <2>1 DEF HandleResumeSuccess
    <2> QED BY <1>0, <1>1, <2>1, <2>2 DEF HandleResumeSuccess, TypeOK, ThreadOK
  <1>2. CASE HandleResumeFailed
    <2>1. ThreadOK'
      BY <1>2 DEF HandleResumeFailed, TypeOK
    <2> QED BY <1>0, <1>2, <2>1 DEF HandleResumeFailed, TypeOK, ThreadOK
  <1>3. CASE HandleMissingRow
    <2>1. ThreadOK'
      BY <1>3 DEF HandleMissingRow, TypeOK
    <2> QED BY <1>3, <2>1 DEF HandleMissingRow, TypeOK, ThreadOK
  <1> QED BY <1>1, <1>2, <1>3 DEF HandleResumeProgress

\* The scheduled stop, CPU report and scheduled resume handlers keep the types.
LEMMA TypeScheduled ==
    TypeOK /\ (HandleScheduledStop \/ HandleCpuReport \/ HandleScheduledResume) => TypeOK'
  <1> SUFFICES ASSUME TypeOK,
                      HandleScheduledStop \/ HandleCpuReport \/ HandleScheduledResume
               PROVE  TypeOK'
    OBVIOUS
  <1> USE RowTypes, FlagTypes, ThreadTypes
      DEF db, env, budget, Handling, Snap, ScheduledResumeGuard
  <1>0. {"STOPPING", "RESUMING"} \subseteq States /\ "ValidateDeletion" \in EventTypes
    BY DEF States, EventTypes
  <1>1. CASE HandleScheduledStop
    <2>1. ThreadOK'
      BY <1>1 DEF HandleScheduledStop, TypeOK
    <2> QED BY <1>1, <2>1 DEF HandleScheduledStop, TypeOK, ThreadOK
  <1>2. CASE HandleCpuBusy
    <2>1. ThreadOK'
      BY <1>2 DEF HandleCpuBusy, TypeOK
    <2> QED BY <1>2, <2>1 DEF HandleCpuBusy, TypeOK, ThreadOK
  <1>3. CASE CpuStopRefused
    <2>1. ThreadOK'
      BY <1>3 DEF CpuStopRefused, TypeOK
    <2>2. session' \in Rows
      BY <1>0, <1>3 DEF CpuStopRefused, TypeOK
    <2> QED BY <1>3, <2>1, <2>2 DEF CpuStopRefused, TypeOK, ThreadOK
  <1>4. CASE CpuStops
    <2>1. /\ queue' \in Seq(Messages) /\ Len(queue) <= Len(queue')
          /\ dedup' \subseteq EventTypes
      <3>1. CASE session.dcv
        BY <1>0, <1>4, <3>1, SendTypes DEF CpuStops
      <3>2. CASE ~session.dcv
        BY <1>4, <3>2 DEF CpuStops, TypeOK
      <3> QED BY <3>1, <3>2
    <2>2. ThreadOK'
      BY <1>4, <2>1 DEF CpuStops
    <2>3. session' \in Rows /\ hist' \subseteq Flags
      BY <1>0, <1>4 DEF CpuStops, TypeOK
    <2>4. /\ ec2' \in InstanceStates /\ notes' \subseteq NoteTypes
          /\ server' \in ServerStates /\ broker' \in BrokerStates
      BY <1>4 DEF CpuStops, BrokerDelete, StopInstance, ServerAfterStop, InstanceStates,
         NoteTypes, ServerStates, BrokerStates, TypeOK
    <2> QED BY <1>4, <2>1, <2>2, <2>3, <2>4 DEF CpuStops, TypeOK, ThreadOK
  <1>5. CASE ScheduledResumeStarts
    <2>1. ThreadOK'
      BY <1>5 DEF ScheduledResumeStarts, TypeOK
    <2> QED BY <1>0, <1>5, <2>1
            DEF ScheduledResumeStarts, StartInstance, InstanceStates, TypeOK, ThreadOK
  <1>6. CASE ScheduledResumeFails
    <2>1. ThreadOK'
      BY <1>6 DEF ScheduledResumeFails, TypeOK
    <2> QED BY <1>6, <2>1 DEF ScheduledResumeFails, TypeOK, ThreadOK
  <1> QED BY <1>1, <1>2, <1>3, <1>4, <1>5, <1>6 DEF HandleCpuReport, HandleScheduledResume

\* IDEASessionTerminateEventHandler keeps the types.
LEMMA TypeTerminate == TypeOK /\ HandleTerminate => TypeOK'
  <1> SUFFICES ASSUME TypeOK, HandleTerminate PROVE TypeOK'
    OBVIOUS
  <1> USE RowTypes, FlagTypes, ThreadTypes DEF db, env, budget, Handling, Snap
  <1>0. "DELETING" \in States /\ "ValidateDeletion" \in EventTypes
    BY DEF States, EventTypes
  <1>1. CASE TerminateDeletes
    <2>1. ThreadOK'
      BY <1>1 DEF TerminateDeletes, TypeOK
    <2> QED BY <1>1, <2>1 DEF TerminateDeletes, TerminateSucceeds, TerminateFails,
            ServerStates, InstanceStates, Flags, TypeOK, ThreadOK
  <1>2. CASE TerminateMarks
    <2>1. /\ queue' \in Seq(Messages) /\ Len(queue) <= Len(queue')
          /\ dedup' \subseteq EventTypes
      BY <1>0, <1>2, SendTypes DEF TerminateMarks
    <2>2. ThreadOK'
      BY <1>2, <2>1 DEF TerminateMarks
    <2> QED BY <1>0, <1>2, <2>1, <2>2
            DEF TerminateMarks, BrokerDelete, BrokerStates, TypeOK, ThreadOK
  <1>3. CASE TerminateRefused
    <2>1. ThreadOK'
      BY <1>3 DEF TerminateRefused, TypeOK
    <2> QED BY <1>3, <2>1 DEF TerminateRefused, TypeOK, ThreadOK
  <1> QED BY <1>1, <1>2, <1>3 DEF HandleTerminate

\* A message that asks for nothing keeps the types.
LEMMA TypeIgnored == TypeOK /\ HandleIgnored => TypeOK'
  <1> SUFFICES ASSUME TypeOK, HandleIgnored PROVE TypeOK'
    OBVIOUS
  <1>1. ThreadOK'
    BY ThreadTypes DEF HandleIgnored, TypeOK
  <1>2. hist' \subseteq Flags
    BY DEF HandleIgnored, TypeOK, Early, Flags
  <1> QED BY <1>1, <1>2 DEF HandleIgnored, TypeOK, ThreadOK, db, env, budget

\* A stuttering step keeps the types.
LEMMA TypeStutter == TypeOK /\ UNCHANGED vars => TypeOK'
  BY DEF TypeOK, ThreadInBatch, vars, db, env, budget

\* Type correctness of the session model: every row, message and step counter has
\* its type, and the events thread never runs past the batch it received nor
\* past the queue, whatever requests, faults, thresholds and receive limits.
THEOREM TypeCorrect == Spec => []TypeOK
  <1>1. TypeOK /\ [Next]_vars => TypeOK'
    BY TypeApi, TypeRequest, TypeQueue, TypeEnv, TypeHostReady, TypeValidateCreation,
       TypeValidateDeletion, TypeEc2StateChange, TypeRebootComplete, TypeResumeProgress,
       TypeScheduled, TypeTerminate, TypeIgnored, TypeStutter
    DEF Next, ThreadStep, Handle
  <1> QED BY TypeInit, <1>1, PTL DEF Spec

\* A handler that ends forgets the row it read.
LEMMA SnapIsCleared ==
    ASSUME TypeOK, Handled \/ Kept \/ HandledUnlessGone
    PROVE  thread'.snap = NoRow
  BY DEF TypeOK, Handled, Kept, HandledUnlessGone

\* Inductive: a termination that goes through the broker has read a DCV id (that is
\* what FirstStep asks), and only a resume starts an instance.
RowsInv ==
    /\ RowsHaveSession
    /\ api.op = "terminate" /\ api.pc \in {"brokerDelete", "writeRow"} => api.snap.dcv
    /\ api.pc = "startInstance" => api.op = "resume"

\* No step makes a READY or DELETING row, or copy of one, without a DCV id.
LEMMA RowsStep == TypeOK /\ RowsInv /\ [Next]_vars => RowsInv'
  <1> SUFFICES ASSUME TypeOK, RowsInv, [Next]_vars PROVE RowsInv'
    OBVIOUS
  <1> USE DEF RowsInv, RowsHaveSession, HasSession, Snap, db, env, budget
  <1>1. CASE ApiStep
    <2> USE DEF TypeOK, ApiAt, ApiGoto, ApiEnds, ApiIdle, NoRow
    <2>1. CASE ApiProvision \/ ApiCreateServerRow \/ ApiCreateSessionRow
      <3>1. CASE ApiProvision
        BY <3>1 DEF ApiProvision
      <3>2. CASE ApiCreateServerRow
        BY <3>2 DEF ApiCreateServerRow, Fails
      <3>3. CASE ApiCreateSessionRow
        BY <3>3 DEF ApiCreateSessionRow, Fails
      <3> QED BY <2>1, <3>1, <3>2, <3>3
    <2>2. CASE ApiBrokerDelete
      BY <2>2 DEF ApiBrokerDelete
    <2>3. CASE ApiWriteRow
      <3> DEFINE st == Target(api.op, api.snap)
      <3>1. HasSession([api.snap EXCEPT !.st = st])
        <4>1. (st = "DELETING" /\ api.op = "terminate") \/ st = api.snap.st
              \/ st \in {"STOPPING", "RESUMING"}
          BY DEF Target
        <4>2. api.op = "terminate" => api.snap.dcv
          BY <2>3 DEF ApiWriteRow
        <4> QED BY <4>1, <4>2 DEF Rows
      <3>2. api'.pc \in {"idle", "publish", "stopInstance", "rebootInstance"}
        BY <2>3 DEF ApiWriteRow, AfterWrite
      <3>3. api'.snap \in {api.snap, NoRow}
        BY <2>3 DEF ApiWriteRow
      <3> QED BY <2>3, <3>1, <3>2, <3>3 DEF ApiWriteRow
    <2>4. CASE ApiPublish \/ ApiStopInstance \/ ApiRebootInstance
      BY <2>4 DEF ApiPublish, ApiStopInstance, ApiRebootInstance
    <2>5. CASE ApiStartInstance
      BY <2>5 DEF ApiStartInstance
    <2>6. CASE ApiTerminateInstance \/ ApiDeleteRow
      BY <2>6 DEF ApiTerminateInstance, ApiDeleteRow
    <2> QED BY <1>1, <2>1, <2>2, <2>3, <2>4, <2>5, <2>6 DEF ApiStep
  <1>2. CASE Request
    <2>1. ASSUME NEW op \in AllRequests, ApiRead(op) PROVE RowsInv'
      BY <2>1 DEF ApiRead, FirstStep, Accepts
    <2>2. CASE ScheduleStops \/ ScheduleResumes \/ UserIsDisabled
      BY <2>2 DEF ScheduleStops, ScheduleResumes, UserIsDisabled, PublishScheduled
    <2> QED BY <1>2, <2>1, <2>2 DEF Request
  <1>3. CASE Receive \/ ReadRow \/ DeleteHandled
    <2>1. CASE Receive
      <3>1. thread'.snap = thread.snap \/ thread'.snap = NoRow
        BY <2>1 DEF Receive, ThreadIdle
      <3> QED BY <2>1, <3>1 DEF Receive, NoRow
    <2>2. CASE ReadRow
      BY <2>2 DEF ReadRow, TypeOK
    <2>3. CASE DeleteHandled
      BY <2>3 DEF DeleteHandled, ThreadIdle, NoRow
    <2> QED BY <1>3, <2>1, <2>2, <2>3
  <1>4. CASE Handle
    <2>1. CASE HandleIgnored \/ HandleScheduledStop
      <3>1. thread'.snap = NoRow
        BY <2>1, SnapIsCleared DEF HandleIgnored, HandleScheduledStop
      <3> QED BY <2>1, <3>1 DEF HandleIgnored, HandleScheduledStop, NoRow
    <2>2. CASE HandleHostReady
      <3>1. thread'.snap = NoRow
        BY <2>2, SnapIsCleared DEF HandleHostReady, HostReadyLosesRow, HostReadyCreates,
           HostReadyRetries, HostReadyGivesUp
      <3> QED BY <2>2, <3>1 DEF HandleHostReady, HostReadyLosesRow, HostReadyCreates,
              HostReadyRetries, HostReadyGivesUp, NoRow, TypeOK, Rows
    <2>3. CASE HandleValidateCreation
      <3>1. thread'.snap = NoRow
        BY <2>3, SnapIsCleared DEF HandleValidateCreation, CreationOfDeleting, CreationReady,
           CreationGivesUp, CreationOfStopping, CreationRetries
      <3> QED BY <2>3, <3>1 DEF HandleValidateCreation, CreationOfDeleting, CreationReady,
              CreationGivesUp, CreationOfStopping, CreationRetries, Described,
              NoRow, TypeOK, Rows
    <2>4. CASE HandleValidateDeletion
      <3>1. CASE ContinueDeleteSession
        <4>1. thread'.snap = NoRow \/ thread'.snap = thread.snap
          BY <3>1, SnapIsCleared DEF ContinueDeleteSession, TypeOK
        <4> QED BY <3>1, <4>1 DEF ContinueDeleteSession, NoRow
      <3>2. CASE DeletionPending \/ ContinueTerminate \/ ContinueStopSession
                 \/ ContinueStopRefused \/ ContinueDeleteFails
        <4>1. thread'.snap = NoRow
          BY <3>2, SnapIsCleared DEF DeletionPending, ContinueTerminate,
             ContinueStopSession, ContinueStopRefused, ContinueDeleteFails
        <4> QED BY <3>2, <4>1 DEF DeletionPending, ContinueTerminate,
                ContinueStopSession, ContinueStopRefused, ContinueDeleteFails, NoRow, TypeOK, Rows
      <3> QED BY <2>4, <3>1, <3>2 DEF HandleValidateDeletion
    <2>5. CASE HandleEc2StateChange
      <3>1. thread'.snap = NoRow
        BY <2>5, SnapIsCleared DEF HandleEc2StateChange, HandleStopping, HandleStopped,
           HandleEc2Stopping, HandleRunning
      <3> QED BY <2>5, <3>1 DEF HandleEc2StateChange, HandleStopping, HandleStopped,
              HandleEc2Stopping, HandleRunning, NoRow, TypeOK, Rows
    <2>6. CASE HandleRebootComplete
      <3>1. thread'.snap = NoRow
        BY <2>6, SnapIsCleared DEF HandleRebootComplete, RebootOfStable, RebootResumes,
           RebootRetries
      <3> QED BY <2>6, <3>1 DEF HandleRebootComplete, RebootOfStable, RebootResumes,
              RebootRetries, RebootSaves, NoRow, TypeOK, Rows
    <2>7. CASE HandleResumeProgress
      <3>1. thread'.snap = NoRow
        BY <2>7, SnapIsCleared DEF HandleResumeProgress, HandleResumeSuccess,
           HandleResumeFailed, HandleMissingRow
      <3> QED BY <2>7, <3>1 DEF HandleResumeProgress, HandleResumeSuccess,
              HandleResumeFailed, HandleMissingRow, NoRow, TypeOK, Rows
    <2>8. CASE HandleCpuReport
      <3>1. thread'.snap = NoRow
        BY <2>8, SnapIsCleared DEF HandleCpuReport, HandleCpuBusy, CpuStopRefused, CpuStops
      <3> QED BY <2>8, <3>1 DEF HandleCpuReport, HandleCpuBusy, CpuStopRefused, CpuStops,
              NoRow, TypeOK, Rows
    <2>9. CASE HandleScheduledResume
      <3>1. thread'.snap = NoRow
        BY <2>9, SnapIsCleared DEF HandleScheduledResume, ScheduledResumeStarts,
           ScheduledResumeFails
      <3> QED BY <2>9, <3>1 DEF HandleScheduledResume, ScheduledResumeStarts,
              ScheduledResumeFails, NoRow, TypeOK, Rows
    <2>10. CASE HandleTerminate
      <3>1. thread'.snap = NoRow
        BY <2>10, SnapIsCleared DEF HandleTerminate, TerminateDeletes, TerminateMarks,
           TerminateRefused
      <3> QED BY <2>10, <3>1 DEF HandleTerminate, TerminateDeletes, TerminateMarks,
              TerminateRefused, FirstStep, NoRow, TypeOK, Rows
    <2> QED BY <1>4, <2>1, <2>2, <2>3, <2>4, <2>5, <2>6, <2>7, <2>8, <2>9, <2>10 DEF Handle
  <1>5. CASE EnvStep
    BY <1>5 DEF EnvStep, InstanceStarts, InstanceStops, HostReports, BrokerProgress,
       BrokerForgets, ResumeCommandEnds, CpuCommandEnds, ControllerQueue, DedupWindowEnds
  <1>6. CASE Fault
    <2>1. CASE HandlerRaises
      <3>1. thread'.snap = NoRow
        BY <2>1, SnapIsCleared DEF HandlerRaises
      <3> QED BY <2>1, <3>1 DEF HandlerRaises, NoRow
    <2>2. CASE InstanceFails \/ Crash
      BY <2>2 DEF InstanceFails, Crash, ThreadIdle, ApiIdle, NoRow
    <2> QED BY <1>6, <2>1, <2>2 DEF Fault
  <1>7. CASE UNCHANGED vars
    BY <1>7 DEF vars
  <1> QED BY <1>1, <1>2, <1>3, <1>4, <1>5, <1>6, <1>7 DEF Next, ThreadStep

\* A READY or DELETING session has its dcv_session_id, in the table and in every
\* copy a request or handler has read and may write back.
THEOREM RowsCorrect == Spec => []RowsHaveSession
  <1>1. Init => RowsInv
    BY DEF Init, RowsInv, RowsHaveSession, HasSession, Snap, NoRow
  <1>2. RowsInv => RowsHaveSession
    BY DEF RowsInv
  <1> QED BY TypeCorrect, RowsStep, <1>1, <1>2, PTL DEF Spec

\* Inductive: which steps belong to the launch, that a row about to be deleted by
\* the API has an instance that is gone or a failure that is recorded, and that
\* no request writes back the absence of a row.
HostInv ==
    /\ InstanceHasServerRow
    /\ OrphanHasCause
    /\ api.op = "create" <=> api.pc \in {"createServer", "createRow"}
    /\ api.pc = "deleteRow" /\ Alive => "terminate_error" \in hist
    /\ api.pc \in {"brokerDelete", "writeRow", "startInstance"} => api.snap.st # "NONE"

\* What most steps do: the instance is not created, the server row not deleted,
\* the session row not deleted, the request not at a critical place.
Harmless ==
    /\ Alive' => Alive
    /\ server' = "none" => server = "none" \/ ~Alive'
    /\ Gone' /\ ~Gone => ~Alive' \/ "terminate_error" \in hist'
    /\ hist \subseteq hist'
    /\ thread.pc = "terminate" => thread'.pc = "terminate"
    /\ \/ api' = api
       \/ /\ api.op # "create"
          /\ api'.op # "create"
          /\ api'.pc \notin {"createServer", "createRow", "deleteRow"}
          /\ \/ api'.pc \notin {"brokerDelete", "writeRow", "startInstance"}
             \/ api'.snap.st # "NONE"

\* A harmless step keeps the invariant.
LEMMA HarmlessStep == TypeOK /\ HostInv /\ Harmless => HostInv'
  BY DEF TypeOK, HostInv, InstanceHasServerRow, OrphanHasCause, Harmless

\* A step of the API request being served keeps HostInv.
LEMMA HostApi == TypeOK /\ HostInv /\ ApiStep => HostInv'
  <1> SUFFICES ASSUME TypeOK, HostInv, ApiStep PROVE HostInv'
    OBVIOUS
  <1> USE DEF ApiAt, ApiGoto, ApiEnds, ApiIdle, db, env, budget
  <1>1. CASE ApiProvision
    BY <1>1 DEF ApiProvision, HostInv, InstanceHasServerRow, OrphanHasCause, Alive, Gone
  <1>2. CASE ApiCreateServerRow
    BY <1>2 DEF ApiCreateServerRow, Fails, HostInv, InstanceHasServerRow, OrphanHasCause,
       Alive, Gone, TypeOK
  <1>3. CASE ApiCreateSessionRow
    BY <1>3 DEF ApiCreateSessionRow, Fails, HostInv, InstanceHasServerRow, OrphanHasCause,
       Alive, Gone, TypeOK
  <1>4. CASE ApiBrokerDelete
    <2>1. Harmless
      BY <1>4 DEF ApiBrokerDelete, Harmless, HostInv, Alive, Gone, TypeOK
    <2> QED BY <2>1, HarmlessStep
  <1>5. CASE ApiWriteRow
    <2>1. Target(api.op, api.snap) # "NONE" \/ Target(api.op, api.snap) = api.snap.st
      BY DEF Target
    <2>2. ~Gone'
      BY <1>5, <2>1 DEF ApiWriteRow, HostInv, Gone, TypeOK, Rows
    <2>3. /\ api.op # "create" /\ api'.op # "create"
          /\ api'.pc \in {"idle", "publish", "stopInstance", "rebootInstance"}
      BY <1>5 DEF ApiWriteRow, AfterWrite, HostInv, TypeOK
    <2>4. Harmless
      BY <1>5, <2>2, <2>3 DEF ApiWriteRow, Harmless, Alive
    <2> QED BY <2>4, HarmlessStep
  <1>6. CASE ApiPublish
    <2>1. Harmless
      BY <1>6 DEF ApiPublish, Harmless, HostInv, Alive, Gone, TypeOK
    <2> QED BY <2>1, HarmlessStep
  <1>7. CASE ApiStopInstance
    <2>1. Harmless
      BY <1>7 DEF ApiStopInstance, StopInstance, CanStopInstance, ServerAfterStop,
         Ec2Error, Harmless, HostInv, Alive, Gone, TypeOK
    <2> QED BY <2>1, HarmlessStep
  <1>8. CASE ApiStartInstance
    <2>1. Harmless
      BY <1>8 DEF ApiStartInstance, StartInstance, CanStartInstance, Harmless, HostInv,
         Alive, Gone, TypeOK
    <2> QED BY <2>1, HarmlessStep
  <1>9. CASE ApiRebootInstance
    <2>1. Harmless
      BY <1>9 DEF ApiRebootInstance, Ec2Error, Harmless, HostInv, Alive, Gone, TypeOK
    <2> QED BY <2>1, HarmlessStep
  <1>10. CASE ApiTerminateInstance
    <2> USE DEF HostInv, InstanceHasServerRow, OrphanHasCause, Alive, Gone, TypeOK
    <2>1. /\ session' = session /\ thread' = thread /\ api.op # "create"
          /\ api'.op # "create" /\ api'.pc \in {"deleteRow", "idle"}
      BY <1>10 DEF ApiTerminateInstance
    <2>2. CASE TerminateSucceeds
      BY <2>1, <2>2 DEF TerminateSucceeds
    <2>3. CASE TerminateFails
      BY <2>1, <2>3 DEF TerminateFails
    <2>4. CASE server = "none" /\ ApiEnds /\ UNCHANGED <<ec2, server, hist>>
      BY <1>10, <2>1, <2>4
    <2> QED BY <1>10, <2>2, <2>3, <2>4 DEF ApiTerminateInstance
  <1>11. CASE ApiDeleteRow
    BY <1>11 DEF ApiDeleteRow, HostInv, InstanceHasServerRow, OrphanHasCause, Alive,
       Gone, NoRow, TypeOK
  <1> QED
    BY <1>1, <1>2, <1>3, <1>4, <1>5, <1>6, <1>7, <1>8, <1>9, <1>10, <1>11 DEF ApiStep

\* A new request keeps HostInv.
LEMMA HostRequest == TypeOK /\ HostInv /\ Request => HostInv'
  <1> SUFFICES ASSUME TypeOK, HostInv, Request PROVE HostInv'
    OBVIOUS
  <1> USE DEF Harmless, Alive, Gone, db, env, budget
  <1>1. ASSUME NEW op \in AllRequests, ApiRead(op) PROVE Harmless
    <2>1. FirstStep(op, session) \in {"brokerDelete", "writeRow", "startInstance",
                                      "terminateInstance"}
      BY DEF FirstStep
    <2>2. op # "create" /\ api.op # "create"
      BY <1>1 DEF AllRequests, ApiRead, ApiAt, HostInv
    <2> QED BY <1>1, <2>1, <2>2 DEF ApiRead
  <1>2. ASSUME ScheduleStops \/ ScheduleResumes \/ UserIsDisabled PROVE Harmless
    BY <1>2 DEF ScheduleStops, ScheduleResumes, UserIsDisabled, PublishScheduled
  <1> QED BY <1>1, <1>2, HarmlessStep DEF Request

\* Receiving, reading and deleting messages keep HostInv.
LEMMA HostQueue == TypeOK /\ HostInv /\ (Receive \/ ReadRow \/ DeleteHandled) => HostInv'
  <1> SUFFICES ASSUME TypeOK, HostInv, Receive \/ ReadRow \/ DeleteHandled PROVE Harmless
    BY HarmlessStep
  <1> QED BY DEF Receive, ReadRow, DeleteHandled, Harmless, Alive, Gone, db, env, budget

\* Every event handler keeps HostInv; the ones that terminate hosts name the error
\* when EC2 refuses.
LEMMA HostHandle == TypeOK /\ HostInv /\ Handle => HostInv'
  <1> SUFFICES ASSUME TypeOK, HostInv, Handle PROVE HostInv'
    OBVIOUS
  <1> USE DEF Harmless, Alive, Gone, db, env, budget, Handling, Snap
  <1>1. ASSUME HandleIgnored \/ HandleScheduledStop \/ HandleScheduledResume PROVE Harmless
    BY <1>1 DEF HandleIgnored, HandleScheduledStop, HandleScheduledResume,
       ScheduledResumeGuard, ScheduledResumeStarts, ScheduledResumeFails,
       CanStartInstance, StartInstance, TypeOK, Rows
  <1>2. ASSUME HandleHostReady PROVE Harmless
    BY <1>2 DEF HandleHostReady, HostReadyGuard, HostReadyLosesRow, HostReadyCreates,
       HostReadyRetries, HostReadyGivesUp, TypeOK, Rows
  <1>3. ASSUME HandleValidateCreation PROVE Harmless
    BY <1>3 DEF HandleValidateCreation, ValidatingCreation, CreationOfDeleting,
       CreationReady, CreationGivesUp, CreationOfStopping, CreationRetries, TypeOK, Rows
  <1>4. ASSUME DeletionPending \/ ContinueStopSession \/ ContinueStopRefused
               \/ ContinueDeleteFails
        PROVE  Harmless
    BY <1>4 DEF DeletionPending, ContinueStopSession, ContinueStopRefused,
       ContinueDeleteFails, Fails, StopInstance,
       ServerAfterStop, TypeOK, Rows
  <1>5. CASE ContinueDeleteSession
    BY <1>5 DEF ContinueDeleteSession, HostInv, InstanceHasServerRow, OrphanHasCause,
       NoRow, TypeOK
  <1>6. CASE ContinueTerminate
    BY <1>6 DEF ContinueTerminate, TerminateSucceeds, TerminateFails, HostInv,
       InstanceHasServerRow, OrphanHasCause, TypeOK
  <1>7. ASSUME HandleEc2StateChange PROVE Harmless
    BY <1>7 DEF HandleEc2StateChange, HandleStopping, HandleStopped, HandleEc2Stopping,
       HandleRunning, TypeOK, Rows
  <1>8. ASSUME HandleRebootComplete \/ HandleResumeProgress PROVE Harmless
    BY <1>8 DEF HandleRebootComplete, RebootGuard, RebootOfStable, RebootResumes,
       RebootRetries, RebootSaves, HandleResumeProgress, HandleResumeSuccess,
       HandleResumeFailed, HandleMissingRow, TypeOK, Rows
  <1>9. ASSUME HandleCpuReport PROVE Harmless
    BY <1>9 DEF HandleCpuReport, HandleCpuBusy, CpuStopRefused, CpuStops, StopInstance,
       ServerAfterStop, TypeOK, Rows
  <1>10. ASSUME HandleTerminate PROVE Harmless
    BY <1>10 DEF HandleTerminate, TerminateDeletes, TerminateMarks, TerminateRefused,
       TerminateSucceeds, TerminateFails, TypeOK, Rows
  <1> QED
    BY <1>1, <1>2, <1>3, <1>4, <1>5, <1>6, <1>7, <1>8, <1>9, <1>10, HarmlessStep
    DEF Handle, HandleValidateDeletion

\* The environment and the faults keep HostInv.
LEMMA HostEnv == TypeOK /\ HostInv /\ (EnvStep \/ Fault) => HostInv'
  <1> SUFFICES ASSUME TypeOK, HostInv, EnvStep \/ Fault PROVE HostInv'
    OBVIOUS
  <1> USE DEF Harmless, Alive, Gone, db, env, budget
  <1>1. ASSUME EnvStep PROVE Harmless
    BY <1>1 DEF EnvStep, InstanceStarts, InstanceStops, HostReports, BrokerProgress,
       BrokerForgets, ResumeCommandEnds, CpuCommandEnds, ControllerQueue, DedupWindowEnds
  <1>2. ASSUME HandlerRaises \/ InstanceFails PROVE Harmless
    BY <1>2 DEF HandlerRaises, InstanceFails, StopInstance
  <1>3. CASE Crash
    BY <1>3 DEF Crash, ApiIdle, ThreadIdle, HostInv, InstanceHasServerRow, OrphanHasCause
  <1> QED BY <1>1, <1>2, <1>3, HarmlessStep DEF Fault

\* HostInv is an invariant.
LEMMA HostInvariant == Spec => []HostInv
  <1>1. Init => HostInv
    BY DEF Init, HostInv, InstanceHasServerRow, OrphanHasCause, Alive, Gone, NoRow
  <1>2. TypeOK /\ HostInv /\ UNCHANGED vars => HostInv'
    BY DEF HostInv, InstanceHasServerRow, OrphanHasCause, Alive, Gone, vars, db, env, budget
  <1>3. TypeOK /\ HostInv /\ [Next]_vars => HostInv'
    BY <1>2, HostApi, HostRequest, HostQueue, HostHandle, HostEnv DEF Next, ThreadStep
  <1> QED BY TypeCorrect, <1>1, <1>3, PTL DEF Spec

\* An instance that can be billed has a server row, except while it is launched,
\* after a crash of the controller or after a failing write in create_session: no
\* order of requests, handlers and EC2 errors in terminate_dcv_hosts loses it.
THEOREM ServerRowCorrect == Spec => []InstanceHasServerRow
  <1>1. HostInv => InstanceHasServerRow
    BY DEF HostInv
  <1> QED BY HostInvariant, <1>1, PTL

\* An instance is without a session row only while it is launched or terminated,
\* after a failing write in create_session, a failed termination or a crash,
\* although terminate_sessions ignores the result of terminate_dcv_hosts and the
\* deletion handler deletes the row first.
THEOREM OrphanCorrect == Spec => []OrphanHasCause
  <1>1. HostInv => OrphanHasCause
    BY DEF HostInv
  <1> QED BY HostInvariant, <1>1, PTL

\* What may take the validation of a deletion away.
Irregular == {"crash", "dead_letter", "dedup_drop", "delete_error", "lost_update"}
\* A validation of the deletion waits at or after position j.
PendingFrom(j) == \E i \in j .. Len(queue) : queue[i].type = "ValidateDeletion"

\* Inductive: the validation is ahead of the thread; when the thread is about to drop
\* its own message for nothing, there is another one behind it.
DeletionInv ==
    session.st = "DELETING" /\ hist \cap Irregular = {}
    => \/ api.pc = "publish"
       \/ /\ PendingFrom(thread.done + 1)
          /\ \/ thread.pc = "terminate"
             \/ thread.pc = "handle" /\ Snap.st # "DELETING"
             => PendingFrom(thread.done + 2)

\* The messages of the queue stay where they are.
QueueKeeps ==
    /\ Len(queue) <= Len(queue')
    /\ \A i \in 1 .. Len(queue) : queue'[i] = queue[i]

\* Publishing keeps the messages in front and, unless the queue drops a duplicate,
\* adds the message at the end.
LEMMA SendKeeps ==
    ASSUME TypeOK, NEW t \in EventTypes, Send(t) \/ SendUntimed(t)
    PROVE  /\ QueueKeeps
           /\ Send(t) \/ t \notin dedup =>
                /\ Len(queue') = Len(queue) + 1
                /\ queue'[Len(queue) + 1].type = t
  <1>0. queue \in Seq(Messages) /\ Len(queue) \in Nat
    BY DEF TypeOK
  <1>1. Message(t) \in Messages /\ Message(t).type = t
    BY DEF Message, Messages
  <1>2. /\ Len(Append(queue, Message(t))) = Len(queue) + 1
        /\ \A i \in 1 .. Len(queue) : Append(queue, Message(t))[i] = queue[i]
        /\ Append(queue, Message(t))[Len(queue) + 1] = Message(t)
    BY <1>0, <1>1
  <1>3. queue' = queue \/ queue' = Append(queue, Message(t))
    BY DEF Send, SendUntimed
  <1>4. Send(t) \/ t \notin dedup => queue' = Append(queue, Message(t))
    BY DEF Send, SendUntimed, Repeats
  <1> QED BY <1>0, <1>1, <1>2, <1>3, <1>4 DEF QueueKeeps

\* The thread leaves the group as it is, gives its message back, or takes away
\* one that is no validation of this deletion.
Turn ==
    \/ thread' = thread
    \/ thread.pc = "handle" /\ Kept
    \/ /\ thread.pc = "handle" /\ Handled
       /\ queue[thread.done + 1].type # "ValidateDeletion" \/ Snap.st # "DELETING"
    \/ thread.pc = "terminate" /\ Handled

\* A step that keeps the queue, takes no validation of this deletion away, marks
\* nothing DELETING and does not leave the publishing step keeps DeletionInv.
LEMMA DeletionKept ==
    ASSUME TypeOK, TypeOK', DeletionInv, QueueKeeps, Turn, hist \subseteq hist',
           session'.st = "DELETING" => session.st = "DELETING" \/ "lost_update" \in hist',
           api.pc = "publish" => api'.pc = "publish"
    PROVE  DeletionInv'
  <1> SUFFICES ASSUME session'.st = "DELETING", hist' \cap Irregular = {}, api'.pc # "publish"
               PROVE  /\ PendingFrom(thread.done + 1)'
                      /\ \/ thread'.pc = "terminate"
                         \/ thread'.pc = "handle" /\ thread'.snap.st # "DELETING"
                         => PendingFrom(thread.done + 2)'
    BY DEF DeletionInv, Snap
  <1>1. /\ thread.done \in Nat /\ thread'.done \in Nat
        /\ Len(queue) \in Nat /\ Len(queue') \in Nat
    BY DEF TypeOK
  <1>2. /\ PendingFrom(thread.done + 1)
        /\ \/ thread.pc = "terminate"
           \/ thread.pc = "handle" /\ thread.snap.st # "DELETING"
           => PendingFrom(thread.done + 2)
    BY DEF DeletionInv, Irregular, Snap
  <1> DEFINE Later(j) == \E i \in j .. Len(queue') : queue'[i].type = "ValidateDeletion"
  <1>3. /\ PendingFrom(thread.done + 1) => Later(thread.done + 1)
        /\ PendingFrom(thread.done + 2) => Later(thread.done + 2)
    <2>1. \A i \in Nat : i <= Len(queue) => i <= Len(queue')
      BY <1>1 DEF QueueKeeps
    <2>2. ASSUME NEW j \in {thread.done + 1, thread.done + 2}, PendingFrom(j)
          PROVE  Later(j)
      <3>1. j \in Nat \ {0}
        BY <1>1
      <3>2. PICK i \in j .. Len(queue) : queue[i].type = "ValidateDeletion"
        BY <2>2 DEF PendingFrom
      <3>3. i \in 1 .. Len(queue) /\ i \in j .. Len(queue')
        BY <1>1, <2>1, <3>1, <3>2
      <3> QED BY <3>2, <3>3 DEF QueueKeeps
    <2> QED BY <2>2
  <1>p. /\ PendingFrom(thread.done + 1)' <=> Later(thread'.done + 1)
        /\ PendingFrom(thread.done + 2)' <=> Later(thread'.done + 2)
    BY DEF PendingFrom
  <1>l. thread'.done = thread.done + 1 => (Later(thread.done + 2) => Later(thread'.done + 1))
    BY <1>1
  <1> HIDE DEF Later
  <1>4. CASE thread' = thread
    BY <1>2, <1>3, <1>4, <1>p
  <1>5. CASE thread.pc = "handle" /\ Kept
    <2>1. thread'.done = thread.done /\ thread'.pc = "delete"
      BY <1>5 DEF Kept, TypeOK
    <2> QED BY <1>2, <1>3, <1>p, <2>1
  <1>6. CASE /\ thread.pc \in {"handle", "terminate"} /\ Handled
             /\ \/ thread.pc = "terminate"
                \/ queue[thread.done + 1].type # "ValidateDeletion"
                \/ Snap.st # "DELETING"
    <2>1. thread'.done = thread.done + 1 /\ thread'.pc \in {"read", "delete"}
      BY <1>6 DEF Handled, TypeOK
    <2>2. PendingFrom(thread.done + 2)
      BY <1>1, <1>2, <1>6 DEF PendingFrom, Snap
    <2> QED BY <1>3, <1>p, <1>l, <2>1, <2>2
  <1> QED BY <1>4, <1>5, <1>6 DEF Turn

\* The conditions of DeletionKept for a step.
KeepsDeletion ==
    /\ QueueKeeps /\ Turn /\ hist \subseteq hist'
    /\ session'.st = "DELETING" => session.st = "DELETING" \/ "lost_update" \in hist'
    /\ api.pc = "publish" => api'.pc = "publish"

\* An unchanged queue keeps its messages.
LEMMA QueueSame == queue' = queue => (TypeOK => QueueKeeps)
  BY DEF QueueKeeps, TypeOK

\* A request keeps DeletionInv: the one that marks the row publishes next.
LEMMA DeletionApi ==
    TypeOK /\ TypeOK' /\ HostInv /\ DeletionInv /\ (ApiStep \/ Request) => DeletionInv'
  <1> SUFFICES ASSUME TypeOK, TypeOK', HostInv, DeletionInv, ApiStep \/ Request
               PROVE  DeletionInv'
    OBVIOUS
  <1> USE DEF ApiAt, ApiGoto, ApiEnds, ApiIdle, db, env, budget
  <1>k. KeepsDeletion => DeletionInv'
    BY DeletionKept DEF KeepsDeletion
  <1>1. ASSUME ApiProvision \/ ApiCreateServerRow \/ ApiCreateSessionRow \/ ApiBrokerDelete
               \/ ApiStopInstance \/ ApiStartInstance \/ ApiRebootInstance
               \/ ApiTerminateInstance \/ ApiDeleteRow
        PROVE  KeepsDeletion
    BY <1>1, QueueSame
    DEF KeepsDeletion, Turn, NoRow, Fails, ApiProvision, ApiCreateServerRow, ApiCreateSessionRow,
        ApiBrokerDelete, ApiStopInstance, ApiStartInstance, ApiRebootInstance, Ec2Error,
        ApiTerminateInstance, TerminateSucceeds, TerminateFails, ApiDeleteRow
  <1>2. CASE ApiWriteRow
    <2>1. CASE Target(api.op, api.snap) = "DELETING" /\ api.op = "terminate"
      <3>2. CASE api'.pc = "publish"
        BY <3>2 DEF DeletionInv
      <3>3. CASE Gone
        <4>1. api.snap # session
          BY <1>2, <3>3 DEF ApiWriteRow, HostInv, Gone
        <4>2. "lost_update" \in hist'
          BY <1>2, <4>1 DEF ApiWriteRow, Overwrites
        <4> QED BY <4>2 DEF DeletionInv, Irregular
      <3> QED BY <1>2, <2>1, <3>2, <3>3 DEF ApiWriteRow, AfterWrite, TypeOK
    <2>2. CASE api.op # "terminate"
      <3>1. session'.st = "DELETING" => api.snap.st = "DELETING"
        BY <1>2, <2>2 DEF ApiWriteRow, Target, TypeOK, Rows
      <3>2. KeepsDeletion
        BY <1>2, <3>1, QueueSame DEF ApiWriteRow, KeepsDeletion, Turn, Overwrites
      <3> QED BY <3>2, <1>k
    <2> QED BY <2>1, <2>2 DEF Target
  <1>3. CASE ApiPublish
    <2>0. "ValidateDeletion" \in EventTypes
      BY DEF EventTypes
    <2>1. "ValidateDeletion" \notin dedup \/ "dedup_drop" \in hist'
      BY <1>3 DEF ApiPublish, Dropped, Repeats
    <2>2. "ValidateDeletion" \notin dedup =>
             /\ Len(queue') = Len(queue) + 1
             /\ queue'[Len(queue) + 1].type = "ValidateDeletion"
      BY <1>3, <2>0, SendKeeps DEF ApiPublish
    <2>3. /\ thread' = thread /\ Len(queue) \in Nat /\ thread.done \in Nat /\ thread.n \in Nat
          /\ thread.done <= Len(queue)
          /\ thread.pc \in {"handle", "terminate"} => thread.done + 2 <= Len(queue) + 1
      BY <1>3 DEF ApiPublish, TypeOK, ThreadInBatch
    <2> QED BY <2>1, <2>2, <2>3 DEF DeletionInv, PendingFrom, Irregular
  <1>4. ASSUME Request PROVE KeepsDeletion
    <2>1. ASSUME NEW op \in AllRequests, ApiRead(op) PROVE KeepsDeletion
      BY <2>1, QueueSame DEF ApiRead, KeepsDeletion, Turn
    <2>2. "ScheduledStop" \in EventTypes /\ "ScheduledResume" \in EventTypes
          /\ "Terminate" \in EventTypes
      BY DEF EventTypes
    <2>3. ASSUME ScheduleStops \/ ScheduleResumes \/ UserIsDisabled PROVE KeepsDeletion
      BY <2>2, <2>3, SendKeeps DEF ScheduleStops, ScheduleResumes, UserIsDisabled,
         PublishScheduled, KeepsDeletion, Turn
    <2> QED BY <1>4, <2>1, <2>3 DEF Request
  <1> QED BY <1>1, <1>2, <1>3, <1>4, <1>k DEF ApiStep

\* Receiving and deleting messages keep DeletionInv: the queue loses only what
\* was handled or dead-lettered.
LEMMA DeletionQueue ==
    TypeOK /\ TypeOK' /\ DeletionInv /\ (Receive \/ ReadRow \/ DeleteHandled) => DeletionInv'
  <1> SUFFICES ASSUME TypeOK, TypeOK', DeletionInv, Receive \/ ReadRow \/ DeleteHandled,
                      session'.st = "DELETING", hist' \cap Irregular = {}, api'.pc # "publish"
               PROVE  /\ PendingFrom(thread.done + 1)'
                      /\ \/ thread'.pc = "terminate"
                         \/ thread'.pc = "handle" /\ thread'.snap.st # "DELETING"
                         => PendingFrom(thread.done + 2)'
    BY DEF DeletionInv, Snap
  <1>0. /\ thread.done \in Nat /\ thread.n \in Nat /\ queue \in Seq(Messages) /\ Len(queue) \in Nat
        /\ Len(queue') \in Nat
        /\ thread.done <= Len(queue)
        /\ thread.pc = "idle" => thread.done = 0
    BY DEF TypeOK, ThreadInBatch
  <1>1. session.st = "DELETING" /\ hist \cap Irregular = {} /\ api.pc # "publish"
    BY DEF Receive, ReadRow, DeleteHandled, Irregular, db
  <1>2. PICK i \in thread.done + 1 .. Len(queue) : queue[i].type = "ValidateDeletion"
    BY <1>1 DEF DeletionInv, PendingFrom
  <1>3. CASE Receive
    <2>0. PICK k \in 0 .. Len(queue) :
            /\ queue' = [j \in 1 .. Len(queue) - k |-> Received(queue[j + k])]
            /\ hist' = IF k = 0 THEN hist ELSE hist \cup {"dead_letter"}
            /\ thread' = IF k = Len(queue) THEN thread
                         ELSE [ThreadIdle EXCEPT !.pc = "read", !.n = Len(queue) - k]
      BY <1>3 DEF Receive
    <2>k. k = 0
      BY <2>0 DEF Irregular
    <2>1. /\ queue' = [j \in 1 .. Len(queue) |-> Received(queue[j])]
          /\ thread' = IF 0 = Len(queue) THEN thread
                       ELSE [ThreadIdle EXCEPT !.pc = "read", !.n = Len(queue)]
      <3>1. Len(queue) - 0 = Len(queue) /\ \A j \in 1 .. Len(queue) : j + 0 = j
        BY <1>0
      <3> QED BY <2>0, <2>k, <3>1
    <2>2. \A m \in Messages : Received(m).type = m.type /\ Received(m) \in Messages
      BY DEF Received, Messages
    <2>3. queue' \in [1 .. Len(queue) -> Messages]
      BY <1>0, <2>1, <2>2
    <2>4. Len(queue') = Len(queue) /\ queue'[i].type = "ValidateDeletion"
      BY <1>0, <1>2, <2>1, <2>2, <2>3, FunctionIsSeq
    <2>5. thread'.done = 0 /\ thread'.pc \in {"idle", "read"}
      BY <1>0, <1>3, <2>1 DEF Receive, ThreadIdle
    <2> QED BY <1>0, <1>2, <2>4, <2>5 DEF PendingFrom
  <1>4. CASE ReadRow
    <2>1. /\ thread'.done = thread.done /\ thread'.pc = "handle" /\ thread'.snap = session
          /\ queue' = queue /\ session' = session
      BY <1>4 DEF ReadRow, db, TypeOK
    <2> QED BY <1>2, <2>1 DEF PendingFrom
  <1>5. CASE DeleteHandled
    <2>0. /\ i \in Int /\ thread.done + 1 <= i /\ i <= Len(queue)
          /\ thread.done \in Int /\ Len(queue) \in Int
      BY <1>0, <1>2
    <2>1. queue' = SubSeq(queue, thread.done + 1, Len(queue))
          /\ thread'.done = 0 /\ thread'.pc = "idle"
      BY <1>5 DEF DeleteHandled, ThreadIdle
    <2>2. \A j \in thread.done + 1 .. Len(queue) : queue[j] \in Messages
      BY <1>0
    <2>3. /\ Len(queue') = Len(queue) - thread.done
          /\ queue'[i - thread.done] = queue[i]
      <3> DEFINE m == thread.done + 1
                 l == Len(queue)
      <3>1. /\ m \in Int /\ l \in Int /\ m <= l
            /\ l - m + 1 = Len(queue) - thread.done
        <4>1. i \in Nat /\ thread.done + 1 <= i /\ i <= Len(queue)
          BY <1>0, <1>2
        <4>2. thread.done \in Nat /\ Len(queue) \in Nat
          BY <1>0
        <4>3. m \in Int /\ l \in Int
          BY <4>2
        <4>4. m <= l
          BY <4>1, <4>2
        <4>5. l - m + 1 = Len(queue) - thread.done
          BY <4>2
        <4> QED BY <4>3, <4>4, <4>5
      <3>2. /\ Len(SubSeq(queue, m, l)) = IF m <= l THEN l - m + 1 ELSE 0
            /\ \A j \in 1 .. l - m + 1 : SubSeq(queue, m, l)[j] = queue[m + j - 1]
        <4> HIDE DEF m, l
        <4>1. \A j \in m .. l : queue[j] \in Messages
          BY <2>2 DEF m, l
        <4> QED BY <3>1, <4>1, SubSeqProperties
      <3>3. i - thread.done \in 1 .. l - m + 1 /\ m + (i - thread.done) - 1 = i
        BY <2>0
      <3> QED BY <2>1, <3>1, <3>2, <3>3
    <2>4. i - thread.done \in 1 .. Len(queue')
      BY <2>0, <2>3
    <2>5. i - thread.done \in thread'.done + 1 .. Len(queue')
      BY <1>0, <2>1, <2>4
    <2> QED BY <1>2, <2>1, <2>3, <2>5 DEF PendingFrom
  <1> QED BY <1>3, <1>4, <1>5

\* Every event handler keeps DeletionInv: the validation is deleted from the queue
\* only with the row.
LEMMA DeletionHandle ==
    TypeOK /\ TypeOK' /\ DeletionInv /\ Handle => DeletionInv'
  <1> SUFFICES ASSUME TypeOK, TypeOK', DeletionInv, Handle PROVE DeletionInv'
    OBVIOUS
  <1> USE DEF db, env, budget, Handling, Snap
  <1>k. KeepsDeletion => DeletionInv'
    BY DeletionKept DEF KeepsDeletion
  <1>e. /\ "ValidateCreation" \in EventTypes /\ "ValidateDeletion" \in EventTypes
        /\ "RebootComplete" \in EventTypes
    BY DEF EventTypes
  <1>1. ASSUME HandleIgnored PROVE KeepsDeletion
    <2>1. queue[thread.done + 1].type # "ValidateDeletion" \/ thread.snap.st # "DELETING"
      BY <1>1 DEF HandleIgnored, Ignored
    <2> QED BY <1>1, <2>1, QueueSame DEF HandleIgnored, KeepsDeletion, Turn
  <1>2. ASSUME HandleHostReady PROVE KeepsDeletion
    <2>1. CASE HostReadyCreates
      <3>1. QueueKeeps
        BY <1>e, <2>1, QueueSame, SendKeeps DEF HostReadyCreates
      <3> QED BY <2>1, <3>1 DEF HostReadyCreates, HostReadyGuard, HandledUnlessGone,
              KeepsDeletion, Turn
    <2>2. CASE HostReadyLosesRow \/ HostReadyRetries \/ HostReadyGivesUp
      <3>1. session'.st = "DELETING" => session.st = "DELETING"
        BY <2>2 DEF HostReadyLosesRow, HostReadyRetries, HostReadyGivesUp, TypeOK, Rows
      <3>2. Turn
        BY <2>2 DEF HostReadyLosesRow, HostReadyRetries, HostReadyGivesUp,
           HostReadyGuard, HandledUnlessGone, Turn
      <3>3. QueueKeeps /\ api' = api /\ hist \subseteq hist'
        BY <2>2, QueueSame DEF HostReadyLosesRow, HostReadyRetries, HostReadyGivesUp
      <3> QED BY <3>1, <3>2, <3>3 DEF KeepsDeletion
    <2> QED BY <1>2, <2>1, <2>2 DEF HandleHostReady
  <1>3. ASSUME HandleValidateCreation PROVE KeepsDeletion
    <2>1. Turn
      BY <1>3 DEF HandleValidateCreation, ValidatingCreation, CreationOfDeleting,
         CreationReady, CreationGivesUp, CreationOfStopping, CreationRetries,
         HandledUnlessGone, Turn
    <2>2. session'.st = "DELETING" => session.st = "DELETING" \/ "lost_update" \in hist'
      BY <1>3 DEF HandleValidateCreation, CreationOfDeleting, CreationReady,
         CreationGivesUp, CreationOfStopping, CreationRetries, TypeOK, Rows
    <2>3. QueueKeeps /\ api' = api /\ hist \subseteq hist'
      BY <1>3, QueueSame DEF HandleValidateCreation, CreationOfDeleting, CreationReady,
         CreationGivesUp, CreationOfStopping, CreationRetries
    <2> QED BY <2>1, <2>2, <2>3 DEF KeepsDeletion
  <1>4. ASSUME DeletionPending \/ ContinueStopRefused \/ ContinueStopSession
               \/ ContinueTerminate
        PROVE  KeepsDeletion
    <2>1. CASE DeletionPending \/ ContinueStopRefused
      BY <2>1, QueueSame DEF DeletionPending, ContinueStopRefused, KeepsDeletion, Turn
    <2>2. CASE ContinueStopSession
      BY <2>2, QueueSame DEF ContinueStopSession, HandledUnlessGone, KeepsDeletion, Turn,
         TypeOK, Rows
    <2>3. CASE ContinueTerminate
      BY <2>3, QueueSame DEF ContinueTerminate, TerminateSucceeds, TerminateFails,
         KeepsDeletion, Turn
    <2> QED BY <1>4, <2>1, <2>2, <2>3
  <1>5. CASE ContinueDeleteSession \/ ContinueDeleteFails
    <2>1. CASE ContinueDeleteSession
      BY <2>1 DEF ContinueDeleteSession, DeletionInv, NoRow
    <2>2. CASE ContinueDeleteFails
      BY <2>2 DEF ContinueDeleteFails, Fails, DeletionInv, Irregular
    <2> QED BY <1>5, <2>1, <2>2
  <1>6. ASSUME HandleEc2StateChange PROVE KeepsDeletion
    <2>1. CASE HandleStopping \/ HandleStopped
      BY <2>1, QueueSame DEF HandleStopping, HandleStopped, HandleEc2Stopping,
         HandledUnlessGone, KeepsDeletion, Turn, TypeOK, Rows
    <2>2. CASE HandleRunning
      <3>1. QueueKeeps
        BY <1>e, <2>2, QueueSame, SendKeeps DEF HandleRunning
      <3> QED BY <2>2, <3>1 DEF HandleRunning, KeepsDeletion, Turn
    <2> QED BY <1>6, <2>1, <2>2 DEF HandleEc2StateChange
  <1>7. ASSUME HandleRebootComplete PROVE KeepsDeletion
    <2>1. CASE RebootOfStable
      BY <2>1, QueueSame DEF RebootOfStable, RebootGuard, KeepsDeletion, Turn
    <2>2. CASE RebootResumes
      BY <2>2, QueueSame
      DEF RebootResumes, RebootGuard, RebootSaves, KeepsDeletion, Turn, TypeOK, Rows
    <2>3. CASE RebootRetries
      BY <2>3, QueueSame
      DEF RebootRetries, RebootGuard, RebootSaves, KeepsDeletion, Turn, TypeOK, Rows
    <2> QED BY <1>7, <2>1, <2>2, <2>3 DEF HandleRebootComplete
  <1>8. ASSUME HandleResumeProgress PROVE KeepsDeletion
    <2>1. CASE HandleResumeSuccess
      <3>1. QueueKeeps
        BY <1>e, <2>1, SendKeeps DEF HandleResumeSuccess
      <3> QED BY <2>1, <3>1 DEF HandleResumeSuccess, HandledUnlessGone, KeepsDeletion,
              Turn, TypeOK, Rows
    <2>2. CASE HandleResumeFailed \/ HandleMissingRow
      BY <2>2, QueueSame DEF HandleResumeFailed, HandleMissingRow, HandledUnlessGone,
         KeepsDeletion, Turn, TypeOK, Rows
    <2> QED BY <1>8, <2>1, <2>2 DEF HandleResumeProgress
  <1>9. ASSUME HandleScheduledStop \/ HandleCpuReport \/ HandleScheduledResume
        PROVE  KeepsDeletion
    <2>1. CASE HandleScheduledStop \/ HandleScheduledResume
      BY <2>1, QueueSame DEF HandleScheduledStop, HandleScheduledResume,
         ScheduledResumeGuard, ScheduledResumeStarts, ScheduledResumeFails,
         KeepsDeletion, Turn, TypeOK, Rows
    <2>2. CASE HandleCpuBusy \/ CpuStopRefused
      BY <2>2, QueueSame DEF HandleCpuBusy, CpuStopRefused, KeepsDeletion, Turn,
         TypeOK, Rows
    <2>3. CASE CpuStops
      <3>1. QueueKeeps
        BY <1>e, <2>3, QueueSame, SendKeeps DEF CpuStops
      <3> QED BY <2>3, <3>1 DEF CpuStops, KeepsDeletion, Turn, TypeOK, Rows
    <2> QED BY <1>9, <2>1, <2>2, <2>3 DEF HandleCpuReport
  <1>10. CASE TerminateDeletes
    BY <1>10 DEF TerminateDeletes, DeletionInv, NoRow
  <1>11. CASE TerminateRefused
    <2>1. KeepsDeletion
      BY <1>11, QueueSame DEF TerminateRefused, KeepsDeletion, Turn
    <2> QED BY <2>1, <1>k
  <1>12. CASE TerminateMarks
    <2>1. "ValidateDeletion" \notin dedup \/ "dedup_drop" \in hist'
      BY <1>12 DEF TerminateMarks, Dropped, Repeats
    <2>2. "ValidateDeletion" \notin dedup =>
             /\ Len(queue') = Len(queue) + 1
             /\ queue'[Len(queue) + 1].type = "ValidateDeletion"
      BY <1>12, <1>e, SendKeeps DEF TerminateMarks
    <2>3. /\ thread.done \in Nat /\ thread.n \in Nat /\ Len(queue) \in Nat
          /\ thread'.done = thread.done + 1 /\ thread'.pc \in {"read", "delete"}
          /\ thread.done + 1 <= Len(queue)
      BY <1>12 DEF TerminateMarks, Handled, TypeOK, ThreadInBatch
    <2> QED BY <2>1, <2>2, <2>3 DEF DeletionInv, PendingFrom, Irregular
  <1> QED
    BY <1>1, <1>2, <1>3, <1>4, <1>5, <1>6, <1>7, <1>8, <1>9, <1>10, <1>11, <1>12, <1>k
    DEF Handle, HandleValidateDeletion, HandleTerminate

\* The environment and the faults keep DeletionInv.
LEMMA DeletionEnv ==
    TypeOK /\ TypeOK' /\ DeletionInv /\ (EnvStep \/ Fault) => DeletionInv'
  <1> SUFFICES ASSUME TypeOK, TypeOK', DeletionInv, EnvStep \/ Fault PROVE DeletionInv'
    OBVIOUS
  <1> USE DEF db, env, budget
  <1>k. KeepsDeletion => DeletionInv'
    BY DeletionKept DEF KeepsDeletion
  <1>1. ASSUME InstanceStarts \/ InstanceStops \/ BrokerProgress \/ BrokerForgets
               \/ ResumeCommandEnds \/ CpuCommandEnds \/ HandlerRaises \/ InstanceFails
               \/ \E t \in EventTypes : DedupWindowEnds(t)
        PROVE  KeepsDeletion
    BY <1>1, QueueSame
    DEF InstanceStarts, InstanceStops, BrokerProgress, BrokerForgets, ResumeCommandEnds,
        CpuCommandEnds, HandlerRaises, InstanceFails, DedupWindowEnds, KeepsDeletion, Turn
  <1>2. ASSUME HostReports PROVE KeepsDeletion
    <2>1. "HostReady" \in EventTypes /\ "RebootComplete" \in EventTypes
      BY DEF EventTypes
    <2>2. QueueKeeps
      BY <1>2, <2>1, SendKeeps DEF HostReports
    <2> QED BY <1>2, <2>2 DEF HostReports, KeepsDeletion, Turn
  <1>3. ASSUME NEW t \in NoteTypes, ControllerQueue(t) PROVE KeepsDeletion
    <2>1. t \in EventTypes
      BY DEF EventTypes
    <2>2. QueueKeeps
      BY <1>3, <2>1, QueueSame, SendKeeps DEF ControllerQueue
    <2> QED BY <1>3, <2>2 DEF ControllerQueue, KeepsDeletion, Turn
  <1>4. CASE Crash
    BY <1>4 DEF Crash, DeletionInv, Irregular
  <1> QED BY <1>1, <1>2, <1>3, <1>4, <1>k DEF EnvStep, Fault

\* A session marked DELETING has a validation of its deletion on the way, unless
\* a named irregularity took it: the invariant behind terminate_sessions and
\* the validation handler, for every number of requests and every threshold.
THEOREM DeletionCorrect == Spec => []DeletionIsPending
  <1>1. Init => DeletionInv
    BY DEF Init, DeletionInv, NoRow
  <1>2. DeletionInv /\ UNCHANGED vars => DeletionInv'
    BY DEF DeletionInv, PendingFrom, Snap, vars, db
  <1>3. TypeOK /\ TypeOK' /\ HostInv /\ DeletionInv /\ [Next]_vars => DeletionInv'
    BY <1>2, DeletionApi, DeletionQueue, DeletionHandle, DeletionEnv DEF Next, ThreadStep
  <1>4. DeletionInv => DeletionIsPending
    BY DEF DeletionInv, DeletionIsPending, PendingFrom, Pending, Irregular
  <1> QED BY TypeCorrect, HostInvariant, <1>1, <1>3, <1>4, PTL DEF Spec

\* What every event handler does: it handles a message, keeps or drops its copy of
\* the row, forgets no irregularity and leaves the request alone.
LEMMA HandleFrame ==
    ASSUME TypeOK, Handle
    PROVE  /\ thread'.snap \in {thread.snap, NoRow}
           /\ hist \subseteq hist'
           /\ api' = api
  <1> USE DEF env
  <1>1. ASSUME thread'.snap = NoRow \/ thread' = [thread EXCEPT !.pc = "terminate"]
        PROVE  thread'.snap \in {thread.snap, NoRow}
    BY <1>1 DEF TypeOK
  <1>2. CASE HandleIgnored \/ HandleScheduledStop \/ HandleScheduledResume
    BY <1>2, SnapIsCleared
    DEF HandleIgnored, HandleScheduledStop, HandleScheduledResume,
        ScheduledResumeStarts, ScheduledResumeFails
  <1>3. CASE HandleHostReady
    BY <1>3, SnapIsCleared
    DEF HandleHostReady, HostReadyLosesRow, HostReadyCreates, HostReadyRetries,
        HostReadyGivesUp
  <1>4. CASE HandleValidateCreation
    BY <1>4, SnapIsCleared
    DEF HandleValidateCreation, CreationOfDeleting, CreationReady, CreationGivesUp,
        CreationOfStopping, CreationRetries
  <1>5. CASE HandleValidateDeletion
    <2>1. CASE ContinueDeleteFails
      BY <2>1, SnapIsCleared DEF ContinueDeleteFails, Fails
    <2>2. CASE DeletionPending \/ ContinueDeleteSession \/ ContinueTerminate
      BY <1>1, <2>2, SnapIsCleared
      DEF DeletionPending, ContinueDeleteSession, ContinueTerminate, TerminateSucceeds,
          TerminateFails
    <2>3. CASE ContinueStopSession \/ ContinueStopRefused
      BY <2>3, SnapIsCleared DEF ContinueStopSession, ContinueStopRefused
    <2> QED BY <1>5, <2>1, <2>2, <2>3 DEF HandleValidateDeletion
  <1>6. CASE HandleEc2StateChange
    BY <1>6, SnapIsCleared
    DEF HandleEc2StateChange, HandleStopping, HandleStopped, HandleEc2Stopping,
        HandleRunning
  <1>7. CASE HandleRebootComplete
    BY <1>7, SnapIsCleared
    DEF HandleRebootComplete, RebootOfStable, RebootResumes, RebootRetries, RebootSaves
  <1>8. CASE HandleResumeProgress
    BY <1>8, SnapIsCleared
    DEF HandleResumeProgress, HandleResumeSuccess, HandleResumeFailed, HandleMissingRow
  <1>9. CASE HandleCpuReport
    BY <1>9, SnapIsCleared DEF HandleCpuReport, HandleCpuBusy, CpuStopRefused, CpuStops
  <1>10. CASE HandleTerminate
    BY <1>10, SnapIsCleared
    DEF HandleTerminate, TerminateDeletes, TerminateMarks, TerminateRefused,
        TerminateSucceeds, TerminateFails
  <1> QED
    BY <1>2, <1>3, <1>4, <1>5, <1>6, <1>7, <1>8, <1>9, <1>10, Zenon DEF Handle

\* Inductive: until the launch writes the row there is none, nor a copy of one.
LaunchInv ==
    /\ ec2 = "none" => api.pc = "idle"
    /\ ec2 = "none" \/ api.pc \in {"createServer", "createRow"}
       => Gone /\ Snap.st = "NONE"

\* A handler writes no row when there is none and it has read none, and takes no
\* instance back to where it was before its launch.
LEMMA HandleNeedsRow ==
    ASSUME TypeOK, Handle
    PROVE  /\ Gone /\ Snap.st = "NONE" => Gone'
           /\ ec2' = "none" => ec2 = "none"
  <1> USE DEF db, env, budget, Handling, Snap, Gone, NoRow, TypeOK, Rows
  <1>1. CASE HandleIgnored \/ HandleScheduledStop \/ HandleScheduledResume
    BY <1>1
    DEF HandleIgnored, HandleScheduledStop, HandleScheduledResume, ScheduledResumeGuard,
        ScheduledResumeStarts, ScheduledResumeFails, CanStartInstance, StartInstance
  <1>2. CASE HandleHostReady
    BY <1>2 DEF HandleHostReady, HostReadyGuard, HostReadyLosesRow, HostReadyCreates,
       HostReadyRetries, HostReadyGivesUp
  <1>3. CASE HandleValidateCreation
    BY <1>3 DEF HandleValidateCreation, ValidatingCreation, CreationOfDeleting,
       CreationReady, CreationGivesUp, CreationOfStopping, CreationRetries
  <1>4. CASE HandleValidateDeletion
    BY <1>4 DEF HandleValidateDeletion, DeletionPending, ContinueDeleteSession,
       ContinueDeleteFails, Fails, ContinueTerminate, ContinueStopSession,
         ContinueStopRefused, StopInstance,
       TerminateSucceeds, TerminateFails
  <1>5. CASE HandleEc2StateChange
    BY <1>5 DEF HandleEc2StateChange, HandleStopping, HandleStopped, HandleEc2Stopping,
       HandleRunning, Unexpected
  <1>6. CASE HandleRebootComplete
    BY <1>6 DEF HandleRebootComplete, RebootGuard, RebootOfStable, RebootResumes,
       RebootRetries, RebootSaves
  <1>7. CASE HandleResumeProgress
    BY <1>7 DEF HandleResumeProgress, HandleResumeSuccess, HandleResumeFailed,
       HandleMissingRow
  <1>8. CASE HandleCpuReport
    BY <1>8 DEF HandleCpuReport, HandleCpuBusy, CpuStopRefused, CpuStops, StopInstance
  <1>9. CASE HandleTerminate
    BY <1>9 DEF HandleTerminate, TerminateDeletes, TerminateMarks, TerminateRefused,
       TerminateSucceeds, TerminateFails
  <1> QED BY <1>1, <1>2, <1>3, <1>4, <1>5, <1>6, <1>7, <1>8, <1>9, Zenon DEF Handle

\* Receiving, reading and deleting messages change only the queue and the thread,
\* whose copy of the row is the old one, none or the row itself.
LEMMA QueueFrame ==
    ASSUME TypeOK, Receive \/ ReadRow \/ DeleteHandled
    PROVE  /\ thread'.snap \in {thread.snap, NoRow, session}
           /\ hist \subseteq hist'
           /\ UNCHANGED <<session, server, api, ec2, boot, ssm, notes>>
  <1> USE DEF db, env
  <1>1. CASE Receive
    <2>1. /\ UNCHANGED <<session, server, api, ec2, boot, ssm, notes>>
          /\ hist \subseteq hist'
          /\ \E n \in Nat : thread' \in {thread, [ThreadIdle EXCEPT !.pc = "read", !.n = n]}
      <3>1. PICK k \in 0 .. Len(queue) :
              /\ hist' = IF k = 0 THEN hist ELSE hist \cup {"dead_letter"}
              /\ thread' = IF k = Len(queue) THEN thread
                           ELSE [ThreadIdle EXCEPT !.pc = "read", !.n = Len(queue) - k]
        BY <1>1, Zenon DEF Receive
      <3>2. Len(queue) - k \in Nat
        BY DEF TypeOK
      <3>3. UNCHANGED <<session, server, api, ec2, boot, ssm, notes>>
        BY <1>1 DEF Receive
      <3> QED BY <3>1, <3>2, <3>3
    <2> QED BY <2>1 DEF ThreadIdle
  <1>2. CASE ReadRow
    BY <1>2 DEF ReadRow, TypeOK
  <1>3. CASE DeleteHandled
    BY <1>3 DEF DeleteHandled, ThreadIdle
  <1> QED BY <1>1, <1>2, <1>3

\* Every step keeps LaunchInv.
LEMMA LaunchStep == TypeOK /\ HostInv /\ LaunchInv /\ [Next]_vars => LaunchInv'
  <1> SUFFICES ASSUME TypeOK, HostInv, LaunchInv, [Next]_vars PROVE LaunchInv'
    OBVIOUS
  <1> USE DEF LaunchInv, Gone, Snap, NoRow, db, env, budget
  <1>1. CASE ApiStep
    <2> USE DEF ApiAt, ApiGoto, ApiEnds, ApiIdle, TypeOK
    <2>1. CASE ApiProvision \/ ApiCreateServerRow \/ ApiCreateSessionRow \/ ApiDeleteRow
      BY <2>1 DEF ApiProvision, ApiCreateServerRow, ApiCreateSessionRow, ApiDeleteRow, Fails
    <2>2. CASE ApiBrokerDelete \/ ApiPublish \/ ApiStopInstance \/ ApiStartInstance
               \/ ApiRebootInstance \/ ApiTerminateInstance
      BY <2>2
      DEF ApiBrokerDelete, ApiPublish, ApiStopInstance, StopInstance, ApiStartInstance,
          StartInstance, ApiRebootInstance, ApiTerminateInstance, TerminateSucceeds,
          TerminateFails
    <2>3. CASE ApiWriteRow
      BY <2>3 DEF ApiWriteRow, AfterWrite
    <2> QED BY <1>1, <2>1, <2>2, <2>3 DEF ApiStep
  <1>2. CASE Request
    <2>1. ASSUME NEW op \in AllRequests, ApiRead(op) PROVE LaunchInv'
      BY <2>1 DEF ApiRead, FirstStep
    <2>2. CASE ScheduleStops \/ ScheduleResumes \/ UserIsDisabled
      BY <2>2 DEF ScheduleStops, ScheduleResumes, UserIsDisabled, PublishScheduled
    <2> QED BY <1>2, <2>1, <2>2 DEF Request
  <1>3. CASE Receive \/ ReadRow \/ DeleteHandled
    BY <1>3, QueueFrame
  <1>4. CASE Handle
    <2>1. thread'.snap \in {thread.snap, NoRow} /\ api' = api
      BY <1>4, HandleFrame
    <2>2. (Gone /\ Snap.st = "NONE" => Gone') /\ (ec2' = "none" => ec2 = "none")
      BY <1>4, HandleNeedsRow
    <2> QED BY <2>1, <2>2
  <1>5. CASE EnvStep
    BY <1>5 DEF EnvStep, InstanceStarts, InstanceStops, HostReports, BrokerProgress,
       BrokerForgets, ResumeCommandEnds, CpuCommandEnds, ControllerQueue, DedupWindowEnds
  <1>6. CASE Fault
    <2>1. CASE HandlerRaises
      <3>1. thread'.snap = NoRow
        BY <2>1, SnapIsCleared DEF HandlerRaises
      <3> QED BY <2>1, <3>1 DEF HandlerRaises
    <2>2. CASE InstanceFails \/ Crash
      BY <2>2 DEF InstanceFails, StopInstance, Crash, ThreadIdle, ApiIdle
    <2> QED BY <1>6, <2>1, <2>2 DEF Fault
  <1>7. CASE UNCHANGED vars
    BY <1>7 DEF vars
  <1> QED BY <1>1, <1>2, <1>3, <1>4, <1>5, <1>6, <1>7 DEF Next, ThreadStep

\* LaunchInv is an invariant.
LEMMA LaunchInvariant == Spec => []LaunchInv
  <1>1. Init => LaunchInv
    BY DEF Init, LaunchInv, Gone, Snap, NoRow
  <1> QED BY TypeCorrect, HostInvariant, LaunchStep, <1>1, PTL DEF Spec

\* An instance in one of these states runs or is about to.
Up == {"pending", "running"}

\* Inductive, on top of LaunchInv: only a resume that has started the instance and
\* has not written the row yet leaves STOPPED on a running one.
StoppedInv ==
    /\ session.st = "STOPPED" /\ hist = {}
       => ec2 \notin Up \/ (api.op = "resume" /\ api.pc = "writeRow")
    /\ api.pc = "startInstance" => api.op = "resume"

\* A step that starts no instance and writes STOPPED only for one that is down, or
\* names its irregularity.
KeepsStopped ==
    /\ ec2' \in Up => ec2 \in Up
    /\ hist \subseteq hist'
    /\ session'.st = "STOPPED" /\ hist' = {} => session.st = "STOPPED" \/ ec2' \notin Up
    /\ api' = api

\* Such a step keeps the invariant.
LEMMA KeepsStoppedStep == StoppedInv /\ KeepsStopped => StoppedInv'
  BY DEF StoppedInv, KeepsStopped

\* A step of the API request being served keeps StoppedInv: the start of a resume
\* is followed by its write, and an update that overlaps another is flagged.
LEMMA StoppedApi == TypeOK /\ LaunchInv /\ StoppedInv /\ ApiStep => StoppedInv'
  <1> SUFFICES ASSUME TypeOK, LaunchInv, StoppedInv, ApiStep PROVE StoppedInv'
    OBVIOUS
  <1> USE DEF StoppedInv, ApiAt, ApiGoto, ApiEnds, ApiIdle, db, env, budget
  <1>1. CASE ApiProvision
    BY <1>1 DEF ApiProvision, LaunchInv, Gone
  <1>2. CASE ApiCreateServerRow \/ ApiCreateSessionRow
    BY <1>2 DEF ApiCreateServerRow, ApiCreateSessionRow, Fails, TypeOK
  <1>3. CASE ApiBrokerDelete \/ ApiPublish
    BY <1>3 DEF ApiBrokerDelete, ApiPublish, TypeOK
  <1>4. CASE ApiWriteRow
    <2>1. ec2' = ec2 /\ hist \subseteq hist' /\ api'.pc # "startInstance"
      BY <1>4 DEF ApiWriteRow, AfterWrite, TypeOK
    <2>2. ASSUME session'.st = "STOPPED", hist' = {} PROVE ec2' \notin Up
      <3>1. session = api.snap
        BY <1>4, <2>2 DEF ApiWriteRow, Overwrites
      <3>2. session'.st = Target(api.op, api.snap)
        BY <1>4 DEF ApiWriteRow, TypeOK, Rows
      <3>3. api.op # "resume" /\ session.st = "STOPPED"
        BY <2>2, <3>1, <3>2 DEF Target
      <3> QED BY <2>1, <2>2, <3>3
    <2> QED BY <2>1, <2>2
  <1>5. CASE ApiStopInstance
    BY <1>5 DEF ApiStopInstance, StopInstance, Ec2Error, TypeOK, Up
  <1>6. CASE ApiStartInstance
    BY <1>6 DEF ApiStartInstance, StartInstance, CanStartInstance, TypeOK, Up
  <1>7. CASE ApiRebootInstance
    BY <1>7 DEF ApiRebootInstance, Ec2Error, TypeOK
  <1>8. CASE ApiTerminateInstance
    BY <1>8 DEF ApiTerminateInstance, TerminateSucceeds, TerminateFails, TypeOK, Up
  <1>9. CASE ApiDeleteRow
    BY <1>9 DEF ApiDeleteRow, NoRow, TypeOK
  <1> QED BY <1>1, <1>2, <1>3, <1>4, <1>5, <1>6, <1>7, <1>8, <1>9 DEF ApiStep

\* A new request keeps StoppedInv: it only reads or publishes.
LEMMA StoppedRequest == TypeOK /\ StoppedInv /\ Request => StoppedInv'
  <1> SUFFICES ASSUME TypeOK, StoppedInv, Request PROVE StoppedInv'
    OBVIOUS
  <1>1. ASSUME NEW op \in AllRequests, ApiRead(op) PROVE StoppedInv'
    <2>1. /\ api.pc = "idle"
          /\ api'.op = op /\ api'.pc = FirstStep(op, session)
          /\ UNCHANGED <<session, ec2, hist>>
      BY <1>1 DEF ApiRead, ApiAt, db, env
    <2>2. FirstStep(op, session) = "startInstance" => op = "resume"
      BY DEF FirstStep
    <2> QED BY <2>1, <2>2 DEF StoppedInv
  <1>2. ASSUME ScheduleStops \/ ScheduleResumes \/ UserIsDisabled PROVE KeepsStopped
    BY <1>2 DEF ScheduleStops, ScheduleResumes, UserIsDisabled, PublishScheduled,
       KeepsStopped, db, env
  <1> QED BY <1>1, <1>2, KeepsStoppedStep DEF Request

\* Every event handler keeps StoppedInv: STOPPED is written by the EC2 event of an
\* instance that is down, or with the stop that takes it down, and the
\* scheduled resume writes RESUMING together with the start.
LEMMA StoppedHandle == TypeOK /\ StoppedInv /\ Handle => StoppedInv'
  <1> SUFFICES ASSUME TypeOK, StoppedInv, Handle PROVE StoppedInv'
    OBVIOUS
  <1> USE DEF db, env, budget, Handling, Snap
  <1>f. hist \subseteq hist' /\ api' = api
    BY HandleFrame
  <1>k. ASSUME UNCHANGED ec2, session'.st = "STOPPED" => session.st = "STOPPED"
        PROVE  KeepsStopped
    BY <1>f, <1>k DEF KeepsStopped
  <1>1. ASSUME HandleIgnored \/ HandleScheduledStop \/ ScheduledResumeFails
        PROVE  KeepsStopped
    BY <1>1, <1>k DEF HandleIgnored, HandleScheduledStop, ScheduledResumeFails
  <1>2. ASSUME ScheduledResumeStarts PROVE StoppedInv'
    <2>1. session'.st = "RESUMING"
      BY <1>2 DEF ScheduledResumeStarts, TypeOK, Rows
    <2> QED BY <1>f, <2>1 DEF StoppedInv
  <1>3. ASSUME HandleHostReady PROVE KeepsStopped
    BY <1>3, <1>k DEF HandleHostReady, HostReadyLosesRow, HostReadyCreates,
       HostReadyRetries, HostReadyGivesUp, TypeOK, Rows
  <1>4. ASSUME HandleValidateCreation PROVE KeepsStopped
    BY <1>4, <1>k DEF HandleValidateCreation, CreationOfDeleting, CreationReady,
       CreationGivesUp, CreationOfStopping, CreationRetries, TypeOK, Rows
  <1>5. ASSUME HandleValidateDeletion PROVE KeepsStopped
    <2>1. ASSUME DeletionPending \/ ContinueStopRefused \/ ContinueDeleteSession
                 \/ ContinueDeleteFails
          PROVE  KeepsStopped
      BY <2>1, <1>k DEF DeletionPending, ContinueStopRefused, ContinueDeleteSession,
         ContinueDeleteFails, Fails, NoRow
    <2>2. ASSUME ContinueTerminate PROVE KeepsStopped
      BY <2>2, <1>f DEF ContinueTerminate, TerminateSucceeds, TerminateFails,
         KeepsStopped, Up
    <2>3. ASSUME ContinueStopSession PROVE KeepsStopped
      BY <2>3, <1>f DEF ContinueStopSession, CanStopInstance, StopInstance, KeepsStopped, Up
    <2> QED BY <1>5, <2>1, <2>2, <2>3 DEF HandleValidateDeletion
  <1>6. ASSUME HandleEc2StateChange PROVE KeepsStopped
    <2>1. ASSUME HandleStopping PROVE KeepsStopped
      BY <2>1, <1>k DEF HandleStopping, HandleEc2Stopping, TypeOK, Rows
    <2>2. ASSUME HandleStopped PROVE KeepsStopped
      <3>1. ec2' = ec2 /\ (session' = session \/ hist' = hist \cup Overwrites(Snap) \cup Stale)
        BY <2>2 DEF HandleStopped, HandleEc2Stopping
      <3>2. hist' = {} => session' = session \/ ec2 \notin Up
        BY <3>1 DEF Stale, Up
      <3> QED BY <1>f, <3>1, <3>2 DEF KeepsStopped
    <2>3. ASSUME HandleRunning PROVE KeepsStopped
      BY <2>3, <1>k DEF HandleRunning
    <2> QED BY <1>6, <2>1, <2>2, <2>3 DEF HandleEc2StateChange
  <1>7. ASSUME HandleRebootComplete \/ HandleResumeProgress PROVE KeepsStopped
    BY <1>7, <1>k DEF HandleRebootComplete, RebootOfStable, RebootResumes, RebootRetries,
       RebootSaves, HandleResumeProgress, HandleResumeSuccess, HandleResumeFailed,
       HandleMissingRow, TypeOK, Rows
  <1>8. ASSUME HandleCpuReport PROVE KeepsStopped
    BY <1>8, <1>f DEF HandleCpuReport, HandleCpuBusy, CpuStopRefused, CpuStops,
       StopInstance, KeepsStopped, Up, TypeOK, Rows
  <1>9. ASSUME HandleTerminate PROVE KeepsStopped
    BY <1>9, <1>f DEF HandleTerminate, TerminateDeletes, TerminateMarks, TerminateRefused,
       TerminateSucceeds, TerminateFails, KeepsStopped, Up, NoRow, TypeOK, Rows
  <1> QED
    BY <1>1, <1>2, <1>3, <1>4, <1>5, <1>6, <1>7, <1>8, <1>9, KeepsStoppedStep
    DEF Handle, HandleScheduledResume

\* The environment and the faults keep StoppedInv: EC2 starts only what was asked
\* to start.
LEMMA StoppedEnv == TypeOK /\ StoppedInv /\ (EnvStep \/ Fault) => StoppedInv'
  <1> SUFFICES ASSUME TypeOK, StoppedInv, EnvStep \/ Fault PROVE StoppedInv'
    OBVIOUS
  <1> USE DEF db, env, budget, KeepsStopped, Up
  <1>1. ASSUME EnvStep PROVE KeepsStopped
    BY <1>1 DEF EnvStep, InstanceStarts, InstanceStops, HostReports, BrokerProgress,
       BrokerForgets, ResumeCommandEnds, CpuCommandEnds, ControllerQueue, DedupWindowEnds
  <1>2. ASSUME HandlerRaises \/ InstanceFails PROVE KeepsStopped
    BY <1>2 DEF HandlerRaises, InstanceFails, StopInstance
  <1>3. CASE Crash
    BY <1>3 DEF Crash, StoppedInv, ApiIdle
  <1> QED BY <1>1, <1>2, <1>3, KeepsStoppedStep DEF Fault

\* A STOPPED row means that the instance is not running, absent irregularities or
\* the start of a resume in flight: whatever order the EC2 events, the stop and
\* resume requests, the schedules and the updates come in.
THEOREM StoppedCorrect == Spec => []StoppedIsStopped
  <1>1. Init => StoppedInv
    BY DEF Init, StoppedInv, NoRow
  <1>2. TypeOK /\ StoppedInv /\ (Receive \/ ReadRow \/ DeleteHandled) => StoppedInv'
    <2>1. TypeOK /\ (Receive \/ ReadRow \/ DeleteHandled) => KeepsStopped
      BY QueueFrame DEF KeepsStopped
    <2> QED BY <2>1, KeepsStoppedStep
  <1>3. StoppedInv /\ UNCHANGED vars => StoppedInv'
    BY DEF StoppedInv, vars, db, env
  <1>4. TypeOK /\ LaunchInv /\ StoppedInv /\ [Next]_vars => StoppedInv'
    BY <1>2, <1>3, StoppedApi, StoppedRequest, StoppedHandle, StoppedEnv
    DEF Next, ThreadStep
  <1>5. StoppedInv => StoppedIsStopped
    BY DEF StoppedInv, StoppedIsStopped, Up
  <1> QED BY TypeCorrect, LaunchInvariant, <1>1, <1>4, <1>5, PTL DEF Spec

\* The requests that can bring a session back: those that start or reboot the
\* instance, and the forced stop, which asks nothing of the row.
Restarts == {"forceStop", "resume", "reboot", "scheduledResume"}
\* The events that only a start or a reboot brings about.
Resumption == {"RebootComplete", "ResumeSuccess", "ResumeFailed", "ScheduledResume"}
Free(q) == \A i \in 1 .. Len(q) : q[i].type \notin Resumption

\* Inductive without those requests: nothing is resumed, and a stop that goes on has
\* not read DELETING.
FinalInv ==
    /\ boot # "again"
    /\ "resume" \notin ssm
    /\ notes \cap Resumption = {}
    /\ Free(queue)
    /\ session.st # "RESUMING"
    /\ Snap.st # "RESUMING"
    /\ api.snap.st # "RESUMING"
    /\ api.op \notin Restarts
    /\ api.pc \notin {"startInstance", "rebootInstance"}
    /\ api.op = "stop" /\ api.pc \in {"brokerDelete", "writeRow"}
       => api.snap.st # "DELETING"

\* Publishing another event resumes nothing.
LEMMA SendFree ==
    ASSUME TypeOK, Free(queue), NEW t \in EventTypes \ Resumption,
           Send(t) \/ SendUntimed(t)
    PROVE  Free(queue')
  <1>1. queue' \in {queue, Append(queue, Message(t))}
    BY DEF Send, SendUntimed
  <1>2. Message(t) \in Messages /\ Message(t).type = t
    BY DEF Message, Messages
  <1>3. queue \in Seq(Messages) /\ Len(queue) \in Nat
    BY DEF TypeOK
  <1>4. ASSUME NEW i \in 1 .. Len(Append(queue, Message(t)))
        PROVE  Append(queue, Message(t))[i].type \notin Resumption
    BY <1>2, <1>3, AppendProperties DEF Free
  <1> QED BY <1>1, <1>4 DEF Free

\* The message at the head of the batch resumes nothing.
LEMMA HeadFree ==
    ASSUME TypeOK, Free(queue), thread.pc = "handle"
    PROVE  queue[thread.done + 1].type \notin Resumption
  <1>1. thread.done + 1 \in 1 .. Len(queue)
    BY DEF TypeOK, ThreadInBatch
  <1> QED BY <1>1 DEF Free

\* A message keeps its type when it is received again or messages before it go.
LEMMA QueueFree ==
    ASSUME TypeOK, Free(queue), Receive \/ ReadRow \/ DeleteHandled
    PROVE  Free(queue')
  <1>0. queue \in Seq(Messages) /\ Len(queue) \in Nat
        /\ thread.done \in Nat /\ thread.done <= Len(queue)
    BY DEF TypeOK, ThreadInBatch
  <1>1. CASE Receive
    <2>1. PICK k \in 0 .. Len(queue) :
            queue' = [i \in 1 .. Len(queue) - k |-> Received(queue[i + k])]
      BY <1>1, Zenon DEF Receive
    <2>2. Len(queue) - k \in Nat
      BY <1>0
    <2>3. \A i \in 1 .. Len(queue) - k : i + k \in 1 .. Len(queue)
      BY <1>0
    <2>4. \A i \in 1 .. Len(queue) - k : queue[i + k] \in Messages
      BY <1>0, <2>3
    <2>5. queue' \in [1 .. Len(queue) - k -> Messages]
      BY <2>1, <2>4, ReceivedTypes
    <2>6. Len(queue') = Len(queue) - k
      BY <2>2, <2>5, FunctionIsSeq
    <2>7. \A m \in Messages : Received(m).type = m.type
      BY DEF Received, Messages
    <2>8. \A i \in 1 .. Len(queue) - k : queue'[i].type = queue[i + k].type
      BY <2>1, <2>4, <2>7
    <2> QED BY <2>3, <2>6, <2>8 DEF Free
  <1>2. CASE ReadRow
    BY <1>2 DEF ReadRow
  <1>3. CASE DeleteHandled
    <2> DEFINE m == thread.done + 1
               l == Len(queue)
    <2>1. queue' = SubSeq(queue, m, l)
      BY <1>3 DEF DeleteHandled
    <2>2. m \in 1 .. l + 1 /\ l \in Nat
      BY <1>0
    <2>3. \A i \in m .. l : queue[i] \in Messages
      BY <1>0
    <2> HIDE DEF m, l
    <2>4. /\ Len(SubSeq(queue, m, l)) = IF m <= l THEN l - m + 1 ELSE 0
          /\ \A j \in 1 .. l - m + 1 : SubSeq(queue, m, l)[j] = queue[m + j - 1]
      BY <2>2, <2>3, SubSeqProperties
    <2>5. \A j \in 1 .. Len(queue') : j \in 1 .. l - m + 1 /\ m + j - 1 \in 1 .. l
      BY <2>1, <2>2, <2>4
    <2>6. \A i \in 1 .. l : queue[i].type \notin Resumption
      BY DEF Free, l
    <2> QED BY <2>1, <2>4, <2>5, <2>6 DEF Free
  <1> QED BY <1>1, <1>2, <1>3

\* What most steps do without a restart.
KeepsFinal ==
    /\ boot' \in {boot, "none"}
    /\ ssm' \subseteq ssm \cup {"cpu"}
    /\ notes' \cap Resumption \subseteq notes
    /\ Free(queue')
    /\ session'.st # "RESUMING"
    /\ thread'.snap \in {thread.snap, NoRow, session}
    /\ api' = api

\* Such a step keeps the invariant.
LEMMA KeepsFinalStep == FinalInv /\ KeepsFinal => FinalInv'
  BY DEF FinalInv, KeepsFinal, Snap, NoRow

\* A step of the API request being served starts and reboots nothing.
LEMMA FinalApi == TypeOK /\ FinalInv /\ ApiStep => FinalInv'
  <1> SUFFICES ASSUME TypeOK, FinalInv, ApiStep PROVE FinalInv'
    OBVIOUS
  <1> USE DEF FinalInv, ApiAt, ApiGoto, ApiEnds, ApiIdle, NoRow, Restarts, Snap,
              db, env, budget
  <1>1. CASE ApiProvision \/ ApiCreateServerRow \/ ApiCreateSessionRow \/ ApiDeleteRow
    <2>1. CASE ApiProvision
      BY <2>1 DEF ApiProvision
    <2>2. CASE ApiCreateServerRow
      BY <2>2 DEF ApiCreateServerRow, Fails, TypeOK
    <2>3. CASE ApiCreateSessionRow \/ ApiDeleteRow
      BY <2>3 DEF ApiCreateSessionRow, ApiDeleteRow, Fails
    <2> QED BY <1>1, <2>1, <2>2, <2>3
  <1>2. CASE ApiBrokerDelete
    BY <1>2 DEF ApiBrokerDelete, TypeOK
  <1>3. CASE ApiWriteRow
    <2>1. /\ UNCHANGED <<boot, ssm, notes, queue, thread>>
          /\ api'.snap \in {api.snap, NoRow} /\ api'.op \in {api.op, "none"}
          /\ api'.pc \in {"idle", AfterWrite(api.op, api.snap)}
      BY <1>3 DEF ApiWriteRow, TypeOK
    <2>2. AfterWrite(api.op, api.snap) \in {"idle", "publish", "stopInstance"}
      BY DEF AfterWrite
    <2>3. session'.st = Target(api.op, api.snap)
      BY <1>3 DEF ApiWriteRow, TypeOK, Rows
    <2>4. Target(api.op, api.snap) # "RESUMING"
      BY DEF Target
    <2> QED BY <2>1, <2>2, <2>3, <2>4
  <1>4. CASE ApiPublish
    <2>1. "ValidateDeletion" \in EventTypes \ Resumption
      BY DEF EventTypes, Resumption
    <2>2. Free(queue')
      BY <1>4, <2>1, SendFree DEF ApiPublish
    <2> QED BY <1>4, <2>2 DEF ApiPublish
  <1>5. CASE ApiStopInstance
    <2>1. notes' \subseteq notes \cup {"Ec2Stopping"}
      BY <1>5 DEF ApiStopInstance, StopInstance
    <2>2. notes' \cap Resumption = {}
      BY <2>1 DEF Resumption
    <2>3. UNCHANGED <<session, queue, thread, boot, ssm>> /\ api' = ApiIdle
      BY <1>5 DEF ApiStopInstance
    <2> QED BY <2>2, <2>3
  <1>6. CASE ApiStartInstance \/ ApiRebootInstance
    BY <1>6 DEF ApiStartInstance, ApiRebootInstance
  <1>7. CASE ApiTerminateInstance
    BY <1>7 DEF ApiTerminateInstance, TypeOK
  <1> QED BY <1>1, <1>2, <1>3, <1>4, <1>5, <1>6, <1>7 DEF ApiStep

\* No request that restarts is made; a stop is refused on a DELETING row.
LEMMA FinalRequest ==
    ASSUME Requests \cap Restarts = {}, TypeOK, FinalInv, Request
    PROVE  FinalInv'
  <1> USE DEF db, env, budget
  <1>1. ASSUME NEW op \in AllRequests, ApiRead(op) PROVE FinalInv'
    <2>1. /\ op \in Requests /\ Accepts(op, session)
          /\ api' = [pc |-> FirstStep(op, session), op |-> op, snap |-> session]
          /\ UNCHANGED <<session, queue, thread, boot, ssm, notes>>
      BY <1>1 DEF ApiRead
    <2>2. op \notin Restarts
      BY <2>1
    <2>3. FirstStep(op, session) \notin {"startInstance", "rebootInstance"}
      BY <2>2 DEF FirstStep, Restarts
    <2>4. op = "stop" => session.st # "DELETING"
      BY <2>1 DEF Accepts
    <2> QED BY <2>1, <2>2, <2>3, <2>4 DEF FinalInv, Snap
  <1>2. ASSUME ScheduleStops \/ UserIsDisabled PROVE KeepsFinal
    <2>1. "ScheduledStop" \in EventTypes \ Resumption /\ "Terminate" \in EventTypes \ Resumption
      BY DEF EventTypes, Resumption
    <2>2. Free(queue')
      BY <1>2, <2>1, SendFree DEF ScheduleStops, PublishScheduled, UserIsDisabled, FinalInv
    <2> QED BY <1>2, <2>2 DEF ScheduleStops, PublishScheduled, UserIsDisabled, KeepsFinal,
            FinalInv
  <1>3. ~ScheduleResumes
    BY DEF ScheduleResumes, PublishScheduled, Restarts
  <1> QED BY <1>1, <1>2, <1>3, KeepsFinalStep DEF Request

\* Every event handler keeps FinalInv: the ones that resume have no event to handle,
\* and Ec2Running publishes RebootComplete for a RESUMING row only.
LEMMA FinalHandle == TypeOK /\ FinalInv /\ Handle => FinalInv'
  <1> SUFFICES ASSUME TypeOK, FinalInv, Handle PROVE FinalInv'
    OBVIOUS
  <1> USE DEF db, env, budget, Handling, Snap
  <1>f. /\ thread'.snap \in {thread.snap, NoRow, session} /\ api' = api
        /\ session.st # "RESUMING" /\ thread.snap.st # "RESUMING" /\ Free(queue)
    BY HandleFrame DEF FinalInv
  <1>h. thread.pc = "handle" => queue[thread.done + 1].type \notin Resumption
    BY HeadFree DEF FinalInv
  <1>k. ASSUME session'.st # "RESUMING", Free(queue'), UNCHANGED <<boot, notes>>,
               ssm' \subseteq ssm \cup {"cpu"}
        PROVE  KeepsFinal
    BY <1>f, <1>k DEF KeepsFinal
  <1>e. /\ "ValidateCreation" \in EventTypes \ Resumption
        /\ "ValidateDeletion" \in EventTypes \ Resumption
    BY DEF EventTypes, Resumption
  <1>1. ASSUME HandleIgnored \/ HandleScheduledStop PROVE KeepsFinal
    BY <1>1, <1>f, <1>k DEF HandleIgnored, HandleScheduledStop
  <1>2. ASSUME HandleHostReady PROVE KeepsFinal
    <2>1. Free(queue')
      <3>1. queue' = queue \/ Send("ValidateCreation")
        BY <1>2 DEF HandleHostReady, HostReadyLosesRow, HostReadyCreates,
           HostReadyRetries, HostReadyGivesUp
      <3> QED BY <1>e, <1>f, <3>1, SendFree
    <2>2. session'.st # "RESUMING" /\ UNCHANGED <<boot, notes, ssm>>
      BY <1>2, <1>f DEF HandleHostReady, HostReadyLosesRow, HostReadyCreates,
         HostReadyRetries, HostReadyGivesUp, TypeOK, Rows
    <2> QED BY <1>k, <2>1, <2>2
  <1>3. ASSUME HandleValidateCreation PROVE KeepsFinal
    <2>1. session'.st # "RESUMING" /\ UNCHANGED <<boot, notes, ssm, queue>>
      BY <1>3, <1>f DEF HandleValidateCreation, CreationOfDeleting, CreationReady,
         CreationGivesUp, CreationOfStopping, CreationRetries, TypeOK, Rows
    <2> QED BY <1>f, <1>k, <2>1
  <1>4. ASSUME HandleValidateDeletion PROVE KeepsFinal
    <2>1. /\ session'.st # "RESUMING" /\ UNCHANGED <<boot, ssm, queue>>
          /\ notes' \subseteq notes \cup {"Ec2Stopping"}
      BY <1>4, <1>f DEF HandleValidateDeletion, DeletionPending, ContinueDeleteSession,
         ContinueDeleteFails, Fails, ContinueTerminate, ContinueStopSession,
         ContinueStopRefused, StopInstance,
         NoRow, TypeOK, Rows
    <2>2. notes' \cap Resumption \subseteq notes
      BY <2>1 DEF Resumption
    <2> QED BY <1>f, <2>1, <2>2 DEF KeepsFinal
  <1>5. ASSUME HandleEc2StateChange PROVE KeepsFinal
    <2>1. ASSUME HandleStopping \/ HandleStopped PROVE KeepsFinal
      <3>1. session'.st # "RESUMING" /\ UNCHANGED <<boot, notes, ssm, queue>>
        BY <2>1, <1>f DEF HandleStopping, HandleStopped, HandleEc2Stopping, TypeOK, Rows
      <3> QED BY <1>f, <1>k, <3>1
    <2>2. ASSUME HandleRunning PROVE KeepsFinal
      BY <2>2, <1>f, <1>k DEF HandleRunning
    <2> QED BY <1>5, <2>1, <2>2 DEF HandleEc2StateChange
  <1>6. ~HandleRebootComplete
    BY <1>h DEF HandleRebootComplete, RebootGuard, RebootOfStable, RebootResumes,
       RebootRetries, Resumption
  <1>7. ASSUME HandleResumeProgress PROVE KeepsFinal
    <2>1. HandleMissingRow
      BY <1>7, <1>h DEF HandleResumeProgress, HandleResumeSuccess, HandleResumeFailed,
         Resumption
    <2> QED BY <1>f, <1>k, <2>1 DEF HandleMissingRow
  <1>8. ASSUME HandleCpuReport PROVE KeepsFinal
    <2>1. /\ session'.st # "RESUMING" /\ UNCHANGED <<boot, ssm>>
          /\ notes' \subseteq notes \cup {"Ec2Stopping"}
          /\ queue' = queue \/ SendUntimed("ValidateDeletion")
      BY <1>8, <1>f DEF HandleCpuReport, HandleCpuBusy, CpuStopRefused, CpuStops,
         StopInstance, TypeOK, Rows
    <2>2. notes' \cap Resumption \subseteq notes
      BY <2>1 DEF Resumption
    <2>3. Free(queue')
      BY <1>e, <1>f, <2>1, SendFree
    <2> QED BY <1>f, <2>1, <2>2, <2>3 DEF KeepsFinal
  <1>9. ~HandleScheduledResume
    BY <1>h DEF HandleScheduledResume, ScheduledResumeStarts, ScheduledResumeFails,
       ScheduledResumeGuard, Resumption
  <1>10. ASSUME HandleTerminate PROVE KeepsFinal
    <2>1. /\ session'.st # "RESUMING" /\ UNCHANGED <<boot, ssm, notes>>
          /\ queue' = queue \/ SendUntimed("ValidateDeletion")
      BY <1>10, <1>f DEF HandleTerminate, TerminateDeletes, TerminateMarks,
         TerminateRefused, NoRow, TypeOK, Rows
    <2>2. Free(queue')
      BY <1>e, <1>f, <2>1, SendFree
    <2> QED BY <1>k, <2>1, <2>2
  <1> QED
    BY <1>1, <1>2, <1>3, <1>4, <1>5, <1>6, <1>7, <1>8, <1>9, <1>10, KeepsFinalStep
    DEF Handle

\* The environment and the faults keep FinalInv: there is no boot but the first, and
\* no resume command to end.
LEMMA FinalEnv == TypeOK /\ FinalInv /\ (EnvStep \/ Fault) => FinalInv'
  <1> SUFFICES ASSUME TypeOK, FinalInv, EnvStep \/ Fault PROVE FinalInv'
    OBVIOUS
  <1> USE DEF db, env, budget
  <1>f. /\ session.st # "RESUMING" /\ Free(queue) /\ boot # "again"
        /\ "resume" \notin ssm /\ notes \cap Resumption = {}
    BY DEF FinalInv
  <1>1. ASSUME BrokerProgress \/ BrokerForgets \/ \E t \in EventTypes : DedupWindowEnds(t)
        PROVE  KeepsFinal
    BY <1>1, <1>f DEF BrokerProgress, BrokerForgets, DedupWindowEnds, KeepsFinal
  <1>2. ASSUME InstanceStarts \/ InstanceStops \/ InstanceFails \/ CpuCommandEnds
        PROVE  KeepsFinal
    <2>1. /\ UNCHANGED <<session, queue, thread, api, boot>> /\ ssm' \subseteq ssm
          /\ notes' \subseteq notes \cup {"Ec2Running", "Ec2Stopped", "Ec2Stopping", "CpuReport"}
      BY <1>2 DEF InstanceStarts, InstanceStops, InstanceFails, StopInstance, CpuCommandEnds
    <2>2. notes' \cap Resumption \subseteq notes
      BY <2>1 DEF Resumption
    <2> QED BY <1>f, <2>1, <2>2 DEF KeepsFinal
  <1>3. ASSUME HostReports PROVE KeepsFinal
    <2>1. boot = "first" /\ Send("HostReady")
      BY <1>3, <1>f DEF HostReports, TypeOK
    <2>2. "HostReady" \in EventTypes \ Resumption
      BY DEF EventTypes, Resumption
    <2>3. Free(queue')
      BY <1>f, <2>1, <2>2, SendFree
    <2> QED BY <1>3, <1>f, <2>3 DEF HostReports, KeepsFinal
  <1>4. ~ResumeCommandEnds
    BY <1>f DEF ResumeCommandEnds
  <1>5. ASSUME NEW t \in NoteTypes, ControllerQueue(t) PROVE KeepsFinal
    <2>1. t \in EventTypes \ Resumption
      BY <1>5, <1>f DEF ControllerQueue, EventTypes
    <2>2. Free(queue')
      BY <1>5, <1>f, <2>1, SendFree DEF ControllerQueue
    <2> QED BY <1>5, <1>f, <2>2 DEF ControllerQueue, KeepsFinal
  <1>6. ASSUME HandlerRaises PROVE KeepsFinal
    <2>1. thread'.snap = NoRow
      BY <1>6, SnapIsCleared DEF HandlerRaises
    <2> QED BY <1>6, <1>f, <2>1 DEF HandlerRaises, KeepsFinal
  <1>7. CASE Crash
    BY <1>7 DEF Crash, FinalInv, ApiIdle, ThreadIdle, NoRow, Snap, Restarts
  <1> QED
    BY <1>1, <1>2, <1>3, <1>4, <1>5, <1>6, <1>7, KeepsFinalStep DEF EnvStep, Fault

\* A request leaves DELETING only for the end of the row, or is flagged.
LEMMA FinalApiStep ==
    ASSUME TypeOK, LaunchInv, FinalInv, ApiStep, session.st = "DELETING"
    PROVE  session'.st \in {"DELETING", "NONE"} \/ "lost_update" \in hist'
  <1> USE DEF ApiAt, db
  <1>1. CASE ApiWriteRow
    <2>1. CASE session # api.snap
      BY <1>1, <2>1 DEF ApiWriteRow, Overwrites
    <2>2. CASE session = api.snap
      <3>1. session'.st = Target(api.op, session)
        BY <1>1, <2>2 DEF ApiWriteRow, TypeOK, Rows
      <3>2. api.op \notin {"stop", "forceStop", "resume", "reboot"}
        BY <1>1, <2>2 DEF ApiWriteRow, FinalInv, Restarts
      <3> QED BY <3>1, <3>2 DEF Target
    <2> QED BY <2>1, <2>2
  <1>2. CASE ApiCreateSessionRow
    BY <1>2 DEF ApiCreateSessionRow, Fails, LaunchInv, Gone
  <1>3. CASE ApiDeleteRow
    BY <1>3 DEF ApiDeleteRow, NoRow
  <1> QED
    BY <1>1, <1>2, <1>3
    DEF ApiStep, ApiProvision, ApiCreateServerRow, ApiBrokerDelete, ApiPublish,
        ApiStopInstance, ApiStartInstance, ApiRebootInstance, ApiTerminateInstance

\* A handler leaves DELETING only for the end of the row, or writes back a copy that
\* is older, which is flagged.
LEMMA FinalHandleStep ==
    ASSUME TypeOK, FinalInv, Handle, session.st = "DELETING"
    PROVE  session'.st \in {"DELETING", "NONE"} \/ "lost_update" \in hist'
  <1> USE DEF db, Handling, Snap, Overwrites, NoRow
  <1>h. thread.pc = "handle" => queue[thread.done + 1].type \notin Resumption
    BY HeadFree DEF FinalInv
  <1>1. CASE HandleIgnored \/ HandleScheduledStop
    BY <1>1 DEF HandleIgnored, HandleScheduledStop
  <1>2. CASE HandleHostReady
    BY <1>2 DEF HandleHostReady, HostReadyGuard, HostReadyLosesRow, HostReadyCreates,
       HostReadyRetries, HostReadyGivesUp
  <1>3. CASE HandleValidateCreation
    BY <1>3 DEF HandleValidateCreation, ValidatingCreation, CreationOfDeleting,
       CreationReady, CreationGivesUp, CreationOfStopping, CreationRetries
  <1>4. CASE HandleValidateDeletion
    BY <1>4 DEF HandleValidateDeletion, DeletionPending, ContinueDeleteSession,
       ContinueDeleteFails, Fails, ContinueTerminate, ContinueStopSession,
         ContinueStopRefused
  <1>5. CASE HandleEc2StateChange
    BY <1>5 DEF HandleEc2StateChange, HandleStopping, HandleStopped, HandleEc2Stopping,
       HandleRunning, Unexpected
  <1>6. CASE HandleRebootComplete
    BY <1>6, <1>h DEF HandleRebootComplete, RebootGuard, RebootOfStable, RebootResumes,
       RebootRetries, Resumption
  <1>7. CASE HandleResumeProgress
    BY <1>7, <1>h DEF HandleResumeProgress, HandleResumeSuccess, HandleResumeFailed,
       HandleMissingRow, Resumption
  <1>8. CASE HandleCpuReport
    BY <1>8 DEF HandleCpuReport, HandleCpuBusy, CpuStopRefused, CpuStops, Accepts
  <1>9. CASE HandleScheduledResume
    BY <1>9, <1>h DEF HandleScheduledResume, ScheduledResumeStarts, ScheduledResumeFails,
       ScheduledResumeGuard, Resumption
  <1>10. CASE HandleTerminate
    BY <1>10 DEF HandleTerminate, TerminateDeletes, TerminateMarks, TerminateRefused,
       TypeOK, Rows
  <1> QED
    BY <1>1, <1>2, <1>3, <1>4, <1>5, <1>6, <1>7, <1>8, <1>9, <1>10 DEF Handle

\* A session marked DELETING stays so until its row is deleted, unless a writer that
\* read it before overwrites it, as long as nobody asks for a start, a reboot or a
\* forced stop: those requests do undo a termination, as the run terminate_undone
\* shows for a reboot, and no other request can.
THEOREM DeletingStays ==
    ASSUME Requests \cap Restarts = {}
    PROVE  Spec => DeletingIsFinal
  <1>1. Init => FinalInv
    BY DEF Init, FinalInv, Free, NoRow, Snap, Restarts
  <1>2. TypeOK /\ FinalInv /\ (Receive \/ ReadRow \/ DeleteHandled) => FinalInv'
    <2>1. ASSUME TypeOK, FinalInv, Receive \/ ReadRow \/ DeleteHandled PROVE KeepsFinal
      <3>1. Free(queue) /\ session.st # "RESUMING"
        BY <2>1 DEF FinalInv
      <3>2. Free(queue')
        BY <2>1, <3>1, QueueFree
      <3> QED BY <2>1, <3>1, <3>2, QueueFrame DEF KeepsFinal
    <2> QED BY <2>1, KeepsFinalStep
  <1>3. FinalInv /\ UNCHANGED vars => FinalInv'
    BY DEF FinalInv, Snap, vars, db, env
  <1>4. TypeOK /\ FinalInv /\ [Next]_vars => FinalInv'
    BY <1>2, <1>3, FinalApi, FinalRequest, FinalHandle, FinalEnv DEF Next, ThreadStep
  <1>5. ASSUME TypeOK, LaunchInv, FinalInv, [Next]_vars, session.st = "DELETING"
        PROVE  session'.st \in {"DELETING", "NONE"} \/ "lost_update" \in hist'
    <2>1. CASE UNCHANGED session
      BY <1>5, <2>1
    <2>2. CASE ApiStep
      BY <1>5, <2>2, FinalApiStep
    <2>3. CASE Handle
      BY <1>5, <2>3, FinalHandleStep
    <2>4. CASE Receive \/ ReadRow \/ DeleteHandled
      BY <1>5, <2>1, <2>4, QueueFrame
    <2>5. ASSUME Request PROVE UNCHANGED session
      BY <2>5 DEF Request, ApiRead, ScheduleStops, ScheduleResumes, UserIsDisabled,
         PublishScheduled, db
    <2>6. ASSUME EnvStep \/ Fault PROVE UNCHANGED session
      BY <2>6 DEF EnvStep, InstanceStarts, InstanceStops, HostReports, BrokerProgress,
         BrokerForgets, ResumeCommandEnds, CpuCommandEnds, ControllerQueue,
         DedupWindowEnds, Fault, HandlerRaises, InstanceFails, Crash, db
    <2>7. ASSUME UNCHANGED vars PROVE UNCHANGED session
      BY <2>7 DEF vars, db
    <2> QED BY <1>5, <2>1, <2>2, <2>3, <2>4, <2>5, <2>6, <2>7 DEF Next, ThreadStep
  <1>6. TypeOK /\ LaunchInv /\ FinalInv /\ [Next]_vars =>
          [session.st = "DELETING" => \/ session'.st \in {"DELETING", "NONE"}
                                      \/ "lost_update" \in hist']_vars
    BY <1>5
  <1> QED BY TypeCorrect, LaunchInvariant, <1>1, <1>4, <1>6, PTL DEF Spec, DeletingIsFinal
===============================================================================
