----------------------- MODULE ProjectMembershipProofs -----------------------
(***************************************************************************)
(* Theorems about the access to projects, for any number of users, groups,  *)
(* projects, workers, calls and faults.                                     *)
(***************************************************************************)
EXTENDS ProjectMembership, TLAPS

-----------------------------------------------------------------------------
(* Types.                                                                   *)

\* The parts of TypeOK, by who writes them.
TablesType ==
    /\ group \in [Groups -> {"on", "off", "gone"}]
    /\ removal \in [Groups -> {NoRemoval} \cup [call : 1..MaxCalls, users : SUBSET Users]]
    /\ member \subseteq Groups \X Users
    /\ project \in [Projects -> [enabled : BOOLEAN, groups : SUBSET Groups]]
ViewsType == linked \subseteq Groups \X Projects /\ access \subseteq Users \X Projects
DirectoryType == known \subseteq Groups /\ enrolled \subseteq Groups \X Users
QueueType ==
    /\ queue \in [Keys -> Seq(Tasks)]
    /\ \A k \in Keys : \A i \in 1..Len(queue[k]) : queue[k][i].msg.key = k
SentType ==
    /\ sent \in [Keys -> Nat] /\ \A k \in Keys : sent[k] <= Len(queue[k])
    /\ hidden \subseteq {k \in Keys : sent[k] > 0}
WorkType == work \in [Workers -> WorkStates]
HistoryType == lost \subseteq Causes
CountType == calls \in 0..MaxCalls /\ faults \in 0..MaxFaults

Messages == UserMessages \cup ProjectMessages

LEMMA TypeParts ==
    TypeOK <=> /\ TablesType /\ ViewsType /\ DirectoryType /\ QueueType /\ SentType
               /\ WorkType /\ HistoryType /\ CountType
  BY DEF TypeOK, TablesType, ViewsType, DirectoryType, QueueType, SentType, WorkType,
         HistoryType, CountType

LEMMA TypePartsNext ==
    ASSUME TablesType', ViewsType', DirectoryType', QueueType', SentType', WorkType',
           HistoryType', CountType'
    PROVE  TypeOK'
  BY DEF TypeOK, TablesType, ViewsType, DirectoryType, QueueType, SentType, WorkType,
         HistoryType, CountType

\* The first and the other elements of a sequence.
LEMMA HeadAndTail ==
    ASSUME NEW S, NEW s \in Seq(S), s # <<>>
    PROVE  /\ Len(s) \in Nat \ {0} /\ Head(s) = s[1] /\ Head(s) \in S
           /\ Tail(s) \in Seq(S) /\ Len(Tail(s)) = Len(s) - 1
           /\ \A i \in 1..Len(Tail(s)) : i + 1 \in 1..Len(s) /\ Tail(s)[i] = s[i + 1]
  OBVIOUS

LEMMA TailShift ==
    ASSUME NEW S, NEW s \in Seq(S), s # <<>>, NEW t, t = Tail(s)
    PROVE  /\ Len(s) \in Nat \ {0} /\ Len(t) \in Nat /\ Len(t) = Len(s) - 1
           /\ \A i \in 1..Len(t) : i + 1 \in 1..Len(s) /\ t[i] = s[i + 1]
           /\ \A i \in 1..Len(s) : i = 1 \/ (i - 1 \in 1..Len(t) /\ t[i - 1] = s[i])
  <1>1. /\ Len(s) \in Nat \ {0} /\ Len(t) = Len(s) - 1
        /\ \A i \in 1..Len(t) : i + 1 \in 1..Len(s) /\ t[i] = s[i + 1]
    BY HeadAndTail
  <1>2. ASSUME NEW i \in 1..Len(s), i # 1
        PROVE  i - 1 \in 1..Len(t) /\ t[i - 1] = s[i]
    <2>1. i - 1 \in 1..Len(t) /\ (i - 1) + 1 = i
      BY <1>1, <1>2
    <2> QED  BY <1>1, <2>1
  <1> QED  BY <1>1, <1>2

\* What a cause is summarised to.
LEMMA SummaryType ==
    ASSUME NEW S
    PROVE  Summary(S) \subseteq Causes /\ (Summary(S) \subseteq {"raced"} => S \subseteq {"raced"})
  BY DEF Summary, Causes

LEMMA NoteType ==
    ASSUME NEW S, Note(S)
    PROVE  HistoryType'
  BY SummaryType DEF Note, HistoryType

\* A worker that is not idle has a task, whose message group is its key.
LEMMA WorkerTask ==
    ASSUME WorkType, NEW w \in Workers, work[w] # Idle
    PROVE  /\ work[w].task \in Tasks
           /\ work[w].task.msg \in Messages
           /\ Key(w) \in Keys
           /\ work[w].pc # "idle"
  <1>1. work[w] \in WorkStates
    BY DEF WorkType
  <1>2. work[w].task \in Tasks /\ work[w].pc # "idle"
    BY <1>1 DEF WorkStates, Idle
  <1>3. work[w].task.msg \in Messages
    BY <1>2 DEF Tasks, Messages
  <1>4. Key(w) \in Keys
    BY <1>3 DEF Key, Keys, Messages, UserMessages, ProjectMessages
  <1> QED  BY <1>2, <1>3, <1>4

\* A task about a member is about a user and one group, another about a project.
LEMMA MemberMessage ==
    ASSUME WorkType, NEW w \in Workers, NEW pc, At(w, pc, {"add", "remove"}), pc # "idle"
    PROVE  /\ work[w] # Idle /\ Key(w) \in Users /\ GroupOf(w) \in Groups
           /\ work[w].task.msg.groups = {GroupOf(w)}
  <1>1. work[w] # Idle
    BY DEF At, Idle
  <1>2. work[w].task.msg \in UserMessages
    BY <1>1, WorkerTask DEF At, Messages, ProjectMessages
  <1>3. PICK g \in Groups : work[w].task.msg.groups = {g}
    BY <1>2 DEF UserMessages
  <1>4. GroupOf(w) = g
    BY <1>3 DEF GroupOf
  <1> QED  BY <1>1, <1>2, <1>3, <1>4 DEF Key, UserMessages

LEMMA MemberTaskMessage ==
    ASSUME WorkType, NEW w \in Workers, NEW pc, At(w, pc, {"add", "remove"}), pc # "idle"
    PROVE  work[w].task.msg = Message(work[w].task.msg.kind, Key(w), {GroupOf(w)})
  <1>1. work[w] # Idle /\ work[w].task.msg.groups = {GroupOf(w)}
    BY MemberMessage
  <1>2. work[w].task.msg \in UserMessages
    BY <1>1, WorkerTask DEF At, Messages, ProjectMessages
  <1>3. work[w].task.msg = [kind |-> work[w].task.msg.kind, key |-> work[w].task.msg.key,
                            groups |-> work[w].task.msg.groups]
    BY <1>2 DEF UserMessages
  <1> QED  BY <1>1, <1>3 DEF Message, Key

LEMMA ProjectMessage ==
    ASSUME WorkType, NEW w \in Workers, NEW pc, pc # "idle",
           At(w, pc, {"enable", "disable"}) \/ At(w, pc, {"groups"})
    PROVE  work[w] # Idle /\ Key(w) \in Projects
  <1>1. work[w] # Idle
    BY DEF At, Idle
  <1>2. work[w].task.msg \in ProjectMessages
    BY <1>1, WorkerTask DEF At, Messages, UserMessages
  <1> QED  BY <1>1, <1>2 DEF Key, ProjectMessages

\* A message group that is on SQS has a task.
LEMMA SentTasks ==
    ASSUME QueueType, SentType, NEW k \in Keys, sent[k] > 0
    PROVE  queue[k] \in Seq(Tasks) /\ queue[k] # <<>> /\ sent[k] \in Nat
  BY DEF QueueType, SentType

\* The messages that are on SQS stay, when the calls' tasks become more.
LEMMA SentKept ==
    ASSUME SentType, UNCHANGED <<sent, hidden>>, QueueType, QueueType',
           \A k \in Keys : Len(queue'[k]) >= Len(queue[k])
    PROVE  SentType'
  <1>1. \A k \in Keys : Len(queue[k]) \in Nat /\ Len(queue'[k]) \in Nat
    BY DEF QueueType
  <1> QED  BY <1>1 DEF SentType

\* A call adds a task at the end of a message group.
Grown(k) == queue'[k] = queue[k] \/ \E e \in Tasks : queue'[k] = Append(queue[k], e)

LEMMA Appended ==
    ASSUME NEW S, NEW s \in Seq(S), NEW e \in S
    PROVE  /\ Len(s) \in Nat /\ Len(Append(s, e)) = Len(s) + 1
           /\ Append(s, e) # <<>> /\ Append(s, e)[Len(s) + 1] = e
           /\ \A i \in 1..Len(s) : Append(s, e)[i] = s[i]
           /\ s # <<>> => Len(s) # 0 /\ Head(Append(s, e)) = Head(s)
  OBVIOUS

LEMMA AppendType ==
    ASSUME NEW S, NEW s \in Seq(S), NEW e \in S
    PROVE  Append(s, e) \in Seq(S)
  OBVIOUS

LEMMA QueuedEffect ==
    ASSUME QueueType, NEW call \in 1..MaxCalls, NEW m \in Messages,
           queue' = Queued(call, m)
    PROVE  /\ queue' \in [Keys -> Seq(Tasks)]
           /\ \A k \in Keys :
                 \/ queue'[k] = queue[k] /\ m.key # k
                 \/ \E e \in Tasks : m.key = k /\ e.msg = m /\ queue'[k] = Append(queue[k], e)
           /\ \A k \in Keys : Grown(k)
  <1> DEFINE e == [id |-> call, tries |-> 0, msg |-> m]
  <1>1. e \in Tasks /\ e.msg = m
    <2>1. 0 \in 0..MaxReceive
      BY ConstantsAssumption
    <2> QED  BY <2>1 DEF Tasks, Messages
  <1>2. queue' = [queue EXCEPT ![m.key] = Append(@, e)]
    BY DEF Queued
  <1> HIDE DEF e
  <1>3. \A k \in Keys : queue[k] \in Seq(Tasks) /\ DOMAIN queue = Keys
    BY DEF QueueType
  <1>4. \A k \in Keys : queue'[k] = IF k = m.key THEN Append(queue[k], e) ELSE queue[k]
    BY <1>2, <1>3
  <1>5. ASSUME NEW k \in Keys
        PROVE  queue'[k] \in Seq(Tasks)
    <2>1. queue[k] \in Seq(Tasks)
      BY <1>3
    <2>2. Append(queue[k], e) \in Seq(Tasks)
      BY <1>1, <2>1, AppendType
    <2> QED  BY <1>4, <2>1, <2>2
  <1>6. queue' \in [Keys -> Seq(Tasks)]
    <2>1. queue' = [k \in Keys |-> queue'[k]]
      BY <1>2 DEF QueueType
    <2> QED  BY <1>5, <2>1
  <1> QED  BY <1>1, <1>4, <1>6 DEF Grown

LEMMA QueuedType ==
    ASSUME QueueType, NEW call \in 1..MaxCalls, NEW m \in Messages,
           queue' = Queued(call, m)
    PROVE  QueueType' /\ \A k \in Keys : Len(queue'[k]) >= Len(queue[k])
  <1>1. queue' \in [Keys -> Seq(Tasks)]
    BY QueuedEffect
  <1>2. ASSUME NEW k \in Keys
        PROVE  /\ \A i \in 1..Len(queue'[k]) : queue'[k][i].msg.key = k
               /\ Len(queue'[k]) >= Len(queue[k])
    <2>q. queue[k] \in Seq(Tasks)
      BY DEF QueueType
    <2>1. CASE queue'[k] = queue[k]
      BY <2>q, <2>1 DEF QueueType
    <2>2. ASSUME NEW e \in Tasks, m.key = k, e.msg = m, queue'[k] = Append(queue[k], e)
          PROVE  /\ \A i \in 1..Len(queue'[k]) : queue'[k][i].msg.key = k
                 /\ Len(queue'[k]) >= Len(queue[k])
      BY <2>q, <2>2, Appended DEF QueueType
    <2> QED  BY <2>1, <2>2, QueuedEffect
  <1> QED  BY <1>1, <1>2 DEF QueueType

-----------------------------------------------------------------------------
(* Type correctness: one step for each action.                              *)

LEMMA InitTypes == Init => TypeOK
  <1> SUFFICES ASSUME Init PROVE TypeOK
    OBVIOUS
  <1> USE DEF Init
  <1>1. TablesType
    BY DEF TablesType
  <1>2. ViewsType
    BY DEF ViewsType
  <1>3. QueueType /\ SentType /\ DirectoryType
    BY DEF QueueType, SentType, DirectoryType
  <1>4. WorkType
    BY DEF WorkType, WorkStates
  <1>5. HistoryType /\ CountType
    BY ConstantsAssumption DEF HistoryType, CountType
  <1> QED  BY <1>1, <1>2, <1>3, <1>4, <1>5, TypeParts

LEMMA ApiMessages ==
    /\ \A u \in Users, g \in Groups, kind \in {"add", "remove"} :
          Message(kind, u, {g}) \in Messages
    /\ \A p \in Projects, gs \in SUBSET Groups, kind \in {"enable", "disable", "groups"} :
          Message(kind, p, gs) \in Messages
  BY DEF Message, Messages, UserMessages, ProjectMessages

\* What every call leaves alone, and how it counts.
LEMMA CallTypes ==
    ASSUME TypeOK, Call
    PROVE  /\ ViewsType' /\ DirectoryType' /\ WorkType' /\ CountType'
           /\ UNCHANGED <<sent, hidden>> /\ calls + 1 \in 1..MaxCalls
  BY ConstantsAssumption, TypeParts
     DEF Call, views, directory, ViewsType, DirectoryType, WorkType, CountType

\* A call that is going to send a message, and one that is not.
LEMMA WillSendTypes ==
    ASSUME TypeOK, NEW call \in 1..MaxCalls, NEW m \in Messages, WillSend(call, m),
           UNCHANGED <<sent, hidden>>
    PROVE  QueueType' /\ SentType' /\ HistoryType'
  <1>1. QueueType' /\ \A k \in Keys : Len(queue'[k]) >= Len(queue[k])
    BY QueuedType, TypeParts DEF WillSend
  <1>2. SentType'
    BY <1>1, SentKept, TypeParts
  <1>3. HistoryType'
    BY NoteType DEF WillSend
  <1> QED  BY <1>1, <1>2, <1>3

LEMMA SameQueueTypes ==
    ASSUME TypeOK, UNCHANGED <<queue, sent, hidden>>
    PROVE  QueueType' /\ SentType'
  BY TypeParts DEF QueueType, SentType

\* What the call that deletes a group is, and what it leaves alone.
LEMMA DeletingTypes ==
    ASSUME TypeOK, NEW g \in Groups, Deleting(g)
    PROVE  /\ removal[g] \in [call : 1..MaxCalls, users : SUBSET Users]
           /\ ViewsType' /\ DirectoryType' /\ WorkType' /\ CountType'
           /\ UNCHANGED <<project, sent, hidden>>
  <1>1. removal[g] \in [call : 1..MaxCalls, users : SUBSET Users]
    BY TypeParts DEF Deleting, TablesType
  <1> QED  BY <1>1, TypeParts
       DEF Deleting, views, directory, ViewsType, DirectoryType, WorkType, CountType

LEMMA ApiTypes == TypeOK /\ Api => TypeOK'
  <1> SUFFICES ASSUME TypeOK, Api PROVE TypeOK'
    OBVIOUS
  <1>t. TablesType /\ HistoryType
    BY TypeParts
  <1>1. ASSUME NEW u \in Users, NEW g \in Groups, AddUser(u, g)
        PROVE  TypeOK'
    <2>1. TablesType'
      BY <1>1, <1>t DEF AddUser, TablesType
    <2>2. /\ ViewsType' /\ DirectoryType' /\ WorkType' /\ CountType'
          /\ UNCHANGED <<sent, hidden>> /\ calls + 1 \in 1..MaxCalls
      BY <1>1, CallTypes DEF AddUser
    <2>3. QueueType' /\ SentType' /\ HistoryType'
      BY <1>1, <2>2, ApiMessages, WillSendTypes DEF AddUser
    <2> QED  BY <2>1, <2>2, <2>3, TypePartsNext
  <1>2. ASSUME NEW u \in Users, NEW g \in Groups, RemoveUser(u, g)
        PROVE  TypeOK'
    <2>1. TablesType'
      BY <1>2, <1>t DEF RemoveUser, TablesType
    <2>2. /\ ViewsType' /\ DirectoryType' /\ WorkType' /\ CountType'
          /\ UNCHANGED <<sent, hidden>> /\ calls + 1 \in 1..MaxCalls
      BY <1>2, CallTypes DEF RemoveUser
    <2>3. QueueType' /\ SentType' /\ HistoryType'
      BY <1>2, <2>2, ApiMessages, WillSendTypes DEF RemoveUser
    <2> QED  BY <2>1, <2>2, <2>3, TypePartsNext
  <1>3. ASSUME NEW g \in Groups, NEW on \in {"on", "off"}, SetGroup(g, on)
        PROVE  TypeOK'
    <2>1. TablesType' /\ HistoryType'
      BY <1>3, <1>t DEF SetGroup, TablesType, HistoryType
    <2>2. /\ ViewsType' /\ DirectoryType' /\ WorkType' /\ CountType'
          /\ UNCHANGED <<sent, hidden>>
      BY <1>3, CallTypes DEF SetGroup
    <2>3. QueueType' /\ SentType'
      BY <1>3, <2>2, SameQueueTypes DEF SetGroup
    <2> QED  BY <2>1, <2>2, <2>3, TypePartsNext
  <1>4. ASSUME NEW g \in Groups, DeleteGroup(g)
        PROVE  TypeOK'
    <2>1. /\ ViewsType' /\ DirectoryType' /\ WorkType' /\ CountType'
          /\ UNCHANGED <<sent, hidden>> /\ calls + 1 \in 1..MaxCalls
      BY <1>4, CallTypes DEF DeleteGroup
    <2>2. TablesType' /\ HistoryType'
      <3>1. MembersOf(g) \subseteq Users
        BY DEF MembersOf
      <3> QED  BY <1>4, <1>t, <2>1, <3>1 DEF DeleteGroup, TablesType, HistoryType
    <2>3. QueueType' /\ SentType'
      BY <1>4, <2>1, SameQueueTypes DEF DeleteGroup
    <2> QED  BY <2>1, <2>2, <2>3, TypePartsNext
  <1>5. ASSUME NEW u \in Users, NEW g \in Groups, DeletionRemoves(g, u)
        PROVE  TypeOK'
    <2>1. /\ removal[g] \in [call : 1..MaxCalls, users : SUBSET Users]
          /\ ViewsType' /\ DirectoryType' /\ WorkType' /\ CountType'
          /\ UNCHANGED <<project, sent, hidden>>
      BY <1>5, DeletingTypes DEF DeletionRemoves
    <2>2. TablesType'
      BY <1>5, <1>t, <2>1 DEF DeletionRemoves, TablesType
    <2>3. QueueType' /\ SentType' /\ HistoryType'
      BY <1>5, <2>1, ApiMessages, WillSendTypes DEF DeletionRemoves
    <2> QED  BY <2>1, <2>2, <2>3, TypePartsNext
  <1>6. ASSUME NEW g \in Groups, DeletionEnds(g)
        PROVE  TypeOK'
    <2>1. /\ ViewsType' /\ DirectoryType' /\ WorkType' /\ CountType'
          /\ UNCHANGED <<project, sent, hidden>>
      BY <1>6, DeletingTypes DEF DeletionEnds
    <2>2. TablesType' /\ HistoryType'
      BY <1>6, <1>t, <2>1 DEF DeletionEnds, TablesType, HistoryType
    <2>3. QueueType' /\ SentType'
      BY <1>6, <2>1, SameQueueTypes DEF DeletionEnds
    <2> QED  BY <2>1, <2>2, <2>3, TypePartsNext
  <1>7. ASSUME NEW p \in Projects, NEW gs \in SUBSET Groups, UpdateProject(p, gs)
        PROVE  TypeOK'
    <2>1. TablesType'
      BY <1>7, <1>t DEF UpdateProject, TablesType
    <2>2. /\ ViewsType' /\ DirectoryType' /\ WorkType' /\ CountType'
          /\ UNCHANGED <<sent, hidden>> /\ calls + 1 \in 1..MaxCalls
      BY <1>7, CallTypes DEF UpdateProject
    <2>3. QueueType' /\ SentType'
      <3>1. CASE queue' = queue
        BY <2>2, <3>1, SameQueueTypes
      <3>2. CASE queue' = Queued(calls + 1, Message("groups", p, gs))
        <4>1. QueueType' /\ \A k \in Keys : Len(queue'[k]) >= Len(queue[k])
          BY <2>2, <3>2, ApiMessages, QueuedType, TypeParts
        <4> QED  BY <2>2, <4>1, SentKept, TypeParts
      <3> QED  BY <1>7, <3>1, <3>2 DEF UpdateProject
    <2>4. HistoryType'
      BY <1>7, NoteType DEF UpdateProject
    <2> QED  BY <2>1, <2>2, <2>3, <2>4, TypePartsNext
  <1>8. ASSUME NEW p \in Projects, NEW enabled \in BOOLEAN, SetProject(p, enabled)
        PROVE  TypeOK'
    <2>1. TablesType'
      BY <1>8, <1>t DEF SetProject, TablesType
    <2>2. /\ ViewsType' /\ DirectoryType' /\ WorkType' /\ CountType'
          /\ UNCHANGED <<sent, hidden>> /\ calls + 1 \in 1..MaxCalls
      BY <1>8, CallTypes DEF SetProject
    <2>3. \E m \in Messages : WillSend(calls + 1, m)
      BY <1>8, ApiMessages DEF SetProject
    <2>4. QueueType' /\ SentType' /\ HistoryType'
      BY <2>2, <2>3, WillSendTypes
    <2> QED  BY <2>1, <2>2, <2>4, TypePartsNext
  <1> QED  BY <1>1, <1>2, <1>3, <1>4, <1>5, <1>6, <1>7, <1>8 DEF Api

\* A sequence of tasks without one of them, and with one of them moved.
LEMMA WithoutType ==
    ASSUME NEW s \in Seq(Tasks), NEW i \in 1..Len(s)
    PROVE  /\ Without(s, i) \in Seq(Tasks) /\ Len(Without(s, i)) = Len(s) - 1
           /\ \A n \in 1..Len(Without(s, i)) : \E l \in 1..Len(s) : Without(s, i)[n] = s[l]
  <1>1. PICK z \in Nat : z = Len(s) - 1
    OBVIOUS
  <1>2. \A n \in 1..z : n \in 1..Len(s) /\ n + 1 \in 1..Len(s)
    BY <1>1
  <1>3. Without(s, i) = [n \in 1..z |-> IF n < i THEN s[n] ELSE s[n + 1]]
    BY <1>1 DEF Without
  <1>4. \A n \in 1..Len(s) : s[n] \in Tasks
    OBVIOUS
  <1>5. Without(s, i) \in [1..z -> Tasks]
    BY <1>2, <1>3, <1>4
  <1>6. Without(s, i) \in Seq(Tasks) /\ Len(Without(s, i)) = z
    BY <1>5
  <1> QED  BY <1>1, <1>2, <1>3, <1>6

LEMMA MovedType ==
    ASSUME NEW s \in Seq(Tasks), NEW i \in 1..Len(s), NEW j \in 1..i
    PROVE  /\ Moved(s, i, j) \in Seq(Tasks) /\ Len(Moved(s, i, j)) = Len(s)
           /\ \A n \in 1..Len(s) : \E l \in 1..Len(s) : Moved(s, i, j)[n] = s[l]
  <1>1. PICK z \in Nat : z = Len(s)
    OBVIOUS
  <1>2. \A n \in 1..z : ~(n < j \/ n > i) /\ n # j => n - 1 \in 1..z
    BY <1>1
  <1>3. Moved(s, i, j) = [n \in 1..z |-> IF n < j \/ n > i THEN s[n]
                                       ELSE IF n = j THEN s[i] ELSE s[n - 1]]
    BY <1>1 DEF Moved
  <1>4. \A n \in 1..z : s[n] \in Tasks
    BY <1>1
  <1>5. \A n \in 1..z : \E l \in 1..z : Moved(s, i, j)[n] = s[l]
    BY <1>1, <1>2, <1>3
  <1>6. Moved(s, i, j) \in [1..z -> Tasks]
    BY <1>3, <1>4, <1>5
  <1>7. Moved(s, i, j) \in Seq(Tasks) /\ Len(Moved(s, i, j)) = z
    BY <1>6
  <1> QED  BY <1>1, <1>5, <1>7

\* One message group has other tasks, which were its own.
LEMMA OwnTasksType ==
    ASSUME QueueType, NEW k \in Keys, NEW s \in Seq(Tasks), queue' = [queue EXCEPT ![k] = s],
           \A n \in 1..Len(s) : \E l \in 1..Len(queue[k]) : s[n] = queue[k][l]
    PROVE  QueueType'
  <1>1. \A j \in Keys : queue'[j] = IF j = k THEN s ELSE queue[j]
    BY DEF QueueType
  <1>2. queue' \in [Keys -> Seq(Tasks)]
    BY DEF QueueType
  <1>3. \A n \in 1..Len(s) : s[n].msg.key = k
    BY DEF QueueType
  <1> QED  BY <1>1, <1>2, <1>3 DEF QueueType

\* A task that a call has still to send.
LEMMA UnsentTask ==
    ASSUME QueueType, SentType, NEW k \in Keys, NEW i \in Unsent(k)
    PROVE  /\ queue[k] \in Seq(Tasks) /\ i \in 1..Len(queue[k])
           /\ sent[k] \in Nat /\ sent[k] + 1 \in 1..i
           /\ queue[k][i].id \in 1..MaxCalls
  <1>1. queue[k] \in Seq(Tasks) /\ sent[k] \in Nat /\ Len(queue[k]) \in Nat
    BY DEF QueueType, SentType
  <1>2. i \in 1..Len(queue[k]) /\ sent[k] + 1 \in 1..i
    BY <1>1 DEF Unsent
  <1>3. queue[k][i] \in Tasks
    BY <1>1, <1>2
  <1> QED  BY <1>1, <1>2, <1>3 DEF Tasks

LEMMA SendTypes ==
    ASSUME TypeOK, NEW k \in Keys, NEW i \in Unsent(k),
           Send(k, i) \/ SendIsDropped(k, i) \/ SendFails(k, i)
    PROVE  TypeOK'
  <1>t. TablesType /\ QueueType /\ SentType /\ HistoryType
    BY TypeParts
  <1>u. /\ queue[k] \in Seq(Tasks) /\ i \in 1..Len(queue[k])
        /\ sent[k] \in Nat /\ sent[k] + 1 \in 1..i
    BY <1>t, UnsentTask
  <1>s. ViewsType' /\ DirectoryType' /\ WorkType' /\ hidden' = hidden /\ calls' = calls
    BY TypeParts DEF Send, SendIsDropped, SendFails, Sending, views, directory,
                     ViewsType, DirectoryType, WorkType
  <1>1. CASE Send(k, i)
    <2>1. TablesType' /\ CountType'
      BY <1>1, TypeParts DEF Send, Sending, TablesType, CountType
    <2>2. HistoryType'
      BY <1>1, <1>t, NoteType DEF Send, HistoryType
    <2>3. QueueType' /\ Len(queue'[k]) = Len(queue[k])
                     /\ \A j \in Keys \ {k} : queue'[j] = queue[j]
      <3>1. CASE queue' = queue
        BY <1>t, <3>1 DEF QueueType
      <3>2. ASSUME NEW s, NEW at, at = sent[k] + 1, s = Moved(queue[k], i, at),
                   queue' = [queue EXCEPT ![k] = s]
            PROVE  QueueType' /\ Len(queue'[k]) = Len(queue[k])
                              /\ \A j \in Keys \ {k} : queue'[j] = queue[j]
        <4>1. /\ s \in Seq(Tasks) /\ Len(s) = Len(queue[k])
              /\ \A n \in 1..Len(s) : \E l \in 1..Len(queue[k]) : s[n] = queue[k][l]
          <5>1. at \in 1..i /\ \A t \in Seq(Tasks) : t = queue[k] => i \in 1..Len(t)
            BY <1>u, <3>2
          <5>2. PICK t \in Seq(Tasks) : t = queue[k]
            BY <1>u
          <5>3. /\ Moved(t, i, at) \in Seq(Tasks) /\ Len(Moved(t, i, at)) = Len(t)
                /\ \A n \in 1..Len(t) : \E l \in 1..Len(t) : Moved(t, i, at)[n] = t[l]
            BY <5>1, <5>2, MovedType
          <5> QED  BY <3>2, <5>2, <5>3
        <4>2. QueueType'
          BY <1>t, <3>2, <4>1, OwnTasksType
        <4> QED  BY <1>t, <3>2, <4>1, <4>2 DEF QueueType
      <3> QED  BY <1>1, <3>1, <3>2 DEF Send
    <2>4. SentType'
      <3>1. \A j \in Keys : sent'[j] = IF j = k THEN sent[j] + 1 ELSE sent[j]
        BY <1>1, <1>t DEF Send, SentType
      <3>2. sent[k] + 1 <= Len(queue[k]) /\ Len(queue[k]) \in Nat
        BY <1>u
      <3>3. sent' \in [Keys -> Nat]
        BY <1>1, <1>t DEF Send, SentType
      <3> QED  BY <1>s, <1>t, <2>3, <3>1, <3>2, <3>3 DEF SentType
    <2> QED  BY <1>s, <2>1, <2>2, <2>3, <2>4, TypePartsNext
  <1>2. ASSUME queue' = [queue EXCEPT ![k] = Without(@, i)], sent' = sent
        PROVE  QueueType' /\ SentType'
    <2>1. PICK s : s = Without(queue[k], i)
      OBVIOUS
    <2>2. /\ s \in Seq(Tasks) /\ Len(s) = Len(queue[k]) - 1
          /\ \A n \in 1..Len(s) : \E l \in 1..Len(queue[k]) : s[n] = queue[k][l]
      BY <1>u, <2>1, WithoutType
    <2>3. queue' = [queue EXCEPT ![k] = s]
      BY <1>2, <2>1
    <2>4. QueueType'
      BY <1>t, <2>2, <2>3, OwnTasksType
    <2>5. \A j \in Keys : queue'[j] = IF j = k THEN s ELSE queue[j]
      BY <1>t, <2>3 DEF QueueType
    <2>6. sent[k] <= Len(s)
      BY <1>u, <2>2
    <2> QED  BY <1>2, <1>s, <1>t, <2>4, <2>5, <2>6 DEF SentType
  <1>3. CASE SendIsDropped(k, i)
    <2>1. TablesType' /\ CountType'
      BY <1>3, TypeParts DEF SendIsDropped, Sending, TablesType, CountType
    <2>2. HistoryType'
      BY <1>3, NoteType DEF SendIsDropped
    <2>3. QueueType' /\ SentType'
      BY <1>2, <1>3 DEF SendIsDropped
    <2> QED  BY <1>s, <2>1, <2>2, <2>3, TypePartsNext
  <1>4. CASE SendFails(k, i)
    <2>1. TablesType'
      <3>1. removal' \in [Groups -> {NoRemoval} \cup [call : 1..MaxCalls, users : SUBSET Users]]
        BY <1>4, <1>t DEF SendFails, TablesType
      <3> QED  BY <1>4, <1>t, <3>1 DEF SendFails, Sending, TablesType
    <2>2. HistoryType'
      BY <1>4, NoteType DEF SendFails
    <2>3. QueueType' /\ SentType'
      BY <1>2, <1>4 DEF SendFails
    <2>4. CountType'
      BY <1>4, TypeParts, ConstantsAssumption DEF SendFails, Sending, Fault, CountType
    <2> QED  BY <1>s, <2>1, <2>2, <2>3, <2>4, TypePartsNext
  <1> QED  BY <1>1, <1>3, <1>4

\* A worker that takes a step leaves the tables and the queue alone.
LEMMA StepTypes ==
    ASSUME TypeOK, NEW w \in Workers, NEW next \in WorkStates, Step(w, next),
           ViewsType', DirectoryType', HistoryType'
    PROVE  TypeOK'
  <1>1. WorkType'
    BY TypeParts DEF Step, WorkType
  <1>2. TablesType' /\ QueueType' /\ SentType' /\ CountType'
    BY TypeParts, SameQueueTypes DEF Step, tables, TablesType, CountType
  <1> QED  BY <1>1, <1>2, TypePartsNext

\* A worker that stops gives its message group free, if it holds it.
LEMMA AgainTypes ==
    ASSUME NEW w \in Workers, Again(w)
    PROVE  hidden' \subseteq hidden /\ (Holds(w) => Key(w) \notin hidden')
  BY DEF Again

LEMMA IdleTypes ==
    ASSUME TypeOK, NEW w \in Workers, work' = [work EXCEPT ![w] = Idle]
    PROVE  WorkType'
  BY TypeParts DEF WorkType, WorkStates

LEMMA ReceiveTypes ==
    ASSUME TypeOK, NEW k \in Keys, NEW w \in Workers, Receive(k, w)
    PROVE  TypeOK'
  <1>t. QueueType /\ SentType /\ WorkType
    BY TypeParts
  <1> DEFINE e == [Head(queue[k]) EXCEPT !.tries = @ + 1]
  <1>1. queue[k] \in Seq(Tasks) /\ queue[k] # <<>>
    BY <1>t, SentTasks DEF Receive
  <1>2. Head(queue[k]) \in Tasks /\ Head(queue[k]).tries + 1 \in 0..MaxReceive
    <2>1. Head(queue[k]) \in Tasks
      BY <1>1, HeadAndTail, Zenon
    <2>2. Head(queue[k]).tries < MaxReceive
      BY DEF Receive
    <2> QED  BY <2>1, <2>2, ConstantsAssumption DEF Tasks
  <1>3. e \in Tasks /\ e.msg = Head(queue[k]).msg
    BY <1>2 DEF Tasks
  <1>4. queue'[k] = [queue[k] EXCEPT ![1] = e]
    BY <1>1, <1>t DEF Receive, QueueType
  <1>5. /\ queue'[k] \in Seq(Tasks) /\ Len(queue'[k]) = Len(queue[k])
        /\ Head(queue'[k]) = e
        /\ \A i \in 1..Len(queue[k]) : queue'[k][i].msg = queue[k][i].msg
    <2> HIDE DEF e
    <2> QED  BY <1>1, <1>3, <1>4
  <1>6. \A j \in Keys \ {k} : queue'[j] = queue[j]
    BY DEF Receive
  <1>7. QueueType'
    <2>1. queue' \in [Keys -> Seq(Tasks)]
      <3>1. \A j \in Keys : queue'[j] \in Seq(Tasks)
        BY <1>5, <1>6, <1>t DEF QueueType
      <3>2. queue' = [j \in Keys |-> queue'[j]]
        BY <1>t DEF Receive, QueueType
      <3> QED  BY <3>1, <3>2
    <2>2. \A j \in Keys : \A i \in 1..Len(queue'[j]) : queue'[j][i].msg.key = j
      BY <1>5, <1>6, <1>t DEF QueueType
    <2> QED  BY <2>1, <2>2 DEF QueueType
  <1>s. SentType'
    <2>1. sent' = sent /\ hidden' = hidden \cup {k} /\ sent[k] > 0
      BY DEF Receive
    <2>2. \A j \in Keys : Len(queue'[j]) = Len(queue[j])
      BY <1>5, <1>6
    <2> QED  BY <1>t, <2>1, <2>2 DEF SentType
  <1>8. WorkType'
    <2>1. [pc |-> "start", task |-> Head(queue'[k])] \in WorkStates
      BY <1>3, <1>5 DEF WorkStates
    <2> QED  BY <1>t, <2>1 DEF WorkType, Receive
  <1>9. TablesType' /\ ViewsType' /\ DirectoryType' /\ HistoryType' /\ CountType'
    BY TypeParts
       DEF Receive, tables, views, directory, TablesType, ViewsType, DirectoryType,
           HistoryType, CountType
  <1> QED  BY <1>7, <1>s, <1>8, <1>9, TypePartsNext

\* The first task of a message group that nobody works on, or that is given
\* free, goes.
LEMMA TailTypes ==
    ASSUME QueueType, SentType, NEW k \in Keys, sent[k] > 0, FirstDeleted(k),
           hidden' \subseteq hidden \ {k}
    PROVE  QueueType' /\ SentType'
  <1>q. queue[k] \in Seq(Tasks) /\ queue[k] # <<>> /\ sent[k] \in Nat
    BY SentTasks
  <1>d. queue' = [queue EXCEPT ![k] = Tail(@)] /\ sent' = [sent EXCEPT ![k] = @ - 1]
    BY DEF FirstDeleted
  <1>1. /\ queue'[k] \in Seq(Tasks) /\ Len(queue'[k]) = Len(queue[k]) - 1
        /\ \A i \in 1..Len(queue'[k]) : queue'[k][i].msg.key = k
    <2>1. queue'[k] = Tail(queue[k])
      BY <1>d DEF QueueType
    <2>2. ASSUME NEW s \in Seq(Tasks), s = queue[k]
          PROVE  /\ Tail(s) \in Seq(Tasks) /\ Len(Tail(s)) = Len(s) - 1
                 /\ \A i \in 1..Len(Tail(s)) : Tail(s)[i].msg.key = k
      <3>1. /\ Tail(s) \in Seq(Tasks) /\ Len(Tail(s)) = Len(s) - 1
            /\ \A i \in 1..Len(Tail(s)) : i + 1 \in 1..Len(s) /\ Tail(s)[i] = s[i + 1]
        BY <1>q, <2>2, HeadAndTail
      <3>2. \A i \in 1..Len(s) : s[i].msg.key = k
        BY <2>2 DEF QueueType
      <3> QED  BY <3>1, <3>2
    <2> QED  BY <1>q, <2>1, <2>2
  <1>2. \A j \in Keys \ {k} : queue'[j] = queue[j]
    BY <1>d DEF QueueType
  <1>3. queue' \in [Keys -> Seq(Tasks)]
    BY <1>1, <1>d DEF QueueType
  <1>4. \A j \in Keys : sent'[j] = IF j = k THEN sent[j] - 1 ELSE sent[j]
    BY <1>d DEF SentType
  <1>5. sent[k] - 1 \in Nat /\ sent[k] - 1 <= Len(queue'[k])
    <2>1. sent[k] <= Len(queue[k]) /\ Len(queue[k]) \in Nat
      BY <1>q DEF SentType
    <2> QED  BY <1>q, <1>1, <2>1
  <1>6. sent' \in [Keys -> Nat]
    BY <1>d, <1>5 DEF SentType
  <1>7. SentType'
    BY <1>2, <1>4, <1>5, <1>6 DEF SentType
  <1> QED  BY <1>1, <1>2, <1>3, <1>7 DEF QueueType

LEMMA ListenTypes == TypeOK /\ Listen => TypeOK'
  <1> SUFFICES ASSUME TypeOK, Listen PROVE TypeOK'
    OBVIOUS
  <1>1. ASSUME NEW k \in Keys, DeadLetter(k)
        PROVE  TypeOK'
    <2>1. QueueType' /\ SentType'
      <3>1. sent[k] > 0 /\ FirstDeleted(k) /\ hidden' \subseteq hidden \ {k}
        BY <1>1 DEF DeadLetter
      <3> QED  BY <3>1, TailTypes, TypeParts
    <2>2. HistoryType'
      BY <1>1, NoteType DEF DeadLetter
    <2>3. TablesType' /\ ViewsType' /\ DirectoryType' /\ WorkType' /\ CountType'
      BY <1>1, TypeParts
         DEF DeadLetter, tables, views, directory, TablesType, ViewsType, DirectoryType,
             WorkType, CountType
    <2> QED  BY <2>1, <2>2, <2>3, TypePartsNext
  <1> QED  BY <1>1, ReceiveTypes DEF Listen

\* A worker that finishes, gives up or is stopped.
LEMMA StopTypes ==
    ASSUME TypeOK, NEW w \in Workers, work[w] # Idle, Again(w),
           \/ UNCHANGED <<queue, sent>>
           \/ IF Holds(w) THEN FirstDeleted(Key(w)) ELSE UNCHANGED <<queue, sent>>
    PROVE  QueueType' /\ SentType'
  <1>1. QueueType /\ SentType /\ Key(w) \in Keys
    BY WorkerTask, TypeParts
  <1>2. CASE UNCHANGED <<queue, sent>>
    BY <1>1, <1>2, AgainTypes DEF QueueType, SentType
  <1>3. CASE Holds(w) /\ FirstDeleted(Key(w))
    <2>1. sent[Key(w)] > 0
      BY <1>1, <1>3 DEF Holds, SentType
    <2>2. hidden' \subseteq hidden \ {Key(w)}
      BY <1>1, <1>3, AgainTypes
    <2> QED  BY <1>1, <1>3, <2>1, <2>2, TailTypes
  <1> QED  BY <1>2, <1>3

LEMMA WorkTypes ==
    ASSUME TypeOK, NEW w \in Workers, Work(w)
    PROVE  TypeOK'
  <1>t. TablesType /\ ViewsType /\ DirectoryType /\ QueueType /\ WorkType /\ HistoryType
    BY TypeParts
  <1>w. work[w] \in WorkStates
    BY <1>t DEF WorkType
  <1>k. work[w] # Idle => work[w].task \in Tasks
    BY <1>t, WorkerTask
  <1>d. work[w] # Idle => [pc |-> "done", task |-> work[w].task] \in WorkStates
    BY <1>k DEF WorkStates
  <1>y. UNCHANGED directory => DirectoryType'
    BY <1>t DEF directory, DirectoryType
  <1>s. UNCHANGED <<views, directory>> /\ (UNCHANGED lost \/ \E S : Note(S)) =>
            ViewsType' /\ DirectoryType' /\ HistoryType'
    BY <1>t, <1>y, NoteType DEF views, ViewsType, HistoryType
  <1>i. ASSUME work[w] # Idle, Again(w), work' = [work EXCEPT ![w] = Idle],
               UNCHANGED <<tables, views, directory, lost, calls>>, CountType',
               \/ UNCHANGED <<queue, sent>>
               \/ IF Holds(w) THEN FirstDeleted(Key(w)) ELSE UNCHANGED <<queue, sent>>
        PROVE  TypeOK'
    <2>1. QueueType' /\ SentType' /\ WorkType'
      BY <1>i, StopTypes, IdleTypes
    <2>2. TablesType' /\ ViewsType' /\ DirectoryType' /\ HistoryType'
      BY <1>i, <1>t, <1>y DEF tables, views, TablesType, ViewsType, HistoryType
    <2> QED  BY <1>i, <2>1, <2>2, TypePartsNext
  <1>1. CASE MemberTask(w)
    <2>1. work[w] # Idle
      BY <1>1, <1>t, MemberMessage DEF MemberTask
    <2>2. [pc |-> "enrol", task |-> work[w].task] \in WorkStates
      BY <1>k, <2>1 DEF WorkStates
    <2>3. PICK next \in WorkStates : Step(w, next)
      BY <1>1, <1>d, <2>1, <2>2 DEF MemberTask
    <2>4. ViewsType' /\ DirectoryType' /\ HistoryType'
      BY <1>1, <1>s DEF MemberTask
    <2> QED  BY <2>3, <2>4, StepTypes
  <1>11. CASE MemberEnrols(w)
    <2>1. work[w] # Idle /\ Key(w) \in Users /\ GroupOf(w) \in Groups
      BY <1>11, <1>t, MemberMessage DEF MemberEnrols
    <2>2. [pc |-> "write", task |-> work[w].task,
           projects |-> {p \in Projects : <<GroupOf(w), p>> \in linked}] \in WorkStates
      BY <1>k, <2>1 DEF WorkStates
    <2>3. DirectoryType'
      BY <1>11, <1>t, <2>1 DEF MemberEnrols, DirectoryType
    <2>4. ViewsType' /\ HistoryType'
      BY <1>11, <1>t DEF MemberEnrols, views, ViewsType, HistoryType
    <2> QED  BY <1>11, <2>2, <2>3, <2>4, StepTypes DEF MemberEnrols
  <1>12. CASE MemberExists(w)
    <2>1. work[w] # Idle
      BY <1>12, <1>t, MemberMessage DEF MemberExists
    <2> QED  BY <1>12, <1>s, <1>d, <2>1, StepTypes DEF MemberExists
  <1>2. CASE MemberFails(w)
    <2>1. work[w] # Idle
      BY <1>2, <1>t, MemberMessage DEF MemberFails, MemberRaises
    <2>2. CountType'
      BY <1>2, TypeParts DEF MemberFails, CountType
    <2> QED  BY <1>2, <1>i, <2>1, <2>2 DEF MemberFails
  <1>3. CASE MemberWrite(w)
    <2>1. work[w] # Idle /\ Key(w) \in Users
      BY <1>3, <1>t, MemberMessage DEF MemberWrite
    <2>2. work[w].projects \subseteq Projects
      BY <1>3, <1>w DEF MemberWrite, At, WorkStates, Idle
    <2>3. PICK next \in WorkStates : Step(w, next)
      BY <1>3, <1>d, <2>1 DEF MemberWrite
    <2>4. ViewsType'
      BY <1>3, <1>t, <2>1, <2>2 DEF MemberWrite, ViewsType
    <2>5. HistoryType' /\ DirectoryType'
      BY <1>3, <1>t, <1>y, NoteType DEF MemberWrite, HistoryType
    <2> QED  BY <2>3, <2>4, <2>5, StepTypes
  <1>4. CASE ProjectTask(w)
    <2>1. work[w] # Idle /\ Key(w) \in Projects
      BY <1>4, <1>t, ProjectMessage DEF ProjectTask
    <2>2. [pc |-> "link", task |-> work[w].task, todo |-> project[Key(w)].groups] \in WorkStates
      BY <1>k, <1>t, <2>1 DEF WorkStates, TablesType
    <2> QED  BY <1>4, <1>s, <2>2, StepTypes DEF ProjectTask
  <1>5. CASE GroupsTask(w)
    <2>1. work[w] # Idle
      BY <1>5, <1>t, ProjectMessage DEF GroupsTask
    <2> QED  BY <1>5, <1>s, <1>d, <2>1, StepTypes DEF GroupsTask
  <1>6. ASSUME NEW g \in Groups, ProjectLink(w, g)
        PROVE  TypeOK'
    <2>1. work[w] # Idle /\ Key(w) \in Projects
      BY <1>6, <1>t, ProjectMessage DEF ProjectLink
    <2>2. work[w].todo \subseteq Groups
      BY <1>6, <1>w DEF ProjectLink, At, WorkStates, Idle
    <2>3. [pc |-> "list", task |-> work[w].task, todo |-> work[w].todo \ {g},
           group |-> g] \in WorkStates
      BY <1>k, <2>1, <2>2 DEF WorkStates
    <2>4. ViewsType' /\ DirectoryType' /\ HistoryType'
      BY <1>6, <1>t, <1>y, <2>1 DEF ProjectLink, ViewsType, HistoryType
    <2> QED  BY <1>6, <2>3, <2>4, StepTypes DEF ProjectLink
  <1>7. CASE ProjectMembers(w)
    <2>1. work[w] # Idle
      BY <1>7, <1>t, ProjectMessage DEF ProjectMembers
    <2>2. work[w].todo \subseteq Groups
      BY <1>7, <1>w DEF ProjectMembers, At, WorkStates, Idle
    <2>3. [pc |-> "users", task |-> work[w].task, todo |-> work[w].todo,
           users |-> MembersOf(work[w].group)] \in WorkStates
      BY <1>k, <2>1, <2>2 DEF WorkStates, MembersOf
    <2> QED  BY <1>7, <1>s, <2>3, StepTypes DEF ProjectMembers
  <1>8. CASE ProjectWrite(w)
    <2>1. work[w] # Idle /\ Key(w) \in Projects
      BY <1>8, <1>t, ProjectMessage DEF ProjectWrite
    <2>2. work[w].todo \subseteq Groups /\ work[w].users \subseteq Users
      BY <1>8, <1>w DEF ProjectWrite, At, WorkStates, Idle
    <2>3. [pc |-> "link", task |-> work[w].task, todo |-> work[w].todo] \in WorkStates
      BY <1>k, <2>1, <2>2 DEF WorkStates
    <2>4. ViewsType' /\ DirectoryType' /\ HistoryType'
      BY <1>8, <1>t, <1>y, <2>1, <2>2 DEF ProjectWrite, ViewsType, HistoryType
    <2> QED  BY <1>8, <2>3, <2>4, StepTypes DEF ProjectWrite
  <1>9. CASE ProjectDone(w)
    <2>1. work[w] # Idle
      BY <1>9, <1>t, ProjectMessage DEF ProjectDone
    <2> QED  BY <1>9, <1>s, <1>d, <2>1, StepTypes DEF ProjectDone
  <1>10. CASE Finish(w)
    <2>1. work[w] # Idle
      BY <1>10 DEF Finish, Idle
    <2>2. CountType'
      BY <1>10, TypeParts DEF Finish, CountType
    <2> QED  BY <1>10, <1>i, <2>1, <2>2 DEF Finish
  <1> QED  BY <1>1, <1>2, <1>3, <1>4, <1>5, <1>6, <1>7, <1>8, <1>9,
         <1>10, <1>11, <1>12 DEF Work

LEMMA OtherTypes ==
    ASSUME TypeOK,
           \/ Forget \/ \E g \in Groups : SyncGroup(g)
           \/ \E w \in Workers : Crash(w) \/ Expire(w)
    PROVE  TypeOK'
  <1>1. ASSUME NEW w \in Workers, Crash(w)
        PROVE  TypeOK'
    <2>1. QueueType' /\ SentType' /\ WorkType'
      BY <1>1, StopTypes, IdleTypes DEF Crash
    <2>2. TablesType' /\ ViewsType' /\ DirectoryType' /\ HistoryType' /\ CountType'
      BY <1>1, TypeParts, ConstantsAssumption
         DEF Crash, Fault, tables, views, directory, TablesType, ViewsType, DirectoryType,
             HistoryType, CountType
    <2> QED  BY <2>1, <2>2, TypePartsNext
  <1>2. ASSUME NEW w \in Workers, Expire(w)
        PROVE  TypeOK'
    <2>1. QueueType' /\ SentType' /\ WorkType'
      BY <1>2, TypeParts DEF Expire, QueueType, SentType, WorkType
    <2>2. TablesType' /\ ViewsType' /\ DirectoryType' /\ CountType'
      BY <1>2, TypeParts, ConstantsAssumption
         DEF Expire, Fault, tables, views, directory, TablesType, ViewsType, DirectoryType,
             CountType
    <2>3. HistoryType'
      BY <1>2, NoteType DEF Expire
    <2> QED  BY <2>1, <2>2, <2>3, TypePartsNext
  <1>3. CASE Forget
    BY <1>3, TypeParts, TypePartsNext
       DEF Forget, tables, views, directory, TablesType, ViewsType, DirectoryType, QueueType,
           SentType, WorkType, HistoryType, CountType
  <1>4. ASSUME NEW g \in Groups, SyncGroup(g)
        PROVE  TypeOK'
    <2>1. DirectoryType'
      BY <1>4, TypeParts DEF SyncGroup, DirectoryType
    <2> QED  BY <1>4, <2>1, TypeParts, TypePartsNext
         DEF SyncGroup, tables, views, TablesType, ViewsType, QueueType, SentType, WorkType,
             HistoryType, CountType
  <1> QED  BY <1>1, <1>2, <1>3, <1>4

LEMMA StutterTypes == TypeOK /\ UNCHANGED vars => TypeOK'
  BY TypeParts, TypePartsNext
     DEF vars, tables, views, directory, TablesType, ViewsType, DirectoryType, QueueType,
         SentType, WorkType, HistoryType, CountType

LEMMA NextTypes == TypeOK /\ [Next]_vars => TypeOK'
  BY ApiTypes, SendTypes, ListenTypes, WorkTypes, OtherTypes, StutterTypes DEF Next, Sender

\* The tables, the queue and the workers are what their comments say, however
\* calls, tasks, crashes and late tasks interleave: in particular only a message
\* group with a message is in flight, although two workers may finish the same task.
THEOREM TypeCorrect == Spec => []TypeOK
  BY InitTypes, NextTypes, PTL DEF Spec

-----------------------------------------------------------------------------
(* The invariant behind GrantsArrive.                                        *)

\* The workers that execute the first task of k.
On(k) == {w \in Workers : work[w] # Idle /\ Key(w) = k}

\* Unless a task was late, a message group has one worker, which executes its
\* first task and can delete it.
Owned ==
    \A w \in Workers : work[w] # Idle =>
        /\ Holds(w) /\ queue[Key(w)] # <<>>
        /\ \A v \in Workers : work[v] # Idle /\ Key(v) = Key(w) => v = w

\* What a worker has still to do for a group g, a user u or a project p.
WorkerLinks(w, g) ==
    \/ work[w].pc = "start"
    \/ work[w].pc \in {"link", "list", "users"} /\ g \in work[w].todo
WorkerReaches(w, g, u) ==
    \/ WorkerLinks(w, g)
    \/ work[w].pc = "list" /\ work[w].group = g
    \/ work[w].pc = "users" /\ u \in work[w].users
WorkerWrites(w, p) ==
    \/ work[w].pc \in {"start", "enrol"}
    \/ work[w].pc = "write" /\ p \in work[w].projects

\* A task of project p or of user u that has still to do it: one that waits, or
\* the first one with what is left of it.
WillLink(kind, p, g) ==
    \E i \in 1..Len(queue[p]) :
        /\ queue[p][i].msg.kind = kind
        /\ i = 1 => \A w \in On(p) : WorkerLinks(w, g)
WillReach(kind, p, g, u) ==
    \E i \in 1..Len(queue[p]) :
        /\ queue[p][i].msg.kind = kind
        /\ i = 1 => \A w \in On(p) : WorkerReaches(w, g, u)
WillWrite(kind, u, g, p) ==
    \E i \in 1..Len(queue[u]) :
        /\ queue[u][i].msg = Message(kind, u, {g})
        /\ i = 1 => \A w \in On(u) : WorkerWrites(w, p)

\* Each message of s that is in S has one in T behind it.
Followed(s, S, T) ==
    \A i \in 1..Len(s) : s[i].msg \in S => \E j \in i + 1..Len(s) : s[j].msg \in T

About(kind, u, g) == {Message(kind, u, {g})}
Kind(kind) == {m \in Messages : m.kind = kind}

\* The last task about a member or a project is the one for what the tables say.
LastTasks ==
    /\ \A u \in Users, g \in Groups :
          IF <<g, u>> \in member
          THEN Followed(queue[u], About("remove", u, g), About("add", u, g))
          ELSE Followed(queue[u], About("add", u, g), About("remove", u, g))
    /\ \A p \in Projects :
          IF project[p].enabled
          THEN Followed(queue[p], Kind("disable"), Kind("enable"))
          ELSE Followed(queue[p], Kind("enable"), Kind("disable"))

\* What the tables entitle to is there, or a task will see to it.
LinksComing ==
    \A p \in Projects, g \in Groups :
        project[p].enabled /\ g \in project[p].groups =>
            <<g, p>> \in linked \/ WillLink("enable", p, g)
AccessComing ==
    \A p \in Projects, g \in Groups, u \in Users :
        project[p].enabled /\ g \in project[p].groups /\ <<g, u>> \in member =>
            \/ <<u, p>> \in access
            \/ WillWrite("add", u, g, p)
            \/ WillReach("enable", p, g, u)

GrantInv == Owned /\ LastTasks /\ LinksComing /\ AccessComing
GrantIInv == TypeOK /\ (lost \subseteq {"raced"} => GrantInv)

-----------------------------------------------------------------------------
(* Messages that are followed by others.                                     *)

LEMMA FollowedSame ==
    ASSUME NEW s, NEW t, NEW S, NEW T, Followed(s, S, T), Len(s) \in Nat, Len(t) = Len(s),
           \A i \in 1..Len(s) : t[i].msg = s[i].msg
    PROVE  Followed(t, S, T)
  <1> SUFFICES ASSUME NEW i \in 1..Len(t), t[i].msg \in S
               PROVE  \E j \in i + 1..Len(t) : t[j].msg \in T
    BY DEF Followed
  <1>1. PICK j \in i + 1..Len(s) : s[j].msg \in T
    BY DEF Followed
  <1>2. j \in 1..Len(s)
    BY <1>1
  <1> QED  BY <1>1, <1>2

LEMMA FollowedTail ==
    ASSUME NEW s \in Seq(Tasks), s # <<>>, NEW S, NEW T, Followed(s, S, T)
    PROVE  Followed(Tail(s), S, T)
  <1>1. PICK t : t = Tail(s)
    OBVIOUS
  <1>2. /\ Len(s) \in Nat \ {0} /\ Len(t) \in Nat /\ Len(t) = Len(s) - 1
        /\ \A i \in 1..Len(t) : i + 1 \in 1..Len(s) /\ t[i] = s[i + 1]
        /\ \A i \in 1..Len(s) : i = 1 \/ (i - 1 \in 1..Len(t) /\ t[i - 1] = s[i])
    BY <1>1, TailShift
  <1> SUFFICES ASSUME NEW i \in 1..Len(t), t[i].msg \in S
               PROVE  \E j \in i + 1..Len(t) : t[j].msg \in T
    BY <1>1 DEF Followed
  <1>3. i + 1 \in 1..Len(s) /\ s[i + 1].msg \in S
    BY <1>2
  <1>4. PICK j \in (i + 1) + 1..Len(s) : s[j].msg \in T
    BY <1>3 DEF Followed
  <1>5. j \in 1..Len(s) /\ j # 1
    BY <1>2, <1>4
  <1>6. j - 1 \in i + 1..Len(t) /\ t[j - 1] = s[j]
    BY <1>2, <1>4, <1>5
  <1> QED  BY <1>4, <1>6

LEMMA FollowedAppend ==
    ASSUME NEW s \in Seq(Tasks), NEW e \in Tasks, NEW S, NEW T,
           e.msg \notin S, e.msg \in T \/ Followed(s, S, T)
    PROVE  Followed(Append(s, e), S, T)
  <1>1. PICK t : t = Append(s, e)
    OBVIOUS
  <1>2. /\ Len(s) \in Nat /\ Len(t) = Len(s) + 1 /\ t[Len(t)] = e
        /\ \A i \in 1..Len(s) : t[i] = s[i]
    BY <1>1, Appended
  <1> SUFFICES ASSUME NEW i \in 1..Len(t), t[i].msg \in S
               PROVE  \E j \in i + 1..Len(t) : t[j].msg \in T
    BY <1>1 DEF Followed
  <1>3. i \in 1..Len(s) /\ s[i].msg \in S
    <2>1. i # Len(t)
      BY <1>2
    <2>2. i \in 1..Len(s)
      BY <1>2, <2>1
    <2> QED  BY <1>2, <2>2
  <1>4. CASE e.msg \in T
    <2>1. Len(t) \in i + 1..Len(t)
      BY <1>2, <1>3
    <2> QED  BY <1>2, <1>4, <2>1
  <1>5. CASE Followed(s, S, T)
    <2>1. PICK j \in i + 1..Len(s) : s[j].msg \in T
      BY <1>3, <1>5 DEF Followed
    <2>2. j \in 1..Len(s) /\ j \in i + 1..Len(t)
      BY <1>2, <1>3, <2>1
    <2> QED  BY <1>2, <2>1, <2>2
  <1> QED  BY <1>4, <1>5

LEMMA FollowedHead ==
    ASSUME NEW s \in Seq(Tasks), s # <<>>, NEW S, NEW T, Followed(s, S, T), Head(s).msg \in S
    PROVE  \E j \in 1..Len(s) : j # 1 /\ s[j].msg \in T
  <1>1. Len(s) \in Nat \ {0} /\ s[1].msg \in S
    BY HeadAndTail
  <1>2. PICK j \in 1 + 1..Len(s) : s[j].msg \in T
    BY <1>1 DEF Followed
  <1>3. j \in 1..Len(s) /\ j # 1
    BY <1>1, <1>2
  <1> QED  BY <1>2, <1>3

LEMMA KindsApart ==
    ASSUME NEW u, NEW g
    PROVE  Message("add", u, {g}) # Message("remove", u, {g})
  BY DEF Message

-----------------------------------------------------------------------------
(* The calls.                                                               *)

LEMMA GrownKeeps ==
    ASSUME QueueType, NEW k \in Keys, Grown(k)
    PROVE  /\ Len(queue[k]) \in Nat /\ Len(queue'[k]) \in Nat
           /\ Len(queue'[k]) \in Len(queue[k])..Len(queue[k]) + 1
           /\ \A i \in 1..Len(queue[k]) : i \in 1..Len(queue'[k]) /\ queue'[k][i] = queue[k][i]
           /\ queue[k] # <<>> => queue'[k] # <<>> /\ Head(queue'[k]) = Head(queue[k])
  <1>1. queue[k] \in Seq(Tasks)
    BY DEF QueueType
  <1>2. CASE queue'[k] = queue[k]
    BY <1>1, <1>2
  <1>3. ASSUME NEW e \in Tasks, queue'[k] = Append(queue[k], e)
        PROVE  /\ Len(queue[k]) \in Nat /\ Len(queue'[k]) = Len(queue[k]) + 1
               /\ \A i \in 1..Len(queue[k]) : queue'[k][i] = queue[k][i]
               /\ queue[k] # <<>> => queue'[k] # <<>> /\ Head(queue'[k]) = Head(queue[k])
    BY <1>1, <1>3, Appended
  <1> QED  BY <1>2, <1>3 DEF Grown

\* A new task waits behind the others, and nobody executes it yet.
LEMMA NewTask ==
    ASSUME QueueType, Owned, work' = work, NEW k \in Keys, NEW e \in Tasks,
           queue'[k] = Append(queue[k], e)
    PROVE  /\ Len(queue'[k]) \in Nat \ {0} /\ queue'[k][Len(queue'[k])] = e
           /\ Len(queue'[k]) = 1 => On(k)' = {}
           /\ \A i \in 1..Len(queue'[k]) :
                 i = Len(queue'[k]) \/ (i \in 1..Len(queue[k]) /\ queue'[k][i] = queue[k][i])
  <1>1. queue[k] \in Seq(Tasks)
    BY DEF QueueType
  <1>2. /\ Len(queue[k]) \in Nat /\ Len(queue'[k]) = Len(queue[k]) + 1
        /\ queue'[k][Len(queue[k]) + 1] = e
        /\ \A i \in 1..Len(queue[k]) : queue'[k][i] = queue[k][i]
        /\ queue[k] # <<>> => Len(queue[k]) # 0
    BY <1>1, Appended
  <1>3. queue[k] = <<>> => On(k)' = {}
    BY DEF Owned, On, Key
  <1> QED  BY <1>2, <1>3

LEMMA GrowOwned ==
    ASSUME QueueType, WorkType, Owned, work' = work, hidden' = hidden,
           \A k \in Keys : Grown(k)
    PROVE  Owned'
  <1> SUFFICES ASSUME NEW w \in Workers, work[w] # Idle
               PROVE  /\ Holds(w)' /\ queue'[Key(w)] # <<>>
                      /\ \A v \in Workers : work[v] # Idle /\ Key(v) = Key(w) => v = w
    BY DEF Owned, Key
  <1>1. Key(w) \in Keys /\ Holds(w) /\ queue[Key(w)] # <<>>
    BY WorkerTask DEF Owned
  <1>2. queue'[Key(w)] # <<>> /\ Head(queue'[Key(w)]) = Head(queue[Key(w)])
    BY <1>1, GrownKeeps
  <1>3. Holds(w)'
    BY <1>1, <1>2 DEF Holds, Key
  <1> QED  BY <1>2, <1>3 DEF Owned

LEMMA GrowWill ==
    ASSUME QueueType, work' = work, \A k \in Keys : Grown(k), NEW kind
    PROVE  /\ \A p \in Projects, g \in Groups :
                 WillLink(kind, p, g) => WillLink(kind, p, g)'
           /\ \A p \in Projects, g \in Groups, u \in Users :
                 WillReach(kind, p, g, u) => WillReach(kind, p, g, u)'
           /\ \A p \in Projects, g \in Groups, u \in Users :
                 WillWrite(kind, u, g, p) => WillWrite(kind, u, g, p)'
  <1>1. \A k \in Keys : \A i \in 1..Len(queue[k]) :
            i \in 1..Len(queue'[k]) /\ queue'[k][i] = queue[k][i]
    BY GrownKeeps
  <1>2. \A k \in Keys : On(k)' = On(k)
    BY DEF On, Key
  <1>3. \A w \in Workers : \A g, u, p :
            /\ WorkerLinks(w, g)' = WorkerLinks(w, g)
            /\ WorkerReaches(w, g, u)' = WorkerReaches(w, g, u)
            /\ WorkerWrites(w, p)' = WorkerWrites(w, p)
    BY DEF WorkerLinks, WorkerReaches, WorkerWrites
  <1>4. ASSUME NEW p \in Projects, NEW g \in Groups, WillLink(kind, p, g)
        PROVE  WillLink(kind, p, g)'
    BY <1>1, <1>2, <1>3, <1>4 DEF WillLink, Keys, On
  <1>5. ASSUME NEW p \in Projects, NEW g \in Groups, NEW u \in Users,
               WillReach(kind, p, g, u)
        PROVE  WillReach(kind, p, g, u)'
    <2>1. PICK i \in 1..Len(queue[p]) :
              /\ queue[p][i].msg.kind = kind
              /\ i = 1 => \A w \in On(p) : WorkerReaches(w, g, u)
      BY <1>5 DEF WillReach
    <2>2. i \in 1..Len(queue'[p]) /\ queue'[p][i] = queue[p][i]
      BY <1>1 DEF Keys
    <2>3. i = 1 => \A w \in On(p)' : WorkerReaches(w, g, u)'
      BY <1>2, <1>3, <2>1 DEF Keys, On
    <2> QED  BY <2>1, <2>2, <2>3 DEF WillReach
  <1>6. ASSUME NEW p \in Projects, NEW g \in Groups, NEW u \in Users,
               WillWrite(kind, u, g, p)
        PROVE  WillWrite(kind, u, g, p)'
    BY <1>1, <1>2, <1>3, <1>6 DEF WillWrite, Keys, On
  <1> QED  BY <1>4, <1>5, <1>6

\* What a new task will do, nobody has begun.
LEMMA NewWill ==
    ASSUME QueueType, Owned, work' = work, NEW k \in Keys, NEW e \in Tasks,
           queue'[k] = Append(queue[k], e)
    PROVE  /\ \A g, u : WillLink(e.msg.kind, k, g)' /\ WillReach(e.msg.kind, k, g, u)'
           /\ \A kind, g, p : e.msg = Message(kind, k, {g}) => WillWrite(kind, k, g, p)'
  <1>1. PICK n : n = Len(queue'[k])
    OBVIOUS
  <1>2. n \in 1..Len(queue'[k]) /\ queue'[k][n] = e /\ (n = 1 => On(k)' = {})
    <2>1. /\ Len(queue'[k]) \in Nat \ {0} /\ queue'[k][Len(queue'[k])] = e
          /\ Len(queue'[k]) = 1 => On(k)' = {}
      BY NewTask
    <2> QED  BY <1>1, <2>1
  <1>3. \A g, u : WillLink(e.msg.kind, k, g)' /\ WillReach(e.msg.kind, k, g, u)'
    BY <1>2 DEF WillLink, WillReach
  <1>4. \A kind, g, p : e.msg = Message(kind, k, {g}) => WillWrite(kind, k, g, p)'
    BY <1>2 DEF WillWrite
  <1> QED  BY <1>3, <1>4

\* What a call does when none of its messages is lost: of each member and project
\* that is not what it was before, a task is told, and no other task.
MemberTold(u, g) ==
    \/ /\ <<g, u>> \in member' <=> <<g, u>> \in member
       /\ \/ queue'[u] = queue[u]
          \/ \E e \in Tasks : /\ queue'[u] = Append(queue[u], e)
                              /\ e.msg \notin About("add", u, g) \cup About("remove", u, g)
    \/ \E e \in Tasks :
          /\ queue'[u] = Append(queue[u], e)
          /\ e.msg = Message(IF <<g, u>> \in member' THEN "add" ELSE "remove", u, {g})
ProjectTold(p) ==
    \/ /\ project'[p].enabled = project[p].enabled
       /\ \/ queue'[p] = queue[p]
          \/ \E e \in Tasks : /\ queue'[p] = Append(queue[p], e)
                              /\ e.msg.kind \notin {"enable", "disable"}
    \/ \E e \in Tasks :
          /\ queue'[p] = Append(queue[p], e)
          /\ e.msg.kind = IF project'[p].enabled THEN "enable" ELSE "disable"
GroupsSettled(p) ==
    \/ project'[p].groups = project[p].groups
    \/ /\ ~project[p].enabled /\ ~project'[p].enabled
       /\ queue[p] = <<>> /\ queue'[p] = <<>>
Told ==
    /\ UNCHANGED <<work, hidden, views>>
    /\ \A k \in Keys : Grown(k)
    /\ \A u \in Users, g \in Groups : MemberTold(u, g)
    /\ \A p \in Projects : ProjectTold(p) /\ GroupsSettled(p)

LEMMA CallLast ==
    ASSUME QueueType, TablesType', LastTasks, Told
    PROVE  LastTasks'
  <1>q. \A k \in Keys : queue[k] \in Seq(Tasks)
    BY DEF QueueType
  <1>1. ASSUME NEW u \in Users, NEW g \in Groups
        PROVE  IF <<g, u>> \in member'
               THEN Followed(queue'[u], About("remove", u, g), About("add", u, g))
               ELSE Followed(queue'[u], About("add", u, g), About("remove", u, g))
    <2>q. queue[u] \in Seq(Tasks)
      BY <1>q DEF Keys
    <2>1. CASE queue'[u] = queue[u] /\ (<<g, u>> \in member' <=> <<g, u>> \in member)
      BY <2>1 DEF LastTasks
    <2>2. ASSUME <<g, u>> \in member' <=> <<g, u>> \in member,
                 NEW e \in Tasks, queue'[u] = Append(queue[u], e),
                 e.msg \notin About("add", u, g) \cup About("remove", u, g)
          PROVE  IF <<g, u>> \in member'
                 THEN Followed(queue'[u], About("remove", u, g), About("add", u, g))
                 ELSE Followed(queue'[u], About("add", u, g), About("remove", u, g))
      BY <2>q, <2>2, FollowedAppend DEF LastTasks
    <2>3. ASSUME NEW e \in Tasks, queue'[u] = Append(queue[u], e),
                 e.msg = Message(IF <<g, u>> \in member' THEN "add" ELSE "remove", u, {g})
          PROVE  IF <<g, u>> \in member'
                 THEN Followed(queue'[u], About("remove", u, g), About("add", u, g))
                 ELSE Followed(queue'[u], About("add", u, g), About("remove", u, g))
      <3>1. CASE <<g, u>> \in member'
        <4>1. e.msg \in About("add", u, g) /\ e.msg \notin About("remove", u, g)
          BY <2>3, <3>1, KindsApart DEF About
        <4> QED  BY <2>q, <2>3, <3>1, <4>1, FollowedAppend
      <3>2. CASE <<g, u>> \notin member'
        <4>1. e.msg \in About("remove", u, g) /\ e.msg \notin About("add", u, g)
          BY <2>3, <3>2, KindsApart DEF About
        <4> QED  BY <2>q, <2>3, <3>2, <4>1, FollowedAppend
      <3> QED  BY <3>1, <3>2
    <2> QED  BY <2>1, <2>2, <2>3 DEF Told, MemberTold
  <1>2. ASSUME NEW p \in Projects
        PROVE  IF project'[p].enabled
               THEN Followed(queue'[p], Kind("disable"), Kind("enable"))
               ELSE Followed(queue'[p], Kind("enable"), Kind("disable"))
    <2>q. queue[p] \in Seq(Tasks)
      BY <1>q DEF Keys
    <2>b. project'[p].enabled \in BOOLEAN
      BY DEF TablesType
    <2>1. CASE queue'[p] = queue[p] /\ project'[p].enabled = project[p].enabled
      BY <2>1 DEF LastTasks
    <2>2. ASSUME project'[p].enabled = project[p].enabled,
                 NEW e \in Tasks, queue'[p] = Append(queue[p], e),
                 e.msg.kind \notin {"enable", "disable"}
          PROVE  IF project'[p].enabled
                 THEN Followed(queue'[p], Kind("disable"), Kind("enable"))
                 ELSE Followed(queue'[p], Kind("enable"), Kind("disable"))
      <3>1. e.msg \notin Kind("enable") /\ e.msg \notin Kind("disable")
        BY <2>2 DEF Kind
      <3> QED  BY <2>q, <2>b, <2>2, <3>1, FollowedAppend DEF LastTasks
    <2>3. ASSUME NEW e \in Tasks, queue'[p] = Append(queue[p], e),
                 e.msg.kind = IF project'[p].enabled THEN "enable" ELSE "disable"
          PROVE  IF project'[p].enabled
                 THEN Followed(queue'[p], Kind("disable"), Kind("enable"))
                 ELSE Followed(queue'[p], Kind("enable"), Kind("disable"))
      <3>m. e.msg \in Messages
        BY DEF Tasks, Messages
      <3>1. CASE project'[p].enabled
        <4>1. e.msg \in Kind("enable") /\ e.msg \notin Kind("disable")
          BY <2>3, <3>m, <3>1 DEF Kind
        <4> QED  BY <2>q, <2>3, <3>1, <4>1, FollowedAppend
      <3>2. CASE ~project'[p].enabled
        <4>1. e.msg \in Kind("disable") /\ e.msg \notin Kind("enable")
          BY <2>3, <3>m, <3>2 DEF Kind
        <4> QED  BY <2>q, <2>3, <3>2, <4>1, FollowedAppend
      <3> QED  BY <3>1, <3>2
    <2> QED  BY <2>1, <2>2, <2>3 DEF Told, ProjectTold
  <1> QED  BY <1>1, <1>2 DEF LastTasks

LEMMA CallGrants ==
    ASSUME QueueType, WorkType, TablesType', GrantInv, Told
    PROVE  GrantInv'
  <1> USE DEF GrantInv
  <1>0. UNCHANGED <<work, hidden, views>> /\ \A k \in Keys : Grown(k)
    BY DEF Told
  <1>1. Owned' /\ LastTasks'
    BY <1>0, GrowOwned, CallLast
  <1>2. ASSUME NEW p \in Projects, project'[p].enabled
        PROVE  /\ project'[p].groups = project[p].groups
               /\ \/ project[p].enabled
                  \/ \A g, u : WillLink("enable", p, g)' /\ WillReach("enable", p, g, u)'
    <2>1. project'[p].groups = project[p].groups
      BY <1>2 DEF Told, GroupsSettled
    <2>2. ASSUME NEW e \in Tasks, queue'[p] = Append(queue[p], e), e.msg.kind = "enable"
          PROVE  \A g, u : WillLink("enable", p, g)' /\ WillReach("enable", p, g, u)'
      <3>1. p \in Keys
        BY DEF Keys
      <3> QED  BY <1>0, <2>2, <3>1, NewWill
    <2> QED  BY <1>2, <2>1, <2>2 DEF Told, ProjectTold
  <1>3. ASSUME NEW u \in Users, NEW g \in Groups, <<g, u>> \in member', <<g, u>> \notin member
        PROVE  \A p : WillWrite("add", u, g, p)'
    <2>1. PICK e \in Tasks :
              queue'[u] = Append(queue[u], e) /\ e.msg = Message("add", u, {g})
      BY <1>3 DEF Told, MemberTold
    <2>2. u \in Keys
      BY DEF Keys
    <2> QED  BY <1>0, <2>1, <2>2, NewWill
  <1>4. LinksComing'
    <2> SUFFICES ASSUME NEW p \in Projects, NEW g \in Groups, project'[p].enabled,
                        g \in project'[p].groups
                 PROVE  <<g, p>> \in linked \/ WillLink("enable", p, g)'
      BY <1>0 DEF LinksComing, views
    <2>1. CASE project[p].enabled
      BY <1>0, <1>2, <2>1, GrowWill DEF LinksComing
    <2> QED  BY <1>2, <2>1
  <1>5. AccessComing'
    <2> SUFFICES ASSUME NEW p \in Projects, NEW g \in Groups, NEW u \in Users,
                        project'[p].enabled, g \in project'[p].groups, <<g, u>> \in member'
                 PROVE  \/ <<u, p>> \in access
                        \/ WillWrite("add", u, g, p)'
                        \/ WillReach("enable", p, g, u)'
      BY <1>0 DEF AccessComing, views
    <2>1. CASE project[p].enabled /\ <<g, u>> \in member
      BY <1>0, <1>2, <2>1, GrowWill DEF AccessComing
    <2> QED  BY <1>2, <1>3, <2>1
  <1> QED  BY <1>1, <1>4, <1>5

LEMMA NoteClean ==
    ASSUME NEW S, Note(S), lost' \subseteq {"raced"}
    PROVE  lost \subseteq {"raced"} /\ S \subseteq {"raced"}
  <1>1. lost' = Summary(lost \cup S \cup (IF Conflict' THEN {"raced"} ELSE {}))
    BY DEF Note
  <1>2. lost \cup S \subseteq {"raced"}
    BY <1>1, SummaryType
  <1> QED  BY <1>2

LEMMA MessageFields ==
    ASSUME NEW kind, NEW k, NEW gs
    PROVE  /\ Message(kind, k, gs).kind = kind /\ Message(kind, k, gs).key = k
           /\ Message(kind, k, gs).groups = gs
  BY DEF Message

\* A task in the message group of a user is not about a project.
LEMMA KeysApart ==
    ASSUME NEW u \in Users, NEW p \in Projects
    PROVE  u # p /\ u \in Keys /\ p \in Keys
  BY ConstantsAssumption DEF Keys

\* A message about a member is about no other group of the user.
LEMMA OtherGroup ==
    ASSUME NEW kind, NEW u, NEW g, NEW h, g # h
    PROVE  Message(kind, u, {g}) \notin About("add", u, h) \cup About("remove", u, h)
  <1>1. Message(kind, u, {g}).groups = {g}
    BY MessageFields
  <1>2. /\ Message("add", u, {h}).groups = {h}
        /\ Message("remove", u, {h}).groups = {h}
    BY MessageFields
  <1> QED  BY <1>1, <1>2 DEF About

\* What the calls that write a member have in common.
MemberCall(kind, u, g) ==
    /\ UNCHANGED <<project, work, hidden, views>>
    /\ \E call \in 1..MaxCalls : WillSend(call, Message(kind, u, {g}))
    /\ member' = IF kind = "add" THEN member \cup {<<g, u>>} ELSE member \ {<<g, u>>}

LEMMA MemberCalls ==
    ASSUME TypeOK, NEW u \in Users, NEW g \in Groups,
           AddUser(u, g) \/ RemoveUser(u, g) \/ DeletionRemoves(g, u)
    PROVE  \E kind \in {"add", "remove"} : MemberCall(kind, u, g)
  <1>1. CASE AddUser(u, g)
    <2>1. calls + 1 \in 1..MaxCalls
      BY <1>1, CallTypes DEF AddUser
    <2> QED  BY <1>1, <2>1 DEF AddUser, Call, MemberCall
  <1>2. CASE RemoveUser(u, g)
    <2>1. calls + 1 \in 1..MaxCalls
      BY <1>2, CallTypes DEF RemoveUser
    <2> QED  BY <1>2, <2>1 DEF RemoveUser, Call, MemberCall
  <1>3. CASE DeletionRemoves(g, u)
    <2>1. removal[g].call \in 1..MaxCalls
      BY <1>3, DeletingTypes DEF DeletionRemoves
    <2> QED  BY <1>3, <2>1 DEF DeletionRemoves, Deleting, MemberCall
  <1> QED  BY <1>1, <1>2, <1>3

LEMMA MemberCallTold ==
    ASSUME TypeOK, NEW u \in Users, NEW g \in Groups,
           AddUser(u, g) \/ RemoveUser(u, g) \/ DeletionRemoves(g, u)
    PROVE  Told
  <1>1. PICK kind \in {"add", "remove"} : MemberCall(kind, u, g)
    BY MemberCalls
  <1> DEFINE m == Message(kind, u, {g})
  <1>2. m \in Messages /\ QueueType
    BY ApiMessages, TypeParts
  <1>p. /\ UNCHANGED <<project, work, hidden, views>>
        /\ member' = IF kind = "add" THEN member \cup {<<g, u>>} ELSE member \ {<<g, u>>}
    BY <1>1 DEF MemberCall
  <1>c. PICK call \in 1..MaxCalls : queue' = Queued(call, m)
    BY <1>1 DEF MemberCall, WillSend
  <1>3. /\ \A k \in Keys : Grown(k)
        /\ \A k \in Keys :
              \/ queue'[k] = queue[k] /\ m.key # k
              \/ \E e \in Tasks : m.key = k /\ e.msg = m /\ queue'[k] = Append(queue[k], e)
    <2> HIDE DEF m
    <2> QED  BY <1>2, <1>c, QueuedEffect
  <1>4. \A k \in Keys : \/ queue'[k] = queue[k] /\ k # u
                        \/ k = u /\ \E e \in Tasks : e.msg = m /\ queue'[k] = Append(queue[k], e)
    <2>1. m.key = u
      BY MessageFields
    <2> QED  BY <1>3, <2>1
  <1>5. ASSUME NEW v \in Users, NEW h \in Groups
        PROVE  MemberTold(v, h)
    <2>k. v \in Keys
      BY DEF Keys
    <2>1. CASE v # u
      BY <1>p, <1>4, <2>k, <2>1 DEF MemberTold
    <2>2. CASE v = u /\ h = g
      <3>1. kind = IF <<h, v>> \in member' THEN "add" ELSE "remove"
        BY <1>p, <2>2
      <3> QED  BY <1>4, <2>k, <2>2, <3>1 DEF MemberTold
    <2>3. CASE v = u /\ h # g
      <3>1. <<h, v>> \in member' <=> <<h, v>> \in member
        BY <1>p, <2>3
      <3>2. m \notin About("add", v, h) \cup About("remove", v, h)
        BY <2>3, OtherGroup
      <3> QED  BY <1>4, <2>k, <2>3, <3>1, <3>2 DEF MemberTold
    <2> QED  BY <2>1, <2>2, <2>3
  <1>6. ASSUME NEW p \in Projects
        PROVE  ProjectTold(p) /\ GroupsSettled(p)
    BY <1>p, <1>4, KeysApart DEF ProjectTold, GroupsSettled
  <1> QED  BY <1>p, <1>3, <1>5, <1>6 DEF Told

LEMMA SetProjectTold ==
    ASSUME TypeOK, NEW p \in Projects, NEW enabled \in BOOLEAN, SetProject(p, enabled)
    PROVE  Told
  <1>t. TablesType /\ QueueType
    BY TypeParts
  <1> DEFINE m == Message(IF enabled THEN "enable" ELSE "disable", p, {})
  <1>1. m \in Messages
    BY ApiMessages
  <1>2. /\ queue' = Queued(calls + 1, m) /\ calls + 1 \in 1..MaxCalls
        /\ UNCHANGED <<work, hidden, views>>
        /\ member' = member /\ project' = [project EXCEPT ![p].enabled = enabled]
    BY CallTypes DEF SetProject, WillSend, Call
  <1>3. m.key = p /\ m.kind = IF enabled THEN "enable" ELSE "disable"
    BY MessageFields
  <1> HIDE DEF m
  <1>4. /\ \A k \in Keys : Grown(k)
        /\ \A k \in Keys :
              \/ queue'[k] = queue[k] /\ m.key # k
              \/ \E e \in Tasks : m.key = k /\ e.msg = m /\ queue'[k] = Append(queue[k], e)
    BY <1>t, <1>1, <1>2, QueuedEffect
  <1>5. ASSUME NEW u \in Users, NEW g \in Groups
        PROVE  MemberTold(u, g)
    BY <1>2, <1>3, <1>4, KeysApart DEF MemberTold
  <1>6. ASSUME NEW q \in Projects
        PROVE  ProjectTold(q) /\ GroupsSettled(q)
    <2>1. CASE q # p
      BY <1>2, <1>3, <1>4, <2>1 DEF ProjectTold, GroupsSettled, Keys
    <2>2. CASE q = p
      <3>1. project'[q].enabled = enabled /\ project'[q].groups = project[q].groups
        BY <1>2, <1>t, <2>2 DEF TablesType
      <3>2. \E e \in Tasks : e.msg = m /\ queue'[p] = Append(queue[p], e)
        BY <1>3, <1>4 DEF Keys
      <3> QED  BY <1>3, <2>2, <3>1, <3>2 DEF ProjectTold, GroupsSettled
    <2> QED  BY <2>1, <2>2
  <1> QED  BY <1>2, <1>4, <1>5, <1>6 DEF Told

LEMMA UpdateProjectTold ==
    ASSUME TypeOK, lost' \subseteq {"raced"},
           NEW p \in Projects, NEW gs \in SUBSET Groups, UpdateProject(p, gs)
    PROVE  Told
  <1>t. QueueType /\ TablesType
    BY TypeParts
  <1> DEFINE m == Message("groups", p, gs)
             moved == gs # project[p].groups /\ (project[p].enabled \/ queue[p] # <<>>)
  <1>1. m \in Messages /\ m.key = p /\ m.kind = "groups"
    BY ApiMessages, MessageFields
  <1>2. /\ UNCHANGED <<work, hidden, views>> /\ calls + 1 \in 1..MaxCalls
        /\ member' = member /\ project' = [project EXCEPT ![p].groups = gs]
    BY CallTypes DEF UpdateProject, Call
  <1>3. ~moved
    <2>1. Note(IF moved THEN {"regroup"} ELSE {})
      BY DEF UpdateProject
    <2>2. (IF moved THEN {"regroup"} ELSE {}) \subseteq {"raced"}
      <3> HIDE DEF moved
      <3> QED  BY <2>1, NoteClean
    <2> QED  BY <2>2
  <1>4. queue' = queue \/ (project[p].enabled /\ queue' = Queued(calls + 1, m))
    BY DEF UpdateProject
  <1> HIDE DEF m
  <1>5. /\ \A k \in Keys : Grown(k)
        /\ \A k \in Keys :
              \/ queue'[k] = queue[k]
              \/ /\ k = p /\ project[p].enabled
                 /\ \E e \in Tasks : e.msg.kind = "groups" /\ queue'[k] = Append(queue[k], e)
    <2>1. CASE queue' = queue
      BY <2>1 DEF Grown
    <2>2. CASE project[p].enabled /\ queue' = Queued(calls + 1, m)
      <3>1. /\ \A k \in Keys : Grown(k)
            /\ \A k \in Keys :
                  \/ queue'[k] = queue[k] /\ m.key # k
                  \/ \E e \in Tasks : m.key = k /\ e.msg = m /\ queue'[k] = Append(queue[k], e)
        BY <1>t, <1>1, <1>2, <2>2, QueuedEffect
      <3> QED  BY <1>1, <2>2, <3>1
    <2> QED  BY <1>4, <2>1, <2>2
  <1>p. project'[p].groups = gs /\ \A q \in Projects :
            /\ project'[q].enabled = project[q].enabled
            /\ q # p => project'[q].groups = project[q].groups
    BY <1>2, <1>t DEF TablesType
  <1>7. ASSUME NEW u \in Users, NEW g \in Groups
        PROVE  MemberTold(u, g)
    <2>1. queue'[u] = queue[u]
      BY <1>5, KeysApart
    <2> QED  BY <1>2, <2>1 DEF MemberTold
  <1>8. ASSUME NEW q \in Projects
        PROVE  ProjectTold(q) /\ GroupsSettled(q)
    <2>1. \/ queue'[q] = queue[q]
          \/ q = p /\ project[p].enabled /\ \E e \in Tasks : /\ queue'[q] = Append(queue[q], e)
                                                             /\ e.msg.kind = "groups"
      BY <1>5 DEF Keys
    <2>t. ProjectTold(q)
      BY <1>p, <2>1 DEF ProjectTold
    <2>2. CASE q # p \/ gs = project[p].groups
      BY <1>p, <2>t, <2>2 DEF GroupsSettled
    <2>3. CASE q = p /\ ~project[p].enabled /\ queue[p] = <<>>
      BY <1>p, <2>t, <2>1, <2>3 DEF GroupsSettled
    <2> QED  BY <1>3, <2>2, <2>3
  <1> QED  BY <1>2, <1>5, <1>7, <1>8 DEF Told

-----------------------------------------------------------------------------
(* Receiving, giving up and finishing a task.                                *)

\* What is to come stays to come, when the tables and the views stay.
LEMMA SameTablesGrants ==
    ASSUME GrantInv, UNCHANGED <<tables, views>>, Owned', LastTasks',
           \A p \in Projects, g \in Groups :
               WillLink("enable", p, g) => WillLink("enable", p, g)',
           \A p \in Projects, g \in Groups, u \in Users :
               /\ WillReach("enable", p, g, u) => WillReach("enable", p, g, u)'
               /\ WillWrite("add", u, g, p) => WillWrite("add", u, g, p)'
    PROVE  GrantInv'
  <1> USE DEF GrantInv
  <1>1. UNCHANGED <<member, project, linked, access>>
    BY DEF tables, views
  <1>2. LinksComing'
    BY <1>1 DEF LinksComing
  <1>3. AccessComing'
    BY <1>1 DEF AccessComing
  <1> QED  BY <1>2, <1>3

\* A message group that has the same messages.
LEMMA SameLast ==
    ASSUME LastTasks, UNCHANGED tables, QueueType,
           \A k \in Keys : /\ Len(queue'[k]) = Len(queue[k])
                           /\ \A i \in 1..Len(queue[k]) : queue'[k][i].msg = queue[k][i].msg
    PROVE  LastTasks'
  <1>1. member' = member /\ project' = project
    BY DEF tables
  <1>2. ASSUME NEW k \in Keys, NEW S, NEW T, Followed(queue[k], S, T)
        PROVE  Followed(queue'[k], S, T)
    <2>1. Len(queue[k]) \in Nat
      BY DEF QueueType
    <2> QED  BY <1>2, <2>1, FollowedSame
  <1> QED  BY <1>1, <1>2 DEF LastTasks, Keys

\* The messages stay, and whoever executes the first of them has all to do or
\* executed it before.
LEMMA SameMessagesWill ==
    ASSUME NEW kind,
           \A k \in Keys : /\ Len(queue'[k]) = Len(queue[k])
                           /\ \A i \in 1..Len(queue[k]) : queue'[k][i].msg = queue[k][i].msg,
           \A k \in Keys : \A w \in On(k)' : \/ w \in On(k) /\ work'[w] = work[w]
                                             \/ work'[w].pc = "start"
    PROVE  /\ \A p \in Projects, g \in Groups :
                 WillLink(kind, p, g) => WillLink(kind, p, g)'
           /\ \A p \in Projects, g \in Groups, u \in Users :
                 /\ WillReach(kind, p, g, u) => WillReach(kind, p, g, u)'
                 /\ WillWrite(kind, u, g, p) => WillWrite(kind, u, g, p)'
  <1>1. \A k \in Keys : \A w \in On(k)' : \A g, u, p :
            /\ (\A v \in On(k) : WorkerLinks(v, g)) => WorkerLinks(w, g)'
            /\ (\A v \in On(k) : WorkerReaches(v, g, u)) => WorkerReaches(w, g, u)'
            /\ (\A v \in On(k) : WorkerWrites(v, p)) => WorkerWrites(w, p)'
    BY DEF WorkerLinks, WorkerReaches, WorkerWrites
  <1>2. ASSUME NEW p \in Projects, NEW g \in Groups, WillLink(kind, p, g)
        PROVE  WillLink(kind, p, g)'
    <2> p \in Keys
      BY DEF Keys
    <2> QED  BY <1>1, <1>2 DEF WillLink
  <1>3. ASSUME NEW p \in Projects, NEW g \in Groups, NEW u \in Users, WillReach(kind, p, g, u)
        PROVE  WillReach(kind, p, g, u)'
    <2> p \in Keys
      BY DEF Keys
    <2> QED  BY <1>1, <1>3 DEF WillReach
  <1>4. ASSUME NEW p \in Projects, NEW g \in Groups, NEW u \in Users, WillWrite(kind, u, g, p)
        PROVE  WillWrite(kind, u, g, p)'
    <2> u \in Keys
      BY DEF Keys
    <2> QED  BY <1>1, <1>4 DEF WillWrite
  <1> QED  BY <1>2, <1>3, <1>4

\* Owned names the only worker of a message group.
LEMMA OnlyWorker ==
    ASSUME Owned, NEW w \in Workers, work[w] # Idle
    PROVE  /\ On(Key(w)) = {w} /\ Holds(w) /\ Key(w) \in hidden
           /\ work[w].task = Head(queue[Key(w)]) /\ queue[Key(w)] # <<>>
  BY DEF Owned, On, Holds

\* A worker that gives its task up leaves it in the queue.
LEMMA StopShape ==
    ASSUME TypeOK, Owned, NEW w \in Workers, work[w] # Idle, Again(w),
           work' = [work EXCEPT ![w] = Idle], queue' = queue
    PROVE  /\ Owned'
           /\ \A k \in Keys : \A v \in On(k)' : v \in On(k) /\ work'[v] = work[v]
  <1>t. WorkType
    BY TypeParts
  <1>1. hidden' = hidden \ {Key(w)}
    BY OnlyWorker DEF Again
  <1>w. \A v \in Workers : work'[v] = IF v = w THEN Idle ELSE work[v]
    BY <1>t DEF WorkType
  <1>2. Owned'
    <2> SUFFICES ASSUME NEW v \in Workers, work'[v] # Idle
                 PROVE  /\ Holds(v)' /\ queue'[Key(v)'] # <<>>
                        /\ \A x \in Workers : work'[x] # Idle /\ Key(x)' = Key(v)' => x = v
      BY DEF Owned
    <2>1. v # w /\ work[v] # Idle /\ Key(v)' = Key(v)
      BY <1>w DEF Key
    <2>2. /\ Holds(v) /\ queue[Key(v)] # <<>> /\ Key(v) # Key(w)
          /\ \A x \in Workers : work[x] # Idle /\ Key(x) = Key(v) => x = v
      BY <2>1 DEF Owned
    <2>3. Holds(v)'
      BY <1>1, <1>w, <2>1, <2>2 DEF Holds
    <2> QED  BY <1>w, <2>1, <2>2, <2>3 DEF Key
  <1>3. \A k \in Keys : \A v \in On(k)' : v \in On(k) /\ work'[v] = work[v]
    BY <1>w DEF On, Key
  <1> QED  BY <1>2, <1>3

\* A worker that gives its task up: it is all to do again.
LEMMA StopGrants ==
    ASSUME TypeOK, GrantInv, NEW w \in Workers, work[w] # Idle, Again(w),
           work' = [work EXCEPT ![w] = Idle], queue' = queue, UNCHANGED <<tables, views>>
    PROVE  GrantInv'
  <1>1. /\ Owned'
        /\ \A k \in Keys : \A v \in On(k)' : v \in On(k) /\ work'[v] = work[v]
    BY StopShape DEF GrantInv
  <1>2. LastTasks'
    BY TypeParts, SameLast DEF GrantInv
  <1> QED  BY <1>1, <1>2, SameMessagesWill, SameTablesGrants

\* A worker that receives a task has all of it to do.
LEMMA ReceiveShape ==
    ASSUME TypeOK, Owned, NEW k \in Keys, NEW w \in Workers, Receive(k, w)
    PROVE  /\ Owned'
           /\ \A j \in Keys : /\ Len(queue'[j]) = Len(queue[j])
                             /\ \A i \in 1..Len(queue[j]) : queue'[j][i].msg = queue[j][i].msg
           /\ \A j \in Keys : \A v \in On(j)' : \/ v \in On(j) /\ work'[v] = work[v]
                                             \/ work'[v].pc = "start"
  <1>t. QueueType /\ SentType /\ WorkType
    BY TypeParts
  <1> DEFINE e == [Head(queue[k]) EXCEPT !.tries = @ + 1]
  <1>1. queue[k] \in Seq(Tasks) /\ queue[k] # <<>>
    BY <1>t, SentTasks DEF Receive
  <1>2. Head(queue[k]) = queue[k][1] /\ Len(queue[k]) \in Nat
    BY <1>1, HeadAndTail
  <1>3. queue'[k] = [queue[k] EXCEPT ![1] = e] /\ e.msg = Head(queue[k]).msg
    <2>1. Head(queue[k]) \in Tasks
      BY <1>1, HeadAndTail, Zenon
    <2>2. e.msg = Head(queue[k]).msg
      BY <2>1 DEF Tasks
    <2> QED  BY <1>1, <1>2, <1>t, <2>2 DEF Receive, QueueType
  <1>4. /\ Len(queue'[k]) = Len(queue[k]) /\ queue'[k] # <<>>
        /\ \A i \in 1..Len(queue[k]) : queue'[k][i].msg = queue[k][i].msg
    <2> HIDE DEF e
    <2> QED  BY <1>1, <1>2, <1>3
  <1>5. \A j \in Keys \ {k} : queue'[j] = queue[j]
    BY DEF Receive
  <1>w. /\ \A v \in Workers \ {w} : work'[v] = work[v]
        /\ work'[w] = [pc |-> "start", task |-> Head(queue'[k])] /\ work[w] = Idle
        /\ hidden' = hidden \cup {k} /\ k \notin hidden
    BY <1>t DEF Receive, WorkType
  <1>k. Key(w)' = k /\ work'[w] # Idle /\ Holds(w)'
    <2>1. Head(queue'[k]).msg.key = k
      <3>1. Head(queue[k]).msg.key = k
        BY <1>1, <1>2, <1>t DEF QueueType
      <3>2. Head(queue'[k]) = e
        <4> HIDE DEF e
        <4> QED  BY <1>1, <1>3
      <3> QED  BY <1>3, <3>1, <3>2
    <2> QED  BY <1>w, <2>1 DEF Key, Idle, Holds
  <1>6. \A v \in Workers : work[v] # Idle => Key(v) # k
    BY <1>w, OnlyWorker
  <1>7. Owned'
    <2> SUFFICES ASSUME NEW v \in Workers, work'[v] # Idle
                 PROVE  /\ Holds(v)' /\ queue'[Key(v)'] # <<>>
                        /\ \A x \in Workers : work'[x] # Idle /\ Key(x)' = Key(v)' => x = v
      BY DEF Owned
    <2>x. \A x \in Workers \ {w} : work'[x] # Idle => work[x] # Idle /\ Key(x)' = Key(x) /\ Key(x) # k
      BY <1>w, <1>6 DEF Key
    <2>1. CASE v = w
      BY <1>4, <1>k, <2>x, <2>1
    <2>2. CASE v # w
      <3>1. work[v] # Idle /\ Key(v)' = Key(v) /\ Key(v) # k /\ Key(v) \in Keys
        BY <2>2, <2>x, <1>t, WorkerTask
      <3>2. /\ Holds(v) /\ queue[Key(v)] # <<>>
            /\ \A x \in Workers : work[x] # Idle /\ Key(x) = Key(v) => x = v
        BY <3>1 DEF Owned
      <3>3. Holds(v)'
        BY <1>5, <1>w, <2>2, <3>1, <3>2 DEF Holds
      <3> QED  BY <1>5, <1>k, <2>x, <2>2, <3>1, <3>2, <3>3
    <2> QED  BY <2>1, <2>2
  <1>s. \A j \in Keys : /\ Len(queue'[j]) = Len(queue[j])
                        /\ \A i \in 1..Len(queue[j]) : queue'[j][i].msg = queue[j][i].msg
    BY <1>4, <1>5
  <1>8. \A j \in Keys : \A v \in On(j)' : \/ v \in On(j) /\ work'[v] = work[v]
                                          \/ work'[v].pc = "start"
    BY <1>w DEF On, Key
  <1> QED  BY <1>7, <1>8, <1>s

LEMMA ReceiveGrants ==
    ASSUME TypeOK, GrantInv, NEW k \in Keys, NEW w \in Workers, Receive(k, w)
    PROVE  GrantInv'
  <1>1. /\ Owned'
        /\ \A j \in Keys : /\ Len(queue'[j]) = Len(queue[j])
                          /\ \A i \in 1..Len(queue[j]) : queue'[j][i].msg = queue[j][i].msg
        /\ \A j \in Keys : \A v \in On(j)' : \/ v \in On(j) /\ work'[v] = work[v]
                                          \/ work'[v].pc = "start"
    BY ReceiveShape DEF GrantInv
  <1>2. UNCHANGED <<tables, views>>
    BY DEF Receive
  <1>3. LastTasks'
    BY <1>1, <1>2, TypeParts, SameLast DEF GrantInv
  <1> QED  BY <1>1, <1>2, <1>3, SameMessagesWill, SameTablesGrants

\* The first task of k goes: the others are one place further ahead.
LEMMA Shifted ==
    ASSUME QueueType, NEW k \in Keys, queue[k] # <<>>, queue' = [queue EXCEPT ![k] = Tail(@)]
    PROVE  /\ \A j \in Keys \ {k} : queue'[j] = queue[j]
           /\ Len(queue[k]) \in Nat \ {0} /\ Len(queue'[k]) \in Nat
           /\ Len(queue'[k]) = Len(queue[k]) - 1
           /\ \A i \in 1..Len(queue'[k]) : i + 1 \in 1..Len(queue[k]) /\ queue'[k][i] = queue[k][i + 1]
           /\ \A i \in 1..Len(queue[k]) :
                 i = 1 \/ (i - 1 \in 1..Len(queue'[k]) /\ queue'[k][i - 1] = queue[k][i])
  <1>1. queue[k] \in Seq(Tasks) /\ queue'[k] = Tail(queue[k])
    BY DEF QueueType
  <1>2. \A j \in Keys \ {k} : queue'[j] = queue[j]
    BY DEF QueueType
  <1>3. PICK s, t : /\ s \in Seq(Tasks) /\ s = queue[k] /\ t = queue'[k]
                    /\ s # <<>> /\ t = Tail(s)
    BY <1>1
  <1>4. /\ Len(s) \in Nat \ {0} /\ Len(t) \in Nat /\ Len(t) = Len(s) - 1
        /\ \A i \in 1..Len(t) : i + 1 \in 1..Len(s) /\ t[i] = s[i + 1]
        /\ \A i \in 1..Len(s) : i = 1 \/ (i - 1 \in 1..Len(t) /\ t[i - 1] = s[i])
    BY <1>3, TailShift
  <1> QED  BY <1>2, <1>3, <1>4

LEMMA FinishOwned ==
    ASSUME TypeOK, Owned, NEW w \in Workers, Finish(w), NEW k, k = Key(w)
    PROVE  /\ Owned' /\ k \in Keys /\ queue[k] # <<>>
           /\ queue' = [queue EXCEPT ![k] = Tail(@)]
           /\ On(k) = {w} /\ On(k)' = {}
           /\ \A j \in Keys \ {k} : \A v \in On(j)' : v \in On(j) /\ work'[v] = work[v]
  <1>t. QueueType /\ WorkType
    BY TypeParts
  <1>1. work[w] # Idle
    BY DEF Finish, Idle
  <1>2. On(Key(w)) = {w} /\ Holds(w) /\ queue[Key(w)] # <<>> /\ Key(w) \in Keys
    BY <1>1, <1>t, OnlyWorker, WorkerTask
  <1>3. queue' = [queue EXCEPT ![Key(w)] = Tail(@)] /\ hidden' = hidden \ {Key(w)}
    BY <1>2 DEF Finish, FirstDeleted, Again
  <1>w. \A v \in Workers : work'[v] = IF v = w THEN Idle ELSE work[v]
    BY <1>t DEF WorkType, Finish
  <1>4. \A v \in Workers : work'[v] # Idle =>
            v # w /\ work[v] # Idle /\ Key(v)' = Key(v) /\ Key(v) # Key(w) /\ Key(v) \in Keys
    <2> SUFFICES ASSUME NEW v \in Workers, work'[v] # Idle
                 PROVE  /\ v # w /\ work[v] # Idle /\ Key(v)' = Key(v)
                        /\ Key(v) # Key(w) /\ Key(v) \in Keys
      OBVIOUS
    <2>1. v # w /\ work[v] # Idle /\ Key(v)' = Key(v)
      BY <1>w DEF Key
    <2> QED  BY <2>1, <1>1, <1>t, WorkerTask DEF Owned
  <1>5. On(k)' = {}
    BY <1>4 DEF On
  <1>6. \A j \in Keys \ {k} : \A v \in On(j)' : v \in On(j) /\ work'[v] = work[v]
    BY <1>4, <1>w DEF On
  <1>7. Owned'
    <2> SUFFICES ASSUME NEW v \in Workers, work'[v] # Idle
                 PROVE  /\ Holds(v)' /\ queue'[Key(v)'] # <<>>
                        /\ \A x \in Workers : work'[x] # Idle /\ Key(x)' = Key(v)' => x = v
      BY DEF Owned
    <2>1. v # w /\ work[v] # Idle /\ Key(v)' = Key(v) /\ Key(v) # Key(w) /\ Key(v) \in Keys
      BY <1>4
    <2>2. /\ Holds(v) /\ queue[Key(v)] # <<>>
          /\ \A x \in Workers : work[x] # Idle /\ Key(x) = Key(v) => x = v
      BY <2>1 DEF Owned
    <2>3. queue'[Key(v)] = queue[Key(v)]
      BY <1>3, <2>1
    <2>4. Holds(v)'
      BY <1>3, <1>w, <2>1, <2>2, <2>3 DEF Holds
    <2> QED  BY <1>4, <2>1, <2>2, <2>3, <2>4
  <1> QED  BY <1>1, <1>2, <1>3, <1>5, <1>6, <1>7

\* A task that is done had nothing left to do.
LEMMA FinishWill ==
    ASSUME TypeOK, Owned, NEW w \in Workers, Finish(w), NEW kind, NEW k, k = Key(w)
    PROVE  /\ \A p \in Projects, g \in Groups :
                 WillLink(kind, p, g) => WillLink(kind, p, g)'
           /\ \A p \in Projects, g \in Groups, u \in Users :
                 /\ WillReach(kind, p, g, u) => WillReach(kind, p, g, u)'
                 /\ WillWrite(kind, u, g, p) => WillWrite(kind, u, g, p)'
  <1>t. QueueType
    BY TypeParts
  <1>1. /\ k \in Keys /\ queue[k] # <<>> /\ queue' = [queue EXCEPT ![k] = Tail(@)]
        /\ On(k) = {w} /\ On(k)' = {}
    BY FinishOwned
  <1>2. \A j \in Keys \ {k} : \A v \in On(j)' : v \in On(j) /\ work'[v] = work[v]
    BY FinishOwned
  <1>3. /\ \A j \in Keys \ {k} : queue'[j] = queue[j]
        /\ \A i \in 1..Len(queue[k]) :
              i = 1 \/ (i - 1 \in 1..Len(queue'[k]) /\ queue'[k][i - 1] = queue[k][i])
    BY <1>1, <1>t, Shifted
  <1>4. work[w].pc = "done"
    BY DEF Finish
  <1>5. \A g, u, p : ~WorkerLinks(w, g) /\ ~WorkerReaches(w, g, u) /\ ~WorkerWrites(w, p)
    BY <1>4 DEF WorkerLinks, WorkerReaches, WorkerWrites
  <1>6. \A j \in Keys \ {k} : \A v \in On(j)' : \A g, u, p :
            /\ v \in On(j)
            /\ WorkerLinks(v, g)' = WorkerLinks(v, g)
            /\ WorkerReaches(v, g, u)' = WorkerReaches(v, g, u)
            /\ WorkerWrites(v, p)' = WorkerWrites(v, p)
    BY <1>2 DEF WorkerLinks, WorkerReaches, WorkerWrites
  <1>7. ASSUME NEW p \in Projects, NEW g \in Groups, WillLink(kind, p, g)
        PROVE  WillLink(kind, p, g)'
    <2>1. PICK i \in 1..Len(queue[p]) :
              queue[p][i].msg.kind = kind /\ (i = 1 => \A v \in On(p) : WorkerLinks(v, g))
      BY <1>7 DEF WillLink
    <2>2. CASE p = k
      <3>1. i # 1 /\ On(p)' = {}
        BY <1>1, <1>5, <2>1, <2>2
      <3>2. i - 1 \in 1..Len(queue'[p]) /\ queue'[p][i - 1] = queue[p][i]
        BY <1>3, <2>1, <2>2, <3>1
      <3> QED  BY <2>1, <3>1, <3>2 DEF WillLink
    <2>3. CASE p # k
      BY <1>3, <1>6, <2>1, <2>3 DEF WillLink, Keys
    <2> QED  BY <2>2, <2>3
  <1>8. ASSUME NEW p \in Projects, NEW g \in Groups, NEW u \in Users, WillReach(kind, p, g, u)
        PROVE  WillReach(kind, p, g, u)'
    <2>1. PICK i \in 1..Len(queue[p]) :
              /\ queue[p][i].msg.kind = kind
              /\ i = 1 => \A v \in On(p) : WorkerReaches(v, g, u)
      BY <1>8 DEF WillReach
    <2>2. CASE p = k
      <3>1. i # 1 /\ On(p)' = {}
        BY <1>1, <1>5, <2>1, <2>2
      <3>2. i - 1 \in 1..Len(queue'[p]) /\ queue'[p][i - 1] = queue[p][i]
        BY <1>3, <2>1, <2>2, <3>1
      <3> QED  BY <2>1, <3>1, <3>2 DEF WillReach
    <2>3. CASE p # k
      <3>1. p \in Keys \ {k} /\ queue'[p] = queue[p]
        BY <1>3, <2>3 DEF Keys
      <3>2. i = 1 => \A v \in On(p)' : WorkerReaches(v, g, u)'
        BY <1>6, <2>1, <3>1
      <3> QED  BY <2>1, <3>1, <3>2 DEF WillReach
    <2> QED  BY <2>2, <2>3
  <1>9. ASSUME NEW p \in Projects, NEW g \in Groups, NEW u \in Users, WillWrite(kind, u, g, p)
        PROVE  WillWrite(kind, u, g, p)'
    <2>1. PICK i \in 1..Len(queue[u]) :
              /\ queue[u][i].msg = Message(kind, u, {g})
              /\ i = 1 => \A v \in On(u) : WorkerWrites(v, p)
      BY <1>9 DEF WillWrite
    <2>2. CASE u = k
      <3>1. i # 1
        BY <1>1, <1>5, <2>1, <2>2
      <3>2. i - 1 \in 1..Len(queue'[u]) /\ queue'[u][i - 1] = queue[u][i]
        BY <1>3, <2>2, <3>1
      <3>3. queue'[u][i - 1].msg = Message(kind, u, {g}) /\ On(u)' = {}
        BY <1>1, <2>1, <2>2, <3>2
      <3> QED  BY <3>2, <3>3 DEF WillWrite
    <2>3. CASE u # k
      BY <1>3, <1>6, <2>1, <2>3 DEF WillWrite, Keys
    <2> QED  BY <2>2, <2>3
  <1> QED  BY <1>7, <1>8, <1>9

LEMMA FinishGrants ==
    ASSUME TypeOK, GrantInv, NEW w \in Workers, Finish(w)
    PROVE  GrantInv'
  <1>k. PICK k : k = Key(w)
    OBVIOUS
  <1>t. QueueType
    BY TypeParts
  <1>1. Owned' /\ k \in Keys /\ queue[k] # <<>> /\ queue' = [queue EXCEPT ![k] = Tail(@)]
    BY <1>k, FinishOwned DEF GrantInv
  <1>2. UNCHANGED <<tables, views>> /\ member' = member /\ project' = project
    BY DEF Finish, tables
  <1>3. ASSUME NEW j \in Keys, NEW S, NEW T, Followed(queue[j], S, T)
        PROVE  Followed(queue'[j], S, T)
    <2>1. queue[j] \in Seq(Tasks) /\ queue'[j] = IF j = k THEN Tail(queue[j]) ELSE queue[j]
      BY <1>1, <1>t DEF QueueType
    <2> QED  BY <1>1, <1>3, <2>1, FollowedTail
  <1>4. LastTasks'
    BY <1>2, <1>3 DEF GrantInv, LastTasks, Keys
  <1>5. /\ \A p \in Projects, g \in Groups :
              WillLink("enable", p, g) => WillLink("enable", p, g)'
        /\ \A p \in Projects, g \in Groups, u \in Users :
              /\ WillReach("enable", p, g, u) => WillReach("enable", p, g, u)'
              /\ WillWrite("add", u, g, p) => WillWrite("add", u, g, p)'
    BY <1>k, FinishWill DEF GrantInv
  <1> QED  BY <1>1, <1>2, <1>4, <1>5, SameTablesGrants

-----------------------------------------------------------------------------
(* The steps of a task.                                                      *)

\* A worker that goes on with its task keeps it, and the queue stays.
LEMMA StepShape ==
    ASSUME WorkType, Owned, NEW w \in Workers, work[w] # Idle,
           NEW next, Step(w, next), next # Idle, next.task = work[w].task
    PROVE  /\ work'[w] = next /\ \A v \in Workers \ {w} : work'[v] = work[v]
           /\ UNCHANGED <<group, member, project, queue, hidden>>
           /\ \A k : On(k)' = On(k)
           /\ Owned'
  <1>1. work'[w] = next /\ \A v \in Workers \ {w} : work'[v] = work[v]
    BY DEF Step, WorkType
  <1>2. UNCHANGED <<group, member, project, queue, hidden>>
    BY DEF Step, tables
  <1>3. \A v \in Workers : /\ work'[v] # Idle <=> work[v] # Idle
                           /\ Key(v)' = Key(v) /\ Holds(v)' = Holds(v)
    BY <1>1, <1>2 DEF Key, Holds
  <1>4. \A k : On(k)' = On(k)
    BY <1>3 DEF On
  <1>5. Owned'
    BY <1>2, <1>3 DEF Owned
  <1> QED  BY <1>1, <1>2, <1>4, <1>5

\* What was to come stays to come, but for what the worker does now.
LEMMA StepWill ==
    ASSUME WorkType, Owned, NEW w \in Workers, work[w] # Idle,
           NEW next, Step(w, next), next # Idle, next.task = work[w].task,
           NEW kind, NEW k, k = Key(w)
    PROVE  /\ \A p \in Projects, g \in Groups : WillLink(kind, p, g) =>
                 \/ WillLink(kind, p, g)'
                 \/ /\ p = k /\ work[w].task.msg.kind = kind
                    /\ WorkerLinks(w, g) /\ ~WorkerLinks(w, g)'
           /\ \A p \in Projects, g \in Groups, u \in Users : WillReach(kind, p, g, u) =>
                 \/ WillReach(kind, p, g, u)'
                 \/ /\ p = k /\ work[w].task.msg.kind = kind
                    /\ WorkerReaches(w, g, u) /\ ~WorkerReaches(w, g, u)'
  <1>1. /\ \A v \in Workers \ {w} : work'[v] = work[v]
        /\ queue' = queue /\ \A j : On(j)' = On(j)
    BY StepShape
  <1>2. On(k) = {w} /\ work[w].task = Head(queue[k]) /\ Head(queue[k]) = queue[k][1]
    BY OnlyWorker
  <1>3. \A j : j # k => w \notin On(j)
    BY DEF On
  <1>4. \A v \in Workers \ {w} : \A g, u, p :
            /\ WorkerLinks(v, g)' = WorkerLinks(v, g)
            /\ WorkerReaches(v, g, u)' = WorkerReaches(v, g, u)
            /\ WorkerWrites(v, p)' = WorkerWrites(v, p)
    BY <1>1 DEF WorkerLinks, WorkerReaches, WorkerWrites
  <1>5. \A j : On(j) \subseteq Workers
    BY DEF On
  <1>6. ASSUME NEW p \in Projects, NEW g \in Groups, WillLink(kind, p, g)
        PROVE  \/ WillLink(kind, p, g)'
               \/ /\ p = k /\ work[w].task.msg.kind = kind
                  /\ WorkerLinks(w, g) /\ ~WorkerLinks(w, g)'
    <2>1. PICK i \in 1..Len(queue[p]) :
              queue[p][i].msg.kind = kind /\ (i = 1 => \A v \in On(p) : WorkerLinks(v, g))
      BY <1>6 DEF WillLink
    <2>2. (i = 1 => \A v \in On(p)' : WorkerLinks(v, g)') => WillLink(kind, p, g)'
      BY <1>1, <2>1 DEF WillLink
    <2>3. CASE p = k
      BY <1>1, <1>2, <2>1, <2>2, <2>3
    <2>4. CASE p # k
      BY <1>1, <1>3, <1>4, <1>5, <2>1, <2>2, <2>4
    <2> QED  BY <2>3, <2>4
  <1>7. ASSUME NEW p \in Projects, NEW g \in Groups, NEW u \in Users, WillReach(kind, p, g, u)
        PROVE  \/ WillReach(kind, p, g, u)'
               \/ /\ p = k /\ work[w].task.msg.kind = kind
                  /\ WorkerReaches(w, g, u) /\ ~WorkerReaches(w, g, u)'
    <2>1. PICK i \in 1..Len(queue[p]) :
              /\ queue[p][i].msg.kind = kind
              /\ i = 1 => \A v \in On(p) : WorkerReaches(v, g, u)
      BY <1>7 DEF WillReach
    <2>2. (i = 1 => \A v \in On(p)' : WorkerReaches(v, g, u)') => WillReach(kind, p, g, u)'
      BY <1>1, <2>1 DEF WillReach
    <2>3. CASE p = k
      BY <1>1, <1>2, <2>1, <2>2, <2>3
    <2>4. CASE p # k
      BY <1>1, <1>3, <1>4, <1>5, <2>1, <2>2, <2>4
    <2> QED  BY <2>3, <2>4
  <1> QED  BY <1>6, <1>7

\* A task that links a group reaches its members.
LEMMA LinkReaches ==
    ASSUME NEW kind, NEW p, NEW g, NEW u, WillLink(kind, p, g)
    PROVE  WillReach(kind, p, g, u)
  BY DEF WillLink, WillReach, WorkerReaches

\* A task that is not for what the tables say has one that is behind it.
LEMMA LaterWrite ==
    ASSUME QueueType, NEW u \in Users, NEW g, NEW kind, NEW other,
           Followed(queue[u], About(other, u, g), About(kind, u, g)),
           queue[u] # <<>>, Head(queue[u]).msg = Message(other, u, {g})
    PROVE  \A p : WillWrite(kind, u, g, p)
  <1>1. queue[u] \in Seq(Tasks)
    BY DEF QueueType, Keys
  <1>2. PICK j \in 1..Len(queue[u]) : j # 1 /\ queue[u][j].msg \in About(kind, u, g)
    <2>1. Head(queue[u]).msg \in About(other, u, g)
      BY DEF About
    <2> QED  BY <1>1, <2>1, FollowedHead
  <1> QED  BY <1>2 DEF WillWrite, About

LEMMA LaterLink ==
    ASSUME QueueType, NEW p \in Projects, NEW kind, NEW other,
           Followed(queue[p], Kind(other), Kind(kind)),
           queue[p] # <<>>, Head(queue[p]).msg.kind = other
    PROVE  \A g, u : WillLink(kind, p, g) /\ WillReach(kind, p, g, u)
  <1>1. queue[p] \in Seq(Tasks)
    BY DEF QueueType, Keys
  <1>2. PICK j \in 1..Len(queue[p]) : j # 1 /\ queue[p][j].msg \in Kind(kind)
    <2>1. Head(queue[p]) \in Tasks
      BY <1>1, HeadAndTail, Zenon
    <2>2. Head(queue[p]).msg \in Kind(other)
      BY <2>1 DEF Kind, Tasks, Messages
    <2> QED  BY <1>1, <2>2, FollowedHead
  <1> QED  BY <1>2 DEF WillLink, WillReach, Kind

\* A step of a task keeps what the queue says.
LEMMA StepGrants ==
    ASSUME WorkType, QueueType, GrantInv, NEW w \in Workers, work[w] # Idle,
           NEW next, Step(w, next), next # Idle, next.task = work[w].task
    PROVE  /\ Owned' /\ LastTasks' /\ QueueType'
           /\ member' = member /\ project' = project /\ queue' = queue
  <1>1. Owned' /\ UNCHANGED <<member, project, queue, hidden>>
    BY StepShape DEF GrantInv
  <1>2. LastTasks'
    BY <1>1 DEF GrantInv, LastTasks
  <1>3. QueueType'
    BY <1>1 DEF QueueType
  <1> QED  BY <1>1, <1>2, <1>3

LEMMA StepWrites ==
    ASSUME WorkType, Owned, NEW w \in Workers, work[w] # Idle,
           NEW next, Step(w, next), next # Idle, next.task = work[w].task,
           NEW kind, NEW u \in Users, NEW g \in Groups, NEW p \in Projects,
           WillWrite(kind, u, g, p), ~WillWrite(kind, u, g, p)'
    PROVE  /\ u = Key(w) /\ work[w].task.msg = Message(kind, u, {g})
           /\ WorkerWrites(w, p) /\ ~WorkerWrites(w, p)'
  <1>1. /\ \A v \in Workers \ {w} : work'[v] = work[v]
        /\ queue' = queue /\ \A j : On(j)' = On(j)
    BY StepShape
  <1>2. PICK i \in 1..Len(queue[u]) :
            /\ queue[u][i].msg = Message(kind, u, {g})
            /\ i = 1 => \A v \in On(u) : WorkerWrites(v, p)
    BY DEF WillWrite
  <1>3. i = 1 /\ \E v \in On(u) : ~WorkerWrites(v, p)'
    BY <1>1, <1>2 DEF WillWrite
  <1>4. PICK v \in Workers : /\ work[v] # Idle /\ Key(v) = u
                             /\ WorkerWrites(v, p) /\ ~WorkerWrites(v, p)'
    BY <1>2, <1>3 DEF On
  <1>5. v = w
    BY <1>1, <1>4 DEF WorkerWrites
  <1>6. work[w].task = queue[u][1]
    BY <1>4, <1>5, OnlyWorker
  <1> QED  BY <1>2, <1>3, <1>4, <1>5, <1>6

\* A step of a task about a user leaves to the projects' tasks what they will do.
LEMMA UserStepWill ==
    ASSUME WorkType, Owned, NEW w \in Workers, work[w] # Idle, Key(w) \in Users,
           NEW next, Step(w, next), next # Idle, next.task = work[w].task, NEW kind
    PROVE  /\ \A p \in Projects, g \in Groups : WillLink(kind, p, g) => WillLink(kind, p, g)'
           /\ \A p \in Projects, g \in Groups, u \in Users :
                 WillReach(kind, p, g, u) => WillReach(kind, p, g, u)'
  <1>1. PICK k \in Users : k = Key(w)
    OBVIOUS
  <1>2. \A p \in Projects : p # k
    BY KeysApart
  <1>3. \A p \in Projects, g \in Groups :
            WillLink(kind, p, g) => WillLink(kind, p, g)' \/ p = k
    BY <1>1, StepWill
  <1>4. \A p \in Projects, g \in Groups, u \in Users :
            WillReach(kind, p, g, u) => WillReach(kind, p, g, u)' \/ p = k
    BY <1>1, StepWill
  <1> QED  BY <1>2, <1>3, <1>4

\* A task about a member that begins has all of it to do.
LEMMA MemberTaskStarts ==
    ASSUME TypeOK, lost' \subseteq {"raced"}, NEW w \in Workers, MemberTask(w)
    PROVE  /\ work[w] # Idle /\ work[w].pc = "start" /\ Key(w) \in Users
           /\ Step(w, [pc |-> "enrol", task |-> work[w].task]) /\ UNCHANGED views
  <1>1. work[w] # Idle /\ work[w].pc = "start" /\ Key(w) \in Users
    BY MemberMessage, TypeParts DEF MemberTask, At
  <1>2. group[GroupOf(w)] = "on"
    <2> SUFFICES ASSUME group[GroupOf(w)] # "on" PROVE FALSE
      OBVIOUS
    <2>1. Note({"off"})
      BY DEF MemberTask
    <2>2. {"off"} \subseteq {"raced"}
      BY <2>1, NoteClean
    <2> QED  BY <2>2
  <1> QED  BY <1>1, <1>2 DEF MemberTask

\* A step of a task about a user that writes nothing and has still all to do.
LEMMA MemberTaskGrants ==
    ASSUME TypeOK, GrantInv, lost' \subseteq {"raced"}, NEW w \in Workers, MemberTask(w)
    PROVE  GrantInv'
  <1>t. QueueType /\ WorkType
    BY TypeParts
  <1>1. /\ work[w] # Idle /\ Key(w) \in Users
        /\ Step(w, [pc |-> "enrol", task |-> work[w].task]) /\ UNCHANGED views
    BY MemberTaskStarts
  <1>2. PICK next : next = [pc |-> "enrol", task |-> work[w].task] /\ Step(w, next)
    BY <1>1
  <1>3. next # Idle /\ next.task = work[w].task
    BY <1>2 DEF Idle
  <1>4. /\ Owned' /\ LastTasks'
        /\ member' = member /\ project' = project
    BY <1>t, <1>1, <1>2, <1>3, StepGrants
  <1>5. \A p : WorkerWrites(w, p)'
    <2>1. work'[w] = next
      BY <1>t, <1>1, <1>2, <1>3, StepShape DEF GrantInv
    <2> QED  BY <1>2, <2>1 DEF WorkerWrites
  <1>6. \A p \in Projects, g \in Groups, u \in Users :
            /\ WillLink("enable", p, g) => WillLink("enable", p, g)'
            /\ WillReach("enable", p, g, u) => WillReach("enable", p, g, u)'
    BY <1>t, <1>1, <1>2, <1>3, UserStepWill DEF GrantInv
  <1>7. \A p \in Projects, g \in Groups, u \in Users :
            WillWrite("add", u, g, p) => WillWrite("add", u, g, p)'
    BY <1>t, <1>1, <1>2, <1>3, <1>5, StepWrites DEF GrantInv
  <1>8. LinksComing'
    BY <1>1, <1>4, <1>6 DEF GrantInv, LinksComing, views
  <1>9. AccessComing'
    BY <1>1, <1>4, <1>6, <1>7 DEF GrantInv, AccessComing, views
  <1> QED  BY <1>4, <1>8, <1>9 DEF GrantInv

\* The projects that a task about a member reads are the ones that the table links,
\* and another one's task will read the members.
LEMMA MemberEnrolsGrants ==
    ASSUME TypeOK, GrantInv, NEW w \in Workers, MemberEnrols(w)
    PROVE  GrantInv'
  <1>t. QueueType /\ WorkType
    BY TypeParts
  <1>1. work[w] # Idle /\ Key(w) \in Users /\ GroupOf(w) \in Groups
    BY <1>t, MemberMessage DEF MemberEnrols
  <1>k. PICK k \in Users : k = Key(w)
    BY <1>1
  <1>3. PICK next : /\ next = [pc |-> "write", task |-> work[w].task,
                       projects |-> {p \in Projects : <<GroupOf(w), p>> \in linked}]
                    /\ Step(w, next) /\ UNCHANGED views
    BY DEF MemberEnrols
  <1>4. next # Idle /\ next.task = work[w].task
    BY <1>3 DEF Idle
  <1>5. /\ Owned' /\ LastTasks'
        /\ member' = member /\ project' = project
    BY <1>t, <1>1, <1>3, <1>4, StepGrants
  <1>6. work'[w] = next
    BY <1>t, <1>1, <1>3, <1>4, StepShape DEF GrantInv
  <1>o. Owned
    BY DEF GrantInv
  <1>7. \A p \in Projects : <<GroupOf(w), p>> \in linked => WorkerWrites(w, p)'
    BY <1>3, <1>6 DEF WorkerWrites
  <1>8. \A p \in Projects, g \in Groups, u \in Users :
            /\ WillLink("enable", p, g) => WillLink("enable", p, g)'
            /\ WillReach("enable", p, g, u) => WillReach("enable", p, g, u)'
    BY <1>t, <1>1, <1>3, <1>4, UserStepWill DEF GrantInv
  <1>9. LinksComing'
    BY <1>3, <1>5, <1>8 DEF GrantInv, LinksComing, views
  <1>10. AccessComing'
    <2> SUFFICES ASSUME NEW p \in Projects, NEW g \in Groups, NEW u \in Users,
                        project[p].enabled, g \in project[p].groups, <<g, u>> \in member
                 PROVE  \/ <<u, p>> \in access
                        \/ WillWrite("add", u, g, p)'
                        \/ WillReach("enable", p, g, u)'
      BY <1>3, <1>5 DEF AccessComing, views
    <2>1. \/ <<u, p>> \in access \/ WillWrite("add", u, g, p) \/ WillReach("enable", p, g, u)
      BY DEF GrantInv, AccessComing
    <2>2. CASE WillWrite("add", u, g, p)
      <3>1. ASSUME ~WillWrite("add", u, g, p)'
            PROVE  work[w].task.msg = Message("add", u, {g}) /\ ~WorkerWrites(w, p)'
        <4>1. Step(w, next)
          BY <1>3
        <4> QED  BY <2>2, <3>1, <4>1, <1>t, <1>1, <1>4, <1>o, StepWrites
      <3>2. ASSUME work[w].task.msg = Message("add", u, {g}), ~WorkerWrites(w, p)'
            PROVE  WillReach("enable", p, g, u)
        <4>1. GroupOf(w) = g
          BY <3>2, MessageFields DEF GroupOf
        <4>2. WillLink("enable", p, g)
          BY <1>7, <3>2, <4>1 DEF GrantInv, LinksComing
        <4> QED  BY <4>2, LinkReaches
      <3> QED  BY <1>8, <3>1, <3>2
    <2> QED  BY <1>8, <2>1, <2>2
  <1> QED  BY <1>5, <1>9, <1>10 DEF GrantInv

\* A task takes away only what another task will give back.
LEMMA MemberWriteGrants ==
    ASSUME TypeOK, GrantInv, lost' \subseteq {"raced"}, NEW w \in Workers, MemberWrite(w)
    PROVE  GrantInv'
  <1>t. QueueType /\ WorkType
    BY TypeParts
  <1>1. /\ work[w] # Idle /\ Key(w) \in Users /\ GroupOf(w) \in Groups
        /\ work[w].task.msg.groups = {GroupOf(w)}
    BY <1>t, MemberMessage DEF MemberWrite
  <1>k. PICK k \in Users : k = Key(w)
    BY <1>1
  <1>2. PICK next : next = [pc |-> "done", task |-> work[w].task] /\ Step(w, next)
    BY DEF MemberWrite
  <1>3. next # Idle /\ next.task = work[w].task
    BY <1>2 DEF Idle
  <1>4. /\ Owned' /\ LastTasks'
        /\ member' = member /\ project' = project /\ queue' = queue
    BY <1>t, <1>1, <1>2, <1>3, StepGrants
  <1>5. /\ linked' = linked
        /\ work[w].pc = "write" /\ work[w].task.msg.kind \in {"add", "remove"}
        /\ access' = IF work[w].task.msg.kind = "add"
                     THEN access \cup ({k} \X work[w].projects)
                     ELSE access \ ({k} \X work[w].projects)
    BY <1>k DEF MemberWrite, At
  <1>6. \A p \in Projects, g \in Groups, u \in Users :
            /\ WillLink("enable", p, g) => WillLink("enable", p, g)'
            /\ WillReach("enable", p, g, u) => WillReach("enable", p, g, u)'
    BY <1>t, <1>1, <1>2, <1>3, UserStepWill DEF GrantInv
  <1>7. LinksComing'
    BY <1>4, <1>5, <1>6 DEF GrantInv, LinksComing
  <1>8. work[w].task.msg.kind = "remove" => ~Shared(w)
    <2> SUFFICES ASSUME work[w].task.msg.kind = "remove", Shared(w) PROVE FALSE
      OBVIOUS
    <2>1. Note({"shared"})
      BY DEF MemberWrite
    <2>2. {"shared"} \subseteq {"raced"}
      BY <2>1, SummaryType DEF Note
    <2> QED  BY <2>2
  <1>9. work[w].task = Head(queue[k]) /\ queue[k] # <<>>
    BY <1>1, <1>k, OnlyWorker DEF GrantInv
  <1>10. AccessComing'
    <2> SUFFICES ASSUME NEW p \in Projects, NEW g \in Groups, NEW u \in Users,
                        project[p].enabled, g \in project[p].groups, <<g, u>> \in member
                 PROVE  \/ <<u, p>> \in access'
                        \/ WillWrite("add", u, g, p)'
                        \/ WillReach("enable", p, g, u)'
      BY <1>4 DEF AccessComing
    <2>1. \/ <<u, p>> \in access \/ WillWrite("add", u, g, p) \/ WillReach("enable", p, g, u)
      BY DEF GrantInv, AccessComing
    <2>w. ASSUME WillWrite("add", u, g, p), ~WillWrite("add", u, g, p)'
          PROVE  /\ u = k /\ work[w].task.msg = Message("add", u, {g})
                 /\ WorkerWrites(w, p)
      BY <2>w, <1>t, <1>1, <1>2, <1>3, <1>k, StepWrites DEF GrantInv
    <2>2. CASE WillWrite("add", u, g, p)
      <3>1. ASSUME u = k, work[w].task.msg = Message("add", u, {g}), WorkerWrites(w, p)
            PROVE  <<u, p>> \in access'
        <4>1. work[w].task.msg.kind = "add" /\ p \in work[w].projects
          BY <1>5, <3>1, MessageFields DEF WorkerWrites
        <4> QED  BY <1>5, <3>1, <4>1
      <3> QED  BY <2>w, <2>2, <3>1
    <2>3. CASE <<u, p>> \in access /\ <<u, p>> \notin access'
      <3>1. u = k /\ p \in work[w].projects /\ work[w].task.msg.kind = "remove"
        BY <1>5, <2>3
      <3>2. g = GroupOf(w)
        BY <1>8, <1>k, <3>1 DEF Shared, MembersOf
      <3>3. work[w].task.msg = Message("remove", u, {g})
        BY <1>t, <1>k, <3>1, <3>2, MemberTaskMessage DEF MemberWrite
      <3>4. WillWrite("add", u, g, p)
        <4>1. Followed(queue[u], About("remove", u, g), About("add", u, g))
          BY DEF GrantInv, LastTasks
        <4> QED  BY <1>t, <1>9, <3>1, <3>3, <4>1, LaterWrite
      <3> QED  BY <2>w, <3>1, <3>3, <3>4, <2>2
    <2> QED  BY <1>6, <2>1, <2>2, <2>3
  <1> QED  BY <1>4, <1>7, <1>10 DEF GrantInv

\* A step of a task about a project: what it takes away, disabling the project, the
\* task that enabled it since will give back, and what it no longer has to do it did.
LEMMA ProjectStepGrants ==
    ASSUME TypeOK, GrantInv, NEW w \in Workers, work[w] # Idle,
           NEW p \in Projects, p = Key(w),
           NEW next, Step(w, next), next # Idle, next.task = work[w].task,
           \A g \in Groups, q \in Projects :
               <<g, q>> \in linked =>
                   <<g, q>> \in linked' \/ (q = p /\ work[w].task.msg.kind = "disable"),
           \A u \in Users, q \in Projects :
               <<u, q>> \in access =>
                   <<u, q>> \in access' \/ (q = p /\ work[w].task.msg.kind = "disable"),
           \A g \in Groups : work[w].task.msg.kind = "enable" /\ WorkerLinks(w, g) =>
               WorkerLinks(w, g)' \/ g \notin project[p].groups \/ <<g, p>> \in linked',
           \A g \in Groups, u \in Users :
               work[w].task.msg.kind = "enable" /\ <<g, u>> \in member /\ WorkerReaches(w, g, u) =>
                   WorkerReaches(w, g, u)' \/ g \notin project[p].groups \/ <<u, p>> \in access'
    PROVE  GrantInv'
  <1>t. QueueType /\ WorkType /\ TablesType
    BY TypeParts
  <1>1. /\ Owned' /\ LastTasks' /\ QueueType'
        /\ member' = member /\ project' = project /\ queue' = queue
    BY <1>t, StepGrants
  <1>2. work[w].task = Head(queue[p]) /\ queue[p] # <<>>
    BY OnlyWorker DEF GrantInv
  <1>l. \A q \in Projects, g \in Groups : WillLink("enable", q, g) =>
            \/ WillLink("enable", q, g)'
            \/ /\ q = p /\ work[w].task.msg.kind = "enable"
               /\ WorkerLinks(w, g) /\ ~WorkerLinks(w, g)'
    BY <1>t, StepWill DEF GrantInv
  <1>r. \A q \in Projects, g \in Groups, u \in Users : WillReach("enable", q, g, u) =>
            \/ WillReach("enable", q, g, u)'
            \/ /\ q = p /\ work[w].task.msg.kind = "enable"
               /\ WorkerReaches(w, g, u) /\ ~WorkerReaches(w, g, u)'
    BY <1>t, StepWill DEF GrantInv
  <1>d. ASSUME project[p].enabled, work[w].task.msg.kind = "disable",
               NEW g \in Groups, NEW u
        PROVE  WillLink("enable", p, g)' /\ WillReach("enable", p, g, u)'
    <2>1. WillLink("enable", p, g) /\ WillReach("enable", p, g, u)
      <3>1. Followed(queue[p], Kind("disable"), Kind("enable"))
        BY <1>d DEF GrantInv, LastTasks
      <3> QED  BY <1>t, <1>2, <1>d, <3>1, LaterLink
    <2>2. WillLink("enable", p, g)'
      BY <1>l, <1>d, <2>1
    <2> QED  BY <2>2, LinkReaches DEF WillLink, WillReach, WorkerReaches
  <1>3. LinksComing'
    <2> SUFFICES ASSUME NEW q \in Projects, NEW g \in Groups,
                        project[q].enabled, g \in project[q].groups
                 PROVE  <<g, q>> \in linked' \/ WillLink("enable", q, g)'
      BY <1>1 DEF LinksComing
    <2>1. CASE <<g, q>> \in linked
      BY <1>d, <2>1
    <2>2. CASE WillLink("enable", q, g)
      BY <1>l, <2>2
    <2> QED  BY <2>1, <2>2 DEF GrantInv, LinksComing
  <1>4. AccessComing'
    <2> SUFFICES ASSUME NEW q \in Projects, NEW g \in Groups, NEW u \in Users,
                        project[q].enabled, g \in project[q].groups, <<g, u>> \in member
                 PROVE  \/ <<u, q>> \in access'
                        \/ WillWrite("add", u, g, q)'
                        \/ WillReach("enable", q, g, u)'
      BY <1>1 DEF AccessComing
    <2>1. CASE <<u, q>> \in access
      BY <1>d, <2>1
    <2>2. CASE WillReach("enable", q, g, u)
      BY <1>r, <2>2
    <2>3. CASE WillWrite("add", u, g, q)
      <3>1. u # Key(w)
        BY KeysApart
      <3> QED  BY <1>t, <2>3, <3>1, StepWrites DEF GrantInv
    <2> QED  BY <2>1, <2>2, <2>3 DEF GrantInv, AccessComing
  <1> QED  BY <1>1, <1>3, <1>4 DEF GrantInv

LEMMA ProjectTaskGrants ==
    ASSUME TypeOK, GrantInv, NEW w \in Workers,
           \/ ProjectTask(w) \/ GroupsTask(w) \/ ProjectMembers(w) \/ ProjectWrite(w)
           \/ ProjectDone(w) \/ \E g \in Groups : ProjectLink(w, g)
    PROVE  GrantInv'
  <1>t. WorkType
    BY TypeParts
  <1>1. work[w] # Idle /\ Key(w) \in Projects
    BY <1>t, ProjectMessage
       DEF ProjectTask, GroupsTask, ProjectMembers, ProjectWrite, ProjectDone, ProjectLink
  <1>p. PICK p \in Projects : p = Key(w)
    BY <1>1
  <1>2. CASE ProjectTask(w)
    <2>1. PICK next : /\ next = [pc |-> "link", task |-> work[w].task,
                                todo |-> project[p].groups]
                      /\ Step(w, next) /\ UNCHANGED views
      BY <1>2, <1>p DEF ProjectTask
    <2>2. next # Idle /\ next.task = work[w].task
      BY <2>1 DEF Idle
    <2>3. work'[w] = next
      BY <1>t, <1>1, <2>1, <2>2, StepShape DEF GrantInv
    <2>4. \A g \in project[p].groups : \A u : WorkerLinks(w, g)' /\ WorkerReaches(w, g, u)'
      BY <2>1, <2>3 DEF WorkerLinks, WorkerReaches
    <2> QED  BY <1>1, <1>p, <2>1, <2>2, <2>4, ProjectStepGrants DEF views
  <1>3. CASE GroupsTask(w)
    <2>1. PICK next : /\ next = [pc |-> "done", task |-> work[w].task]
                      /\ Step(w, next) /\ UNCHANGED views
      BY <1>3 DEF GroupsTask
    <2>2. next # Idle /\ next.task = work[w].task /\ work[w].task.msg.kind # "enable"
      BY <1>3, <2>1 DEF Idle, GroupsTask, At
    <2> QED  BY <1>1, <1>p, <2>1, <2>2, ProjectStepGrants DEF views
  <1>4. CASE ProjectMembers(w)
    <2>1. PICK next : /\ next = [pc |-> "users", task |-> work[w].task,
                                todo |-> work[w].todo, users |-> MembersOf(work[w].group)]
                      /\ Step(w, next) /\ UNCHANGED views
      BY <1>4 DEF ProjectMembers
    <2>2. next # Idle /\ next.task = work[w].task /\ work[w].pc = "list"
      BY <1>4, <2>1 DEF Idle, ProjectMembers, At
    <2>3. work'[w] = next
      BY <1>t, <1>1, <2>1, <2>2, StepShape DEF GrantInv
    <2>4. \A g \in Groups : WorkerLinks(w, g) => WorkerLinks(w, g)'
      BY <2>1, <2>2, <2>3 DEF WorkerLinks
    <2>5. \A g \in Groups, u \in Users :
              <<g, u>> \in member /\ WorkerReaches(w, g, u) => WorkerReaches(w, g, u)'
      <3> SUFFICES ASSUME NEW g \in Groups, NEW u \in Users, <<g, u>> \in member,
                          WorkerReaches(w, g, u)
                   PROVE  WorkerReaches(w, g, u)'
        OBVIOUS
      <3>1. CASE WorkerLinks(w, g)
        BY <2>4, <3>1 DEF WorkerReaches
      <3>2. CASE work[w].group = g
        BY <2>1, <2>3, <3>2 DEF WorkerReaches, MembersOf
      <3> QED  BY <2>2, <3>1, <3>2 DEF WorkerReaches
    <2> QED  BY <1>1, <1>p, <2>1, <2>2, <2>4, <2>5, ProjectStepGrants DEF views
  <1>5. CASE ProjectWrite(w)
    <2>1. PICK next : /\ next = [pc |-> "link", task |-> work[w].task, todo |-> work[w].todo]
                      /\ Step(w, next)
      BY <1>5 DEF ProjectWrite
    <2>2. /\ next # Idle /\ next.task = work[w].task /\ work[w].pc = "users"
          /\ work[w].task.msg.kind \in {"enable", "disable"}
      BY <1>5, <2>1 DEF Idle, ProjectWrite, At
    <2>3. work'[w] = next
      BY <1>t, <1>1, <2>1, <2>2, StepShape DEF GrantInv
    <2>4. /\ linked' = linked
          /\ access' = IF work[w].task.msg.kind = "enable"
                       THEN access \cup (work[w].users \X {p})
                       ELSE access \ (work[w].users \X {p})
      BY <1>5, <1>p DEF ProjectWrite
    <2>5. \A u \in Users, q \in Projects :
              <<u, q>> \in access =>
                  <<u, q>> \in access' \/ (q = p /\ work[w].task.msg.kind = "disable")
      BY <2>2, <2>4
    <2>6. \A g \in Groups : WorkerLinks(w, g) => WorkerLinks(w, g)'
      BY <2>1, <2>2, <2>3 DEF WorkerLinks
    <2>7. \A g \in Groups, u \in Users :
              work[w].task.msg.kind = "enable" /\ WorkerReaches(w, g, u) =>
                  WorkerReaches(w, g, u)' \/ <<u, p>> \in access'
      BY <2>2, <2>4, <2>6 DEF WorkerReaches
    <2> QED  BY <1>1, <1>p, <2>1, <2>2, <2>4, <2>5, <2>6, <2>7, ProjectStepGrants
  <1>6. CASE ProjectDone(w)
    <2>1. PICK next : /\ next = [pc |-> "done", task |-> work[w].task]
                      /\ Step(w, next) /\ UNCHANGED views
      BY <1>6 DEF ProjectDone
    <2>2. /\ next # Idle /\ next.task = work[w].task
          /\ work[w].pc = "link" /\ work[w].todo = {}
      BY <1>6, <2>1 DEF Idle, ProjectDone, At
    <2>3. \A g, u : ~WorkerLinks(w, g) /\ ~WorkerReaches(w, g, u)
      BY <2>2 DEF WorkerLinks, WorkerReaches
    <2> QED  BY <1>1, <1>p, <2>1, <2>2, <2>3, ProjectStepGrants DEF views
  <1>7. ASSUME NEW h \in Groups, ProjectLink(w, h)
        PROVE  GrantInv'
    <2>1. PICK next : /\ next = [pc |-> "list", task |-> work[w].task,
                                todo |-> work[w].todo \ {h}, group |-> h]
                      /\ Step(w, next)
      BY <1>7 DEF ProjectLink
    <2>2. /\ next # Idle /\ next.task = work[w].task /\ work[w].pc = "link"
          /\ work[w].task.msg.kind \in {"enable", "disable"}
      BY <1>7, <2>1 DEF Idle, ProjectLink, At
    <2>3. work'[w] = next
      BY <1>t, <1>1, <2>1, <2>2, StepShape DEF GrantInv
    <2>4. /\ access' = access
          /\ linked' = IF work[w].task.msg.kind = "enable"
                       THEN linked \cup {<<h, p>>} ELSE linked \ {<<h, p>>}
      BY <1>7, <1>p DEF ProjectLink
    <2>5. \A g \in Groups, q \in Projects :
              <<g, q>> \in linked =>
                  <<g, q>> \in linked' \/ (q = p /\ work[w].task.msg.kind = "disable")
      BY <2>2, <2>4
    <2>6. \A g \in Groups : WorkerLinks(w, g) => WorkerLinks(w, g)' \/ g = h
      BY <2>1, <2>2, <2>3 DEF WorkerLinks
    <2>7. \A g \in Groups, u \in Users : WorkerReaches(w, g, u) => WorkerReaches(w, g, u)'
      <3>1. \A u : WorkerReaches(w, h, u)'
        BY <2>1, <2>3 DEF WorkerReaches
      <3>2. \A g \in Groups, u \in Users : WorkerReaches(w, g, u) => WorkerLinks(w, g)
        BY <2>2 DEF WorkerReaches
      <3>3. \A g, u : WorkerLinks(w, g)' => WorkerReaches(w, g, u)'
        BY DEF WorkerReaches
      <3> QED  BY <2>6, <3>1, <3>2, <3>3
    <2>8. work[w].task.msg.kind = "enable" => <<h, p>> \in linked'
      BY <2>4
    <2> QED  BY <1>1, <1>p, <2>1, <2>2, <2>4, <2>5, <2>6, <2>7, <2>8, ProjectStepGrants
  <1> QED  BY <1>2, <1>3, <1>4, <1>5, <1>6, <1>7

-----------------------------------------------------------------------------
(* Grants arrive.                                                           *)

\* Which steps may keep a task from its effect, and say so.
LEMMA NotedSteps ==
    ASSUME [Next]_vars, lost' \subseteq {"raced"}
    PROVE  /\ lost \subseteq {"raced"}
           /\ \A k \in Keys : ~DeadLetter(k)
           /\ \A k \in Keys : \A i \in Unsent(k) :
                 /\ ~SendIsDropped(k, i) /\ ~SendFails(k, i)
                 /\ Send(k, i) => UNCHANGED <<queue, lost>>
           /\ \A w \in Workers : ~Expire(w) /\ ~MemberExists(w)
  <1>1. ASSUME NEW S, Note(S)
        PROVE  S \cap {"dead", "duplicate", "unsent", "overtaken", "late", "exists"} = {}
    <2>1. S \subseteq {"raced"}
      BY <1>1, NoteClean
    <2> QED  BY <2>1
  <1>2. \A k \in Keys : ~DeadLetter(k)
    BY <1>1 DEF DeadLetter
  <1>3. ASSUME NEW k \in Keys, NEW i \in Unsent(k)
        PROVE  /\ ~SendIsDropped(k, i) /\ ~SendFails(k, i)
               /\ Send(k, i) => UNCHANGED <<queue, lost>>
    BY <1>1 DEF SendIsDropped, SendFails, Send
  <1>4. \A w \in Workers : ~Expire(w) /\ ~MemberExists(w)
    BY <1>1 DEF Expire, MemberExists
  <1>5. lost' = lost \/ \E S : Note(S)
    <2>1. CASE Api
      BY <2>1 DEF Api, AddUser, RemoveUser, SetGroup, DeleteGroup, DeletionRemoves,
                  DeletionEnds, UpdateProject, SetProject, WillSend
    <2>2. CASE Sender \/ \E k \in Keys : \E i \in Unsent(k) : SendFails(k, i)
      BY <1>3, <2>2 DEF Sender
    <2>3. CASE Listen
      BY <1>2, <2>3 DEF Listen, Receive
    <2>4. ASSUME NEW w \in Workers, Work(w)
          PROVE  lost' = lost \/ \E S : Note(S)
      BY <1>4, <2>4 DEF Work, MemberTask, MemberEnrols, MemberFails, MemberWrite, ProjectTask,
                  GroupsTask, ProjectMembers, ProjectWrite, ProjectLink, ProjectDone, Finish
    <2>5. CASE \/ Forget \/ UNCHANGED vars \/ \E w \in Workers : Crash(w)
               \/ \E g \in Groups : SyncGroup(g)
      BY <2>5 DEF Forget, Crash, SyncGroup, vars
    <2> QED  BY <1>4, <2>1, <2>2, <2>3, <2>4, <2>5 DEF Next
  <1>6. lost \subseteq {"raced"}
    BY <1>5, NoteClean
  <1> QED  BY <1>2, <1>3, <1>4, <1>6

\* A message is sent, in the order of the writes.
LEMMA SendQuiet ==
    ASSUME Sender \/ (\E k \in Keys : \E i \in Unsent(k) : SendFails(k, i)),
           [Next]_vars, lost' \subseteq {"raced"}
    PROVE  UNCHANGED <<member, project, views, queue, hidden, work, lost>>
  <1>1. PICK k \in Keys : \E i \in Unsent(k) : Send(k, i) /\ UNCHANGED <<queue, lost>>
    BY NotedSteps DEF Sender
  <1>2. PICK i \in Unsent(k) : Send(k, i) /\ UNCHANGED <<queue, lost>>
    BY <1>1
  <1> QED  BY <1>2 DEF Send, Sending

LEMMA QuietGrants ==
    ASSUME GrantInv, UNCHANGED <<member, project, views, queue, hidden, work>>
    PROVE  GrantInv'
  <1>1. \A k : On(k)' = On(k)
    BY DEF On, Key
  <1>2. \A w \in Workers : \A g, u, p :
            /\ WorkerLinks(w, g)' = WorkerLinks(w, g)
            /\ WorkerReaches(w, g, u)' = WorkerReaches(w, g, u)
            /\ WorkerWrites(w, p)' = WorkerWrites(w, p)
    BY DEF WorkerLinks, WorkerReaches, WorkerWrites
  <1>3. \A k : On(k) \subseteq Workers
    BY DEF On
  <1>4. \A kind, k, g : WillLink(kind, k, g) => WillLink(kind, k, g)'
    BY <1>1, <1>2, <1>3 DEF WillLink
  <1>5. \A kind, k, g, u : WillReach(kind, k, g, u) => WillReach(kind, k, g, u)'
    BY <1>1, <1>2, <1>3 DEF WillReach
  <1>6. \A kind, k, g, p : WillWrite(kind, k, g, p) => WillWrite(kind, k, g, p)'
    BY <1>1, <1>2, <1>3 DEF WillWrite
  <1>7. Owned'
    BY DEF GrantInv, Owned, Holds, Key
  <1>8. LastTasks'
    BY DEF GrantInv, LastTasks
  <1>9. LinksComing' /\ AccessComing'
    BY <1>4, <1>5, <1>6 DEF GrantInv, LinksComing, AccessComing, views
  <1> QED  BY <1>7, <1>8, <1>9 DEF GrantInv

LEMMA GrantStep ==
    ASSUME TypeOK, lost \subseteq {"raced"} => GrantInv, [Next]_vars,
           lost' \subseteq {"raced"}
    PROVE  GrantInv'
  <1>n. /\ lost \subseteq {"raced"}
        /\ \A k \in Keys : ~DeadLetter(k)
        /\ \A w \in Workers : ~Expire(w) /\ ~MemberExists(w)
    BY NotedSteps
  <1>i. GrantInv
    BY <1>n
  <1>1. CASE Api
    <2>1. ASSUME NEW g \in Groups, \/ \E on \in {"on", "off"} : SetGroup(g, on)
                                   \/ DeleteGroup(g) \/ DeletionEnds(g)
          PROVE  GrantInv'
      BY <1>i, <2>1, QuietGrants DEF SetGroup, DeleteGroup, Call, DeletionEnds, Deleting
    <2>2. TablesType' /\ QueueType /\ WorkType
      BY <1>1, ApiTypes, TypeParts DEF TypeOK, TablesType
    <2>3. \/ \E g \in Groups : \/ \E on \in {"on", "off"} : SetGroup(g, on)
                               \/ DeleteGroup(g) \/ DeletionEnds(g)
          \/ Told
      BY <1>1, MemberCallTold, UpdateProjectTold, SetProjectTold DEF Api
    <2> QED  BY <1>i, <2>1, <2>2, <2>3, CallGrants
  <1>6. CASE Sender \/ \E k \in Keys : \E i \in Unsent(k) : SendFails(k, i)
    BY <1>6, <1>i, SendQuiet, QuietGrants
  <1>2. CASE Listen
    BY <1>2, <1>n, <1>i, ReceiveGrants DEF Listen
  <1>3. ASSUME NEW w \in Workers, Work(w)
        PROVE  GrantInv'
    <2>1. CASE MemberFails(w)
      <3>1. work[w] # Idle
        BY <2>1, MemberMessage, TypeParts DEF MemberFails, MemberRaises
      <3> QED  BY <1>i, <2>1, <3>1, StopGrants DEF MemberFails
    <2> QED  BY <1>3, <1>n, <1>i, <2>1, MemberTaskGrants, MemberEnrolsGrants,
                MemberWriteGrants, ProjectTaskGrants, FinishGrants DEF Work
  <1>4. ASSUME NEW w \in Workers, Crash(w)
        PROVE  GrantInv'
    BY <1>4, <1>i, StopGrants DEF Crash
  <1>5. CASE Forget \/ UNCHANGED vars \/ \E g \in Groups : SyncGroup(g)
    BY <1>5, <1>i, QuietGrants DEF Forget, SyncGroup, vars, tables
  <1> QED  BY <1>n, <1>1, <1>2, <1>3, <1>4, <1>5, <1>6 DEF Next

LEMMA GrantKept ==
    ASSUME GrantIInv, [Next]_vars
    PROVE  GrantIInv'
  <1>1. TypeOK'
    BY NextTypes DEF GrantIInv
  <1>2. lost' \subseteq {"raced"} => GrantInv'
    BY GrantStep DEF GrantIInv
  <1> QED  BY <1>1, <1>2 DEF GrantIInv

LEMMA GrantInit == Init => GrantInv
  <1> SUFFICES ASSUME Init PROVE GrantInv
    OBVIOUS
  <1>1. \A w \in Workers : work[w] = Idle
    BY DEF Init
  <1>2. \A k \in Keys : queue[k] = <<>>
    BY DEF Init
  <1>3. Owned
    BY <1>1 DEF Owned
  <1>4. LastTasks
    BY <1>2 DEF LastTasks, Followed, Keys
  <1>5. LinksComing
    BY DEF Init, LinksComing
  <1>6. AccessComing
    <2> SUFFICES ASSUME NEW p \in Projects, NEW g \in Groups, NEW u \in Users,
                        project[p].enabled, g \in project[p].groups, <<g, u>> \in member
                 PROVE  <<u, p>> \in access
      BY DEF AccessComing
    <2>1. u \in Entitled(p)
      BY DEF Entitled, MembersOf
    <2> QED  BY <2>1 DEF Init
  <1> QED  BY <1>3, <1>4, <1>5, <1>6 DEF GrantInv

\* When the queue is empty, what was to come has come.
LEMMA GrantsFollow == GrantIInv => GrantsArrive
  <1> SUFFICES ASSUME GrantIInv, Quiet, lost \subseteq {"raced"},
                      NEW p \in Projects, NEW u \in Entitled(p)
               PROVE  <<u, p>> \in access
    BY DEF GrantsArrive
  <1>t. TablesType
    BY TypeParts DEF GrantIInv
  <1>1. PICK g \in project[p].groups : u \in MembersOf(g) /\ project[p].enabled
    BY DEF Entitled
  <1>2. g \in Groups /\ u \in Users /\ <<g, u>> \in member
    BY <1>1, <1>t DEF MembersOf, TablesType
  <1>3. Len(queue[u]) = 0 /\ Len(queue[p]) = 0
    BY <1>2, KeysApart DEF Quiet
  <1>4. ~WillWrite("add", u, g, p) /\ ~WillReach("enable", p, g, u)
    BY <1>3 DEF WillWrite, WillReach
  <1> QED  BY <1>1, <1>2, <1>4 DEF GrantIInv, GrantInv, AccessComing

\* Whatever calls about groups, members and projects race with their tasks, and
\* whatever crashed and was delivered again: when the queue is empty, everybody who
\* is entitled to a project has access, unless a call overtook another one between its
\* write and its message, or a task was kept from its effect for another named cause.
THEOREM GrantsCorrect == Spec => []GrantsArrive
  <1>1. Init => GrantIInv
    BY InitTypes, GrantInit DEF GrantIInv
  <1>2. GrantIInv /\ [Next]_vars => GrantIInv'
    BY GrantKept
  <1> QED  BY <1>1, <1>2, GrantsFollow, PTL DEF Spec
=============================================================================
