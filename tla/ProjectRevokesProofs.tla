------------------------- MODULE ProjectRevokesProofs -------------------------
(***************************************************************************)
(* Nobody else has access to a project: the other half of the theorems      *)
(* about ProjectMembership.                                                  *)
(***************************************************************************)
EXTENDS ProjectMembershipProofs

-----------------------------------------------------------------------------
(* The invariant behind RevokesArrive.                                       *)

\* What a worker has read still agrees with the tables.
ProjectWithin(w, p) ==
    /\ work[w].pc \in {"link", "list", "users"} => work[w].todo \subseteq project[p].groups
    /\ work[w].pc = "list" => work[w].group \in project[p].groups
    /\ work[w].pc = "users" /\ work[w].task.msg.kind = "enable" =>
          \A u \in work[w].users : \E g \in project[p].groups : <<g, u>> \in member
UserWithin(w) ==
    work[w].pc = "write" => \A p \in work[w].projects :
        project[p].enabled /\ work[w].task.msg.groups \subseteq project[p].groups
WorkWithin ==
    /\ \A p \in Projects : \A w \in On(p) : ProjectWithin(w, p)
    /\ \A u \in Users : \A w \in On(u) : UserWithin(w)

\* What is there the tables entitle to, or a task will take it away.
LinkGoing(p, g) ==
    /\ g \in project[p].groups
    /\ project[p].enabled \/ WillLink("disable", p, g)
RowGoing(p, g, u) ==
    \/ /\ <<g, u>> \in member
       /\ project[p].enabled \/ WillReach("disable", p, g, u)
    \/ project[p].enabled /\ WillWrite("remove", u, g, p)
LinksGoing == \A p \in Projects, g \in Groups : <<g, p>> \in linked => LinkGoing(p, g)
AccessGoing ==
    \A p \in Projects, u \in Users :
        <<u, p>> \in access => \E g \in project[p].groups : RowGoing(p, g, u)

RevokeInv == WorkWithin /\ LinksGoing /\ AccessGoing
RevokeIInv == GrantIInv /\ (lost = {} => ~Conflict /\ RevokeInv)

-----------------------------------------------------------------------------
(* As long as nothing raced, a task that takes away meets no other.          *)

LEMMA Alone ==
    ASSUME ~Conflict, NEW k \in Keys, NEW i \in 1..Len(queue[k]),
           queue[k][i].msg.kind \in {"remove", "disable"}
    PROVE  (\A u \in Users : queue[u] = <<>>) \/ (\A p \in Projects : queue[p] = <<>>)
  BY DEF Conflict, Pending

LEMMA AloneNext ==
    ASSUME ~Conflict', NEW k \in Keys, NEW i \in 1..Len(queue'[k]),
           queue'[k][i].msg.kind \in {"remove", "disable"}
    PROVE  (\A u \in Users : queue'[u] = <<>>) \/ (\A p \in Projects : queue'[p] = <<>>)
  BY DEF Conflict, Pending

LEMMA RemoveAlone ==
    ASSUME ~Conflict, NEW u \in Users, NEW g, NEW p, WillWrite("remove", u, g, p)
    PROVE  \A q \in Projects : queue[q] = <<>>
  <1>1. PICK i \in 1..Len(queue[u]) : queue[u][i].msg = Message("remove", u, {g})
    BY DEF WillWrite
  <1>2. queue[u][i].msg.kind = "remove" /\ queue[u] # <<>> /\ u \in Keys
    BY <1>1, MessageFields DEF Keys
  <1> QED  BY <1>2, Alone

LEMMA DisableAlone ==
    ASSUME ~Conflict, NEW p \in Projects, NEW g, NEW u,
           WillReach("disable", p, g, u) \/ WillLink("disable", p, g)
    PROVE  queue[p] # <<>> /\ \A v \in Users : queue[v] = <<>>
  <1>1. PICK i \in 1..Len(queue[p]) : queue[p][i].msg.kind = "disable"
    BY DEF WillReach, WillLink
  <1>2. queue[p] # <<>> /\ p \in Keys
    BY <1>1 DEF Keys
  <1> QED  BY <1>1, <1>2, Alone

\* No message group gets longer.
LEMMA NoNewConflict ==
    ASSUME ~Conflict,
           \A k \in Keys : queue'[k] # <<>> => queue[k] # <<>>,
           \A k \in Keys : \A i \in 1..Len(queue'[k]) :
               \E j \in 1..Len(queue[k]) : queue[k][j].msg = queue'[k][i].msg
    PROVE  ~Conflict'
  <1> SUFFICES ASSUME Conflict' PROVE FALSE
    OBVIOUS
  <1>1. PICK k \in Keys : \E i \in 1..Len(queue'[k]) :
            queue'[k][i].msg.kind \in {"remove", "disable"}
    BY DEF Conflict, Pending
  <1>2. \E j \in 1..Len(queue[k]) : queue[k][j].msg.kind \in {"remove", "disable"}
    BY <1>1
  <1>3. /\ \E u \in Users : queue[u] # <<>>
        /\ \E p \in Projects : queue[p] # <<>>
    BY DEF Conflict, Keys
  <1> QED  BY <1>2, <1>3 DEF Conflict, Pending

-----------------------------------------------------------------------------
(* Receiving, giving up and finishing a task.                                *)

\* What is to go stays to go, when the tables and the views stay.
LEMMA HandRevokes ==
    ASSUME RevokeInv, UNCHANGED <<member, project, views>>,
           \A k \in Keys : \A v \in On(k)' : \/ v \in On(k) /\ work'[v] = work[v]
                                             \/ work'[v].pc = "start",
           \A p \in Projects, g \in Groups :
               WillLink("disable", p, g) => WillLink("disable", p, g)',
           \A p \in Projects, g \in Groups, u \in Users :
               /\ WillReach("disable", p, g, u) => WillReach("disable", p, g, u)'
               /\ WillWrite("remove", u, g, p) => WillWrite("remove", u, g, p)',
           TablesType
    PROVE  RevokeInv'
  <1> USE DEF RevokeInv
  <1>0. UNCHANGED <<member, project, linked, access>>
    BY DEF views
  <1>g. \A p \in Projects : project[p].groups \subseteq Groups
    BY DEF TablesType
  <1>1. ASSUME NEW p \in Projects, NEW w \in On(p)'
        PROVE  ProjectWithin(w, p)'
    <2>1. CASE work'[w].pc = "start"
      BY <2>1 DEF ProjectWithin
    <2>2. CASE w \in On(p) /\ work'[w] = work[w]
      <3>1. ProjectWithin(w, p)
        BY <2>2 DEF WorkWithin
      <3> QED  BY <1>0, <2>2, <3>1 DEF ProjectWithin
    <2> QED  BY <2>1, <2>2 DEF Keys
  <1>2. ASSUME NEW u \in Users, NEW w \in On(u)'
        PROVE  UserWithin(w)'
    <2>1. CASE work'[w].pc = "start"
      BY <2>1 DEF UserWithin
    <2>2. CASE w \in On(u) /\ work'[w] = work[w]
      <3>1. UserWithin(w)
        BY <2>2 DEF WorkWithin
      <3> QED  BY <1>0, <2>2, <3>1 DEF UserWithin
    <2> QED  BY <2>1, <2>2 DEF Keys
  <1>3. LinksGoing'
    BY <1>0 DEF LinksGoing, LinkGoing
  <1>4. AccessGoing'
    <2> SUFFICES ASSUME NEW p \in Projects, NEW u \in Users, <<u, p>> \in access
                 PROVE  \E g \in project[p].groups : RowGoing(p, g, u)'
      BY <1>0 DEF AccessGoing
    <2>1. PICK g \in project[p].groups : RowGoing(p, g, u)
      BY DEF AccessGoing
    <2>2. RowGoing(p, g, u)'
      BY <1>0, <1>g, <2>1 DEF RowGoing
    <2> QED  BY <2>2
  <1> QED  BY <1>1, <1>2, <1>3, <1>4 DEF WorkWithin

LEMMA StopRevokes ==
    ASSUME TypeOK, Owned, RevokeInv, NEW w \in Workers, work[w] # Idle, Again(w),
           work' = [work EXCEPT ![w] = Idle], queue' = queue, UNCHANGED <<tables, views>>
    PROVE  RevokeInv'
  <1>1. \A k \in Keys : \A v \in On(k)' : v \in On(k) /\ work'[v] = work[v]
    BY StopShape
  <1>2. TablesType /\ UNCHANGED <<member, project>>
    BY TypeParts DEF tables
  <1> QED  BY <1>1, <1>2, SameMessagesWill, HandRevokes

LEMMA ReceiveRevokes ==
    ASSUME TypeOK, Owned, RevokeInv, NEW k \in Keys, NEW w \in Workers, Receive(k, w)
    PROVE  RevokeInv'
  <1>1. /\ \A j \in Keys : /\ Len(queue'[j]) = Len(queue[j])
                           /\ \A i \in 1..Len(queue[j]) : queue'[j][i].msg = queue[j][i].msg
        /\ \A j \in Keys : \A v \in On(j)' : \/ v \in On(j) /\ work'[v] = work[v]
                                          \/ work'[v].pc = "start"
    BY ReceiveShape
  <1>2. TablesType /\ UNCHANGED <<member, project, views>>
    BY TypeParts DEF Receive, tables
  <1> QED  BY <1>1, <1>2, SameMessagesWill, HandRevokes

LEMMA FinishRevokes ==
    ASSUME TypeOK, Owned, RevokeInv, NEW w \in Workers, Finish(w)
    PROVE  RevokeInv'
  <1>k. PICK k : k = Key(w)
    OBVIOUS
  <1>1. \A j \in Keys : \A v \in On(j)' : v \in On(j) /\ work'[v] = work[v]
    BY <1>k, FinishOwned
  <1>2. TablesType /\ UNCHANGED <<member, project, views>>
    BY TypeParts DEF Finish, tables
  <1>3. /\ \A p \in Projects, g \in Groups :
              WillLink("disable", p, g) => WillLink("disable", p, g)'
        /\ \A p \in Projects, g \in Groups, u \in Users :
              WillReach("disable", p, g, u) => WillReach("disable", p, g, u)'
        /\ \A p \in Projects, g \in Groups, u \in Users :
              WillWrite("remove", u, g, p) => WillWrite("remove", u, g, p)'
    BY <1>k, FinishWill
  <1> QED  BY <1>1, <1>2, <1>3, HandRevokes
-----------------------------------------------------------------------------
(* The API.                                                                  *)

\* A call that sends a task that takes away meets no other task.
LEMMA AddedAlone ==
    ASSUME QueueType, ~Conflict', NEW k \in Keys, NEW e \in Tasks,
           queue'[k] = Append(queue[k], e), e.msg.kind \in {"remove", "disable"}
    PROVE  /\ queue'[k] # <<>>
           /\ (\A u \in Users : queue'[u] = <<>>) \/ (\A p \in Projects : queue'[p] = <<>>)
  <1>1. queue[k] \in Seq(Tasks)
    BY DEF QueueType
  <1>2. PICK n : n = Len(queue[k]) + 1
    OBVIOUS
  <1>3. n \in 1..Len(queue'[k]) /\ queue'[k][n] = e /\ queue'[k] # <<>>
    <2>1. /\ Len(queue[k]) \in Nat /\ Len(queue'[k]) = Len(queue[k]) + 1
          /\ queue'[k] # <<>> /\ queue'[k][Len(queue[k]) + 1] = e
      BY <1>1, Appended
    <2> QED  BY <1>2, <2>1
  <1> QED  BY <1>3, AloneNext

\* Whom a call takes away from a group, a task will take away from its projects,
\* and no project has a task.
LEMMA CallRemoves ==
    ASSUME QueueType, Owned, Told, ~Conflict',
           NEW u \in Users, NEW g \in Groups, <<g, u>> \in member, <<g, u>> \notin member'
    PROVE  /\ queue'[u] # <<>> /\ \A p \in Projects : queue'[p] = <<>>
           /\ \A p : WillWrite("remove", u, g, p)'
  <1>1. PICK e \in Tasks :
            queue'[u] = Append(queue[u], e) /\ e.msg = Message("remove", u, {g})
    BY DEF Told, MemberTold
  <1>2. u \in Keys /\ e.msg.kind = "remove"
    BY <1>1, MessageFields DEF Keys
  <1>3. queue'[u] # <<>> /\ \A p \in Projects : queue'[p] = <<>>
    BY <1>1, <1>2, AddedAlone
  <1>4. work' = work
    BY DEF Told
  <1> QED  BY <1>1, <1>2, <1>3, <1>4, NewWill

\* A project that a call disables has a task that says so, and no user has one.
LEMMA CallDisables ==
    ASSUME QueueType, Owned, Told, ~Conflict', TablesType, TablesType',
           NEW p \in Projects, project[p].enabled, ~project'[p].enabled
    PROVE  /\ queue'[p] # <<>> /\ \A u \in Users : queue'[u] = <<>>
           /\ \A g, u : WillLink("disable", p, g)' /\ WillReach("disable", p, g, u)'
  <1>1. PICK e \in Tasks : queue'[p] = Append(queue[p], e) /\ e.msg.kind = "disable"
    BY DEF Told, ProjectTold
  <1>2. p \in Keys
    BY DEF Keys
  <1>3. queue'[p] # <<>> /\ \A u \in Users : queue'[u] = <<>>
    BY <1>1, <1>2, AddedAlone
  <1>4. work' = work
    BY DEF Told
  <1> QED  BY <1>1, <1>2, <1>3, <1>4, NewWill

LEMMA CallRevokes ==
    ASSUME TypeOK, TablesType', Owned, RevokeInv, ~Conflict, ~Conflict', Told
    PROVE  RevokeInv'
  <1> USE DEF RevokeInv
  <1>t. QueueType /\ WorkType /\ TablesType
    BY TypeParts
  <1>0. UNCHANGED <<work, hidden, linked, access>> /\ \A k \in Keys : Grown(k)
    BY DEF Told, views
  <1>o. \A k : On(k)' = On(k)
    BY <1>0 DEF On, Key
  <1>q. \A k \in Keys : queue[k] # <<>> => queue'[k] # <<>>
    BY <1>0, <1>t, GrownKeeps
  <1>b. \A k : \A w \in On(k) : queue[k] # <<>>
    BY DEF On, Owned
  <1>s. \A p \in Projects : queue[p] # <<>> \/ project[p].enabled =>
            project'[p].groups = project[p].groups
    BY DEF Told, GroupsSettled
  <1>l. \A p \in Projects, g \in Groups : WillLink("disable", p, g) =>
            WillLink("disable", p, g)' /\ queue[p] # <<>>
    BY <1>0, <1>t, GrowWill, DisableAlone
  <1>r. \A p \in Projects, g \in Groups, u \in Users : WillReach("disable", p, g, u) =>
            WillReach("disable", p, g, u)' /\ queue[p] # <<>>
    BY <1>0, <1>t, GrowWill, DisableAlone
  <1>m. \A u \in Users, g \in Groups : <<g, u>> \in member /\ <<g, u>> \notin member' =>
            /\ queue'[u] # <<>> /\ \A p \in Projects : queue'[p] = <<>>
            /\ \A p : WillWrite("remove", u, g, p)'
    BY <1>t, CallRemoves
  <1>d. \A p \in Projects : project[p].enabled /\ ~project'[p].enabled =>
            /\ queue'[p] # <<>> /\ \A u \in Users : queue'[u] = <<>>
            /\ \A g, u : WillLink("disable", p, g)' /\ WillReach("disable", p, g, u)'
    BY <1>t, CallDisables
  <1>1. ASSUME NEW p \in Projects, NEW w \in On(p)
        PROVE  ProjectWithin(w, p)'
    <2>1. ProjectWithin(w, p) /\ queue[p] # <<>>
      BY <1>b DEF WorkWithin
    <2>2. queue'[p] # <<>> /\ project'[p].groups = project[p].groups
      BY <1>q, <1>s, <2>1 DEF Keys
    <2>3. \A u \in Users, g \in Groups : <<g, u>> \in member => <<g, u>> \in member'
      BY <1>m, <2>2
    <2>4. member \subseteq Groups \X Users
      BY <1>t DEF TablesType
    <2> QED  BY <1>0, <2>1, <2>2, <2>3, <2>4 DEF ProjectWithin
  <1>2. ASSUME NEW u \in Users, NEW w \in On(u)
        PROVE  UserWithin(w)'
    <2>1. UserWithin(w) /\ queue[u] # <<>>
      BY <1>b DEF WorkWithin
    <2>2. queue'[u] # <<>>
      BY <1>q, <2>1 DEF Keys
    <2>3. \A p \in Projects : project[p].enabled =>
              project'[p].enabled /\ project'[p].groups = project[p].groups
      BY <1>d, <1>s, <2>2
    <2>4. work[w].pc = "write" => work[w].projects \subseteq Projects
      BY <1>t DEF WorkType, WorkStates, On, Idle
    <2> QED  BY <1>0, <2>1, <2>3, <2>4 DEF UserWithin
  <1>3. LinksGoing'
    <2> SUFFICES ASSUME NEW p \in Projects, NEW g \in Groups, <<g, p>> \in linked
                 PROVE  LinkGoing(p, g)'
      BY <1>0 DEF LinksGoing
    <2>1. g \in project[p].groups /\ (project[p].enabled \/ WillLink("disable", p, g))
      BY DEF LinksGoing, LinkGoing
    <2> QED  BY <1>d, <1>l, <1>s, <2>1 DEF LinkGoing
  <1>4. AccessGoing'
    <2> SUFFICES ASSUME NEW p \in Projects, NEW u \in Users, <<u, p>> \in access
                 PROVE  \E g \in project'[p].groups : RowGoing(p, g, u)'
      BY <1>0 DEF AccessGoing
    <2>1. PICK g \in project[p].groups : RowGoing(p, g, u)
      BY DEF AccessGoing
    <2>2. g \in Groups
      BY <1>t DEF TablesType
    <2>3. project'[p].groups = project[p].groups
      BY <1>r, <1>s, <2>1, <2>2 DEF RowGoing
    <2>4. CASE <<g, u>> \in member /\ (project[p].enabled \/ WillReach("disable", p, g, u))
      <3>1. CASE <<g, u>> \in member'
        BY <1>d, <1>r, <2>2, <2>4, <3>1, <2>3 DEF RowGoing
      <3>2. CASE <<g, u>> \notin member'
        <4>1. /\ queue'[p] = <<>> /\ queue'[u] # <<>> /\ WillWrite("remove", u, g, p)'
          BY <1>m, <2>2, <2>4, <3>2
        <4>2. queue[p] = <<>>
          BY <1>q, <4>1 DEF Keys
        <4>3. project[p].enabled /\ project'[p].enabled
          BY <1>d, <1>r, <2>2, <2>4, <4>1, <4>2
        <4> QED  BY <2>3, <4>1, <4>3 DEF RowGoing
      <3> QED  BY <3>1, <3>2
    <2>5. CASE project[p].enabled /\ WillWrite("remove", u, g, p)
      <3>1. WillWrite("remove", u, g, p)' /\ queue[u] # <<>>
        <4>1. WillWrite("remove", u, g, p)'
          BY <1>0, <1>t, <2>2, <2>5, GrowWill
        <4>2. queue[u] # <<>>
          BY <2>5 DEF WillWrite
        <4> QED  BY <4>1, <4>2
      <3>2. project'[p].enabled
        BY <1>d, <1>q, <2>5, <3>1 DEF Keys
      <3> QED  BY <2>3, <3>1, <3>2 DEF RowGoing
    <2> QED  BY <2>1, <2>4, <2>5 DEF RowGoing
  <1> QED  BY <1>o, <1>1, <1>2, <1>3, <1>4 DEF WorkWithin
-----------------------------------------------------------------------------
(* The steps of a task about a user.                                         *)

\* What the other workers have read, they have still.
LEMMA StepWithin ==
    ASSUME TypeOK, Owned, WorkWithin, NEW w \in Workers, work[w] # Idle,
           NEW next, Step(w, next), next # Idle, next.task = work[w].task,
           \A p \in Projects : p = Key(w) => ProjectWithin(w, p)',
           Key(w) \in Users => UserWithin(w)'
    PROVE  WorkWithin'
  <1>t. WorkType
    BY TypeParts
  <1>1. /\ \A v \in Workers \ {w} : work'[v] = work[v]
        /\ UNCHANGED <<member, project>> /\ \A k : On(k)' = On(k)
    BY <1>t, StepShape
  <1>2. ASSUME NEW p \in Projects, NEW v \in On(p)
        PROVE  ProjectWithin(v, p)'
    <2>1. CASE v = w
      BY <1>2, <2>1 DEF On
    <2>2. CASE v # w
      <3>1. ProjectWithin(v, p) /\ work'[v] = work[v]
        BY <1>1, <2>2 DEF WorkWithin, On
      <3> QED  BY <1>1, <3>1 DEF ProjectWithin
    <2> QED  BY <2>1, <2>2
  <1>3. ASSUME NEW u \in Users, NEW v \in On(u)
        PROVE  UserWithin(v)'
    <2>1. CASE v = w
      BY <1>3, <2>1 DEF On
    <2>2. CASE v # w
      <3>1. UserWithin(v) /\ work'[v] = work[v]
        BY <1>1, <2>2 DEF WorkWithin, On
      <3> QED  BY <1>1, <3>1 DEF UserWithin
    <2> QED  BY <2>1, <2>2
  <1> QED  BY <1>1, <1>2, <1>3 DEF WorkWithin

\* A task about a member that begins has all of it to do.
LEMMA MemberTaskRevokes ==
    ASSUME TypeOK, GrantInv, RevokeInv, lost' \subseteq {"raced"},
           NEW w \in Workers, MemberTask(w)
    PROVE  RevokeInv'
  <1> USE DEF RevokeInv
  <1>t. QueueType /\ WorkType /\ TablesType
    BY TypeParts
  <1>1. work[w] # Idle /\ Key(w) \in Users /\ UNCHANGED views
    BY MemberTaskStarts
  <1>2. PICK next : next = [pc |-> "enrol", task |-> work[w].task] /\ Step(w, next)
    BY MemberTaskStarts
  <1>3. next # Idle /\ next.task = work[w].task
    BY <1>2 DEF Idle
  <1>4. /\ member' = member /\ project' = project /\ work'[w] = next
        /\ linked' = linked /\ access' = access
    BY <1>t, <1>1, <1>2, <1>3, StepShape DEF GrantInv, views
  <1>5. WorkWithin'
    <2>1. UserWithin(w)'
      BY <1>2, <1>4 DEF UserWithin
    <2>2. \A p \in Projects : p # Key(w)
      BY <1>1, KeysApart
    <2> QED  BY <1>1, <1>2, <1>3, <2>1, <2>2, StepWithin DEF GrantInv
  <1>6. /\ \A p \in Projects, g \in Groups :
              WillLink("disable", p, g) => WillLink("disable", p, g)'
        /\ \A p \in Projects, g \in Groups, u \in Users :
              WillReach("disable", p, g, u) => WillReach("disable", p, g, u)'
    BY <1>t, <1>1, <1>2, <1>3, UserStepWill DEF GrantInv
  <1>7. \A p : WorkerWrites(w, p)'
    BY <1>2, <1>4 DEF WorkerWrites
  <1>8. \A p \in Projects, g \in Groups, u \in Users :
            WillWrite("remove", u, g, p) => WillWrite("remove", u, g, p)'
    BY <1>t, <1>1, <1>2, <1>3, <1>7, StepWrites DEF GrantInv
  <1>9. LinksGoing'
    BY <1>4, <1>6 DEF LinksGoing, LinkGoing
  <1>10. AccessGoing'
    <2> SUFFICES ASSUME NEW p \in Projects, NEW u \in Users, <<u, p>> \in access
                 PROVE  \E g \in project[p].groups : RowGoing(p, g, u)'
      BY <1>4 DEF AccessGoing
    <2>1. PICK g \in project[p].groups : RowGoing(p, g, u)
      BY DEF AccessGoing
    <2>2. g \in Groups
      BY <1>t DEF TablesType
    <2>3. RowGoing(p, g, u)'
      BY <1>4, <1>6, <1>8, <2>1, <2>2 DEF RowGoing
    <2> QED  BY <2>3
  <1> QED  BY <1>5, <1>9, <1>10

\* The projects that a task about a member reads are enabled and have the group:
\* the task of a project that was disabled would have met this one.
LEMMA MemberEnrolsRevokes ==
    ASSUME TypeOK, GrantInv, RevokeInv, ~Conflict,
           NEW w \in Workers, MemberEnrols(w)
    PROVE  RevokeInv'
  <1> USE DEF RevokeInv
  <1>t. QueueType /\ WorkType /\ TablesType
    BY TypeParts
  <1>1. /\ work[w] # Idle /\ Key(w) \in Users /\ GroupOf(w) \in Groups
        /\ work[w].task.msg.groups = {GroupOf(w)}
    BY <1>t, MemberMessage DEF MemberEnrols
  <1>k. PICK k \in Users : k = Key(w)
    BY <1>1
  <1>3. PICK next : /\ next = [pc |-> "write", task |-> work[w].task,
                       projects |-> {p \in Projects : <<GroupOf(w), p>> \in linked}]
                    /\ Step(w, next) /\ UNCHANGED views
    BY DEF MemberEnrols
  <1>4. next # Idle /\ next.task = work[w].task
    BY <1>3 DEF Idle
  <1>5. /\ member' = member /\ project' = project /\ work'[w] = next
        /\ linked' = linked /\ access' = access
    BY <1>t, <1>1, <1>3, <1>4, StepShape DEF GrantInv, views
  <1>6. queue[k] # <<>>
    BY <1>1, <1>k, OnlyWorker DEF GrantInv
  <1>7. \A p \in Projects : <<GroupOf(w), p>> \in linked =>
            project[p].enabled /\ GroupOf(w) \in project[p].groups
    BY <1>1, <1>6, DisableAlone DEF LinksGoing, LinkGoing
  <1>8. \A p \in Projects, g \in Groups, u \in Users :
            /\ WillLink("disable", p, g) => WillLink("disable", p, g)'
            /\ WillReach("disable", p, g, u) => WillReach("disable", p, g, u)'
    BY <1>t, <1>1, <1>3, <1>4, UserStepWill DEF GrantInv
  <1>9. WorkWithin'
    <2>1. UserWithin(w)'
      BY <1>1, <1>3, <1>5, <1>7 DEF UserWithin
    <2>2. \A p \in Projects : p # Key(w)
      BY <1>1, KeysApart
    <2> QED  BY <1>1, <1>3, <1>4, <2>1, <2>2, StepWithin DEF GrantInv
  <1>10. LinksGoing'
    BY <1>5, <1>8 DEF LinksGoing, LinkGoing
  <1>11. AccessGoing'
    <2> SUFFICES ASSUME NEW p \in Projects, NEW u \in Users, <<u, p>> \in access
                 PROVE  \E g \in project[p].groups : RowGoing(p, g, u)'
      BY <1>5 DEF AccessGoing
    <2>1. PICK g \in project[p].groups : RowGoing(p, g, u)
      BY DEF AccessGoing
    <2>2. g \in Groups
      BY <1>t DEF TablesType
    <2>3. CASE <<g, u>> \in member /\ (project[p].enabled \/ WillReach("disable", p, g, u))
      BY <1>5, <1>8, <2>2, <2>3 DEF RowGoing
    <2>4. CASE project[p].enabled /\ WillWrite("remove", u, g, p)
      <3>1. WillWrite("remove", u, g, p)'
        <4> SUFFICES ASSUME ~WillWrite("remove", u, g, p)' PROVE FALSE
          OBVIOUS
        <4>1. work[w].task.msg = Message("remove", u, {g}) /\ ~WorkerWrites(w, p)'
          <5>1. Step(w, next) /\ Owned
            BY <1>3 DEF GrantInv
          <5>2. WillWrite("remove", u, g, p)
            BY <2>4
          <5> QED  BY <1>t, <1>1, <1>4, <2>2, <5>1, <5>2, StepWrites
        <4>2. GroupOf(w) = g
          BY <4>1, MessageFields DEF GroupOf
        <4>3. queue[p] = <<>>
          BY <2>4, RemoveAlone
        <4>4. ~WillLink("enable", p, g)
          BY <4>3 DEF WillLink
        <4>5. <<g, p>> \in linked
          BY <2>2, <2>4, <4>4 DEF GrantInv, LinksComing
        <4>6. work'[w].pc = "write" /\ p \in work'[w].projects
          BY <1>3, <1>5, <4>2, <4>5
        <4> QED  BY <4>1, <4>6 DEF WorkerWrites
      <3> QED  BY <1>5, <2>4, <3>1 DEF RowGoing
    <2> QED  BY <2>1, <2>3, <2>4 DEF RowGoing
  <1> QED  BY <1>9, <1>10, <1>11

\* A task gives what it may give, or what another task will take away.
LEMMA MemberWriteRevokes ==
    ASSUME TypeOK, GrantInv, RevokeInv, NEW w \in Workers, MemberWrite(w)
    PROVE  RevokeInv'
  <1> USE DEF RevokeInv
  <1>t. QueueType /\ WorkType /\ TablesType
    BY TypeParts
  <1>1. /\ work[w] # Idle /\ Key(w) \in Users /\ GroupOf(w) \in Groups
        /\ work[w].task.msg.groups = {GroupOf(w)}
        /\ work[w].task.msg = Message(work[w].task.msg.kind, Key(w), {GroupOf(w)})
    BY <1>t, MemberMessage, MemberTaskMessage DEF MemberWrite
  <1>k. PICK k \in Users : k = Key(w)
    BY <1>1
  <1>2. PICK next : next = [pc |-> "done", task |-> work[w].task] /\ Step(w, next)
    BY DEF MemberWrite
  <1>3. next # Idle /\ next.task = work[w].task
    BY <1>2 DEF Idle
  <1>4. member' = member /\ project' = project /\ work'[w] = next
    BY <1>t, <1>1, <1>2, <1>3, StepShape DEF GrantInv
  <1>5. /\ linked' = linked
        /\ work[w].pc = "write" /\ work[w].task.msg.kind \in {"add", "remove"}
        /\ access' = IF work[w].task.msg.kind = "add"
                     THEN access \cup ({k} \X work[w].projects)
                     ELSE access \ ({k} \X work[w].projects)
    BY <1>k DEF MemberWrite, At
  <1>6. \A p \in Projects, g \in Groups, u \in Users :
            /\ WillLink("disable", p, g) => WillLink("disable", p, g)'
            /\ WillReach("disable", p, g, u) => WillReach("disable", p, g, u)'
    BY <1>t, <1>1, <1>2, <1>3, UserStepWill DEF GrantInv
  <1>7. WorkWithin'
    <2>1. UserWithin(w)'
      BY <1>2, <1>4 DEF UserWithin
    <2>2. \A p \in Projects : p # Key(w)
      BY <1>1, KeysApart
    <2> QED  BY <1>1, <1>2, <1>3, <2>1, <2>2, StepWithin DEF GrantInv
  <1>8. LinksGoing'
    BY <1>4, <1>5, <1>6 DEF LinksGoing, LinkGoing
  <1>9. work[w].task = Head(queue[k]) /\ queue[k] # <<>> /\ w \in On(k)
    BY <1>1, <1>k, OnlyWorker DEF GrantInv
  <1>w. ASSUME NEW u \in Users, NEW g \in Groups, NEW p \in Projects,
               WillWrite("remove", u, g, p), ~WillWrite("remove", u, g, p)'
        PROVE  u = k /\ work[w].task.msg.kind = "remove" /\ p \in work[w].projects
    <2>1. /\ u = k /\ work[w].task.msg = Message("remove", u, {g}) /\ WorkerWrites(w, p)
      BY <1>w, <1>t, <1>1, <1>2, <1>3, <1>k, StepWrites DEF GrantInv
    <2> QED  BY <1>5, <2>1, MessageFields DEF WorkerWrites
  <1>10. AccessGoing'
    <2> SUFFICES ASSUME NEW p \in Projects, NEW u \in Users, <<u, p>> \in access'
                 PROVE  \E g \in project[p].groups : RowGoing(p, g, u)'
      BY <1>4 DEF AccessGoing
    <2>1. CASE <<u, p>> \in access
      <3>1. PICK g \in project[p].groups : RowGoing(p, g, u)
        BY <2>1 DEF AccessGoing
      <3>2. g \in Groups
        BY <1>t DEF TablesType
      <3>3. WillWrite("remove", u, g, p) => WillWrite("remove", u, g, p)'
        BY <1>5, <1>w, <2>1, <3>2
      <3>4. RowGoing(p, g, u)'
        BY <1>4, <1>6, <3>1, <3>2, <3>3 DEF RowGoing
      <3> QED  BY <3>4
    <2>2. CASE <<u, p>> \notin access
      <3>1. PICK g \in Groups : g = GroupOf(w)
        BY <1>1
      <3>2. work[w].task.msg.kind = "add" /\ u = k /\ p \in work[w].projects
        BY <1>5, <2>2
      <3>3. project[p].enabled /\ g \in project[p].groups
        <4>1. UserWithin(w)
          BY <1>9 DEF WorkWithin
        <4> QED  BY <1>1, <1>5, <3>1, <3>2, <4>1 DEF UserWithin
      <3>4. CASE <<g, u>> \in member
        BY <1>4, <3>3, <3>4 DEF RowGoing
      <3>5. CASE <<g, u>> \notin member
        <4>1. Followed(queue[u], About("add", u, g), About("remove", u, g))
          BY <3>5 DEF GrantInv, LastTasks
        <4>2. Head(queue[u]).msg = Message("add", u, {g}) /\ queue[u] # <<>>
          BY <1>1, <1>9, <1>k, <3>1, <3>2
        <4>3. WillWrite("remove", u, g, p)
          BY <1>t, <4>1, <4>2, LaterWrite
        <4>4. WillWrite("remove", u, g, p)'
          BY <1>w, <3>2, <4>3
        <4> QED  BY <1>4, <3>3, <4>4 DEF RowGoing
      <3> QED  BY <3>4, <3>5
    <2> QED  BY <2>1, <2>2
  <1> QED  BY <1>7, <1>8, <1>10
-----------------------------------------------------------------------------
(* The steps of a task about a project.                                      *)

\* What it gives, enabling the project, the task that disabled it since will take
\* away, and what it no longer has to take away it took.
LEMMA ProjectStepRevokes ==
    ASSUME TypeOK, GrantInv, RevokeInv, NEW w \in Workers, work[w] # Idle,
           NEW p \in Projects, p = Key(w),
           NEW next, Step(w, next), next # Idle, next.task = work[w].task,
           ProjectWithin(w, p)',
           \A g \in Groups, q \in Projects : <<g, q>> \in linked' =>
               \/ <<g, q>> \in linked
               \/ q = p /\ work[w].task.msg.kind = "enable" /\ g \in project[p].groups,
           \A u \in Users, q \in Projects : <<u, q>> \in access' =>
               \/ <<u, q>> \in access
               \/ /\ q = p /\ work[w].task.msg.kind = "enable"
                  /\ \E g \in project[p].groups : <<g, u>> \in member,
           \A g \in Groups :
               work[w].task.msg.kind = "disable" /\ g \in project[p].groups /\ WorkerLinks(w, g) =>
                   WorkerLinks(w, g)' \/ <<g, p>> \notin linked',
           \A g \in Groups, u \in Users :
               /\ work[w].task.msg.kind = "disable" /\ g \in project[p].groups
               /\ <<g, u>> \in member /\ WorkerReaches(w, g, u)
               => WorkerReaches(w, g, u)' \/ <<u, p>> \notin access'
    PROVE  RevokeInv'
  <1> USE DEF RevokeInv
  <1>t. QueueType /\ WorkType /\ TablesType
    BY TypeParts
  <1>1. member' = member /\ project' = project
    BY <1>t, StepGrants
  <1>2. work[w].task = Head(queue[p]) /\ queue[p] # <<>>
    BY OnlyWorker DEF GrantInv
  <1>3. WorkWithin'
    <2>1. Key(w) \notin Users
      BY KeysApart
    <2> QED  BY <2>1, StepWithin DEF GrantInv
  <1>l. \A q \in Projects, g \in Groups : WillLink("disable", q, g) =>
            \/ WillLink("disable", q, g)'
            \/ /\ q = p /\ work[w].task.msg.kind = "disable"
               /\ WorkerLinks(w, g) /\ ~WorkerLinks(w, g)'
    BY <1>t, StepWill DEF GrantInv
  <1>r. \A q \in Projects, g \in Groups, u \in Users : WillReach("disable", q, g, u) =>
            \/ WillReach("disable", q, g, u)'
            \/ /\ q = p /\ work[w].task.msg.kind = "disable"
               /\ WorkerReaches(w, g, u) /\ ~WorkerReaches(w, g, u)'
    BY <1>t, StepWill DEF GrantInv
  <1>e. ASSUME ~project[p].enabled, work[w].task.msg.kind = "enable",
               NEW g \in Groups, NEW u
        PROVE  WillLink("disable", p, g)' /\ WillReach("disable", p, g, u)'
    <2>1. Followed(queue[p], Kind("enable"), Kind("disable"))
      BY <1>e DEF GrantInv, LastTasks
    <2>2. WillLink("disable", p, g)
      BY <1>t, <1>2, <1>e, <2>1, LaterLink
    <2>3. WillLink("disable", p, g)'
      BY <1>l, <1>e, <2>2
    <2> QED  BY <2>3, LinkReaches DEF WillLink, WillReach, WorkerReaches
  <1>4. LinksGoing'
    <2> SUFFICES ASSUME NEW q \in Projects, NEW g \in Groups, <<g, q>> \in linked'
                 PROVE  LinkGoing(q, g)'
      BY DEF LinksGoing
    <2>1. CASE <<g, q>> \in linked
      <3>1. LinkGoing(q, g)
        BY <2>1 DEF LinksGoing
      <3> QED  BY <1>1, <1>l, <3>1 DEF LinkGoing
    <2>2. CASE q = p /\ work[w].task.msg.kind = "enable" /\ g \in project[p].groups
      BY <1>1, <1>e, <2>2 DEF LinkGoing
    <2> QED  BY <2>1, <2>2
  <1>5. AccessGoing'
    <2> SUFFICES ASSUME NEW q \in Projects, NEW u \in Users, <<u, q>> \in access'
                 PROVE  \E g \in project[q].groups : RowGoing(q, g, u)'
      BY <1>1 DEF AccessGoing
    <2>g. project[q].groups \subseteq Groups
      BY <1>t DEF TablesType
    <2>1. CASE <<u, q>> \in access
      <3>1. PICK g \in project[q].groups : RowGoing(q, g, u)
        BY <2>1 DEF AccessGoing
      <3>2. g \in Groups
        BY <2>g
      <3>3. CASE <<g, u>> \in member /\ (project[q].enabled \/ WillReach("disable", q, g, u))
        <4>1. project[q].enabled \/ WillReach("disable", q, g, u)'
          BY <1>r, <3>2, <3>3
        <4> QED  BY <1>1, <3>3, <4>1 DEF RowGoing
      <3>4. CASE project[q].enabled /\ WillWrite("remove", u, g, q)
        <4>1. u # Key(w)
          BY KeysApart
        <4>2. WillWrite("remove", u, g, q)'
          BY <1>t, <3>2, <3>4, <4>1, StepWrites DEF GrantInv
        <4> QED  BY <1>1, <3>4, <4>2 DEF RowGoing
      <3> QED  BY <3>1, <3>3, <3>4 DEF RowGoing
    <2>2. CASE q = p /\ work[w].task.msg.kind = "enable"
               /\ \E g \in project[p].groups : <<g, u>> \in member
      <3>1. PICK g \in project[p].groups : <<g, u>> \in member
        BY <2>2
      <3>2. RowGoing(p, g, u)'
        BY <1>1, <1>e, <2>2, <2>g, <3>1 DEF RowGoing
      <3> QED  BY <2>2, <3>2
    <2> QED  BY <2>1, <2>2
  <1> QED  BY <1>3, <1>4, <1>5

LEMMA ProjectTaskRevokes ==
    ASSUME TypeOK, GrantInv, RevokeInv, NEW w \in Workers,
           \/ ProjectTask(w) \/ GroupsTask(w) \/ ProjectMembers(w) \/ ProjectWrite(w)
           \/ ProjectDone(w) \/ \E g \in Groups : ProjectLink(w, g)
    PROVE  RevokeInv'
  <1>t. WorkType /\ TablesType
    BY TypeParts
  <1>1. work[w] # Idle /\ Key(w) \in Projects
    BY <1>t, ProjectMessage
       DEF ProjectTask, GroupsTask, ProjectMembers, ProjectWrite, ProjectDone, ProjectLink
  <1>p. PICK p \in Projects : p = Key(w)
    BY <1>1
  <1>w. ProjectWithin(w, p) /\ project[p].groups \subseteq Groups
    BY <1>1, <1>p, <1>t DEF RevokeInv, WorkWithin, On, TablesType
  <1>s. ASSUME NEW next, Step(w, next), next # Idle, next.task = work[w].task
        PROVE  work'[w] = next /\ project' = project /\ member' = member
    BY <1>t, <1>1, <1>s, StepShape DEF GrantInv
  <1>2. CASE ProjectTask(w)
    <2>1. PICK next : /\ next = [pc |-> "link", task |-> work[w].task,
                                todo |-> project[p].groups]
                      /\ Step(w, next) /\ UNCHANGED views
      BY <1>2, <1>p DEF ProjectTask
    <2>2. next # Idle /\ next.task = work[w].task
      BY <2>1 DEF Idle
    <2>3. work'[w] = next /\ project' = project
      BY <1>s, <2>1, <2>2
    <2>4. \A g \in project[p].groups : \A u : WorkerLinks(w, g)' /\ WorkerReaches(w, g, u)'
      BY <2>1, <2>3 DEF WorkerLinks, WorkerReaches
    <2>5. ProjectWithin(w, p)'
      BY <2>1, <2>3 DEF ProjectWithin
    <2> QED  BY <1>1, <1>p, <2>1, <2>2, <2>4, <2>5, ProjectStepRevokes DEF views
  <1>3. CASE GroupsTask(w)
    <2>1. PICK next : /\ next = [pc |-> "done", task |-> work[w].task]
                      /\ Step(w, next) /\ UNCHANGED views
      BY <1>3 DEF GroupsTask
    <2>2. next # Idle /\ next.task = work[w].task /\ work[w].task.msg.kind = "groups"
      BY <1>3, <2>1 DEF Idle, GroupsTask, At
    <2>3. ProjectWithin(w, p)'
      BY <1>s, <2>1, <2>2 DEF ProjectWithin
    <2> QED  BY <1>1, <1>p, <2>1, <2>2, <2>3, ProjectStepRevokes DEF views
  <1>4. CASE ProjectMembers(w)
    <2>1. PICK next : /\ next = [pc |-> "users", task |-> work[w].task,
                                todo |-> work[w].todo, users |-> MembersOf(work[w].group)]
                      /\ Step(w, next) /\ UNCHANGED views
      BY <1>4 DEF ProjectMembers
    <2>2. next # Idle /\ next.task = work[w].task /\ work[w].pc = "list"
      BY <1>4, <2>1 DEF Idle, ProjectMembers, At
    <2>3. work'[w] = next /\ project' = project /\ member' = member
      BY <1>s, <2>1, <2>2
    <2>4. \A g \in Groups : WorkerLinks(w, g) => WorkerLinks(w, g)'
      BY <2>1, <2>2, <2>3 DEF WorkerLinks
    <2>5. \A g \in Groups, u \in Users :
              <<g, u>> \in member /\ WorkerReaches(w, g, u) => WorkerReaches(w, g, u)'
      <3> SUFFICES ASSUME NEW g \in Groups, NEW u \in Users, <<g, u>> \in member,
                          WorkerReaches(w, g, u)
                   PROVE  WorkerReaches(w, g, u)'
        OBVIOUS
      <3>1. CASE WorkerLinks(w, g)
        BY <2>4, <3>1 DEF WorkerReaches
      <3>2. CASE work[w].group = g
        BY <2>1, <2>3, <3>2 DEF WorkerReaches, MembersOf
      <3> QED  BY <2>2, <3>1, <3>2 DEF WorkerReaches
    <2>6. ProjectWithin(w, p)'
      BY <1>w, <2>1, <2>2, <2>3 DEF ProjectWithin, MembersOf
    <2> QED  BY <1>1, <1>p, <2>1, <2>2, <2>4, <2>5, <2>6, ProjectStepRevokes DEF views
  <1>5. CASE ProjectWrite(w)
    <2>1. PICK next : /\ next = [pc |-> "link", task |-> work[w].task, todo |-> work[w].todo]
                      /\ Step(w, next)
      BY <1>5 DEF ProjectWrite
    <2>2. /\ next # Idle /\ next.task = work[w].task /\ work[w].pc = "users"
          /\ work[w].task.msg.kind \in {"enable", "disable"}
      BY <1>5, <2>1 DEF Idle, ProjectWrite, At
    <2>3. work'[w] = next /\ project' = project
      BY <1>s, <2>1, <2>2
    <2>4. /\ linked' = linked
          /\ access' = IF work[w].task.msg.kind = "enable"
                       THEN access \cup (work[w].users \X {p})
                       ELSE access \ (work[w].users \X {p})
      BY <1>5, <1>p DEF ProjectWrite
    <2>5. ASSUME NEW u \in Users, NEW q \in Projects, <<u, q>> \in access', <<u, q>> \notin access
          PROVE  /\ q = p /\ work[w].task.msg.kind = "enable"
                 /\ \E g \in project[p].groups : <<g, u>> \in member
      <3>1. q = p /\ work[w].task.msg.kind = "enable" /\ u \in work[w].users
        BY <2>4, <2>5
      <3> QED  BY <1>w, <2>2, <3>1 DEF ProjectWithin
    <2>6. \A g \in Groups : WorkerLinks(w, g) => WorkerLinks(w, g)'
      BY <2>1, <2>2, <2>3 DEF WorkerLinks
    <2>7. \A g \in Groups, u \in Users :
              work[w].task.msg.kind = "disable" /\ WorkerReaches(w, g, u) =>
                  WorkerReaches(w, g, u)' \/ <<u, p>> \notin access'
      BY <2>2, <2>4, <2>6 DEF WorkerReaches
    <2>8. ProjectWithin(w, p)'
      BY <1>w, <2>1, <2>2, <2>3 DEF ProjectWithin
    <2> QED  BY <1>1, <1>p, <2>1, <2>2, <2>4, <2>5, <2>6, <2>7, <2>8, ProjectStepRevokes
  <1>6. CASE ProjectDone(w)
    <2>1. PICK next : /\ next = [pc |-> "done", task |-> work[w].task]
                      /\ Step(w, next) /\ UNCHANGED views
      BY <1>6 DEF ProjectDone
    <2>2. /\ next # Idle /\ next.task = work[w].task
          /\ work[w].pc = "link" /\ work[w].todo = {}
      BY <1>6, <2>1 DEF Idle, ProjectDone, At
    <2>3. \A g, u : ~WorkerLinks(w, g) /\ ~WorkerReaches(w, g, u)
      BY <2>2 DEF WorkerLinks, WorkerReaches
    <2>4. ProjectWithin(w, p)'
      BY <1>s, <2>1, <2>2 DEF ProjectWithin
    <2> QED  BY <1>1, <1>p, <2>1, <2>2, <2>3, <2>4, ProjectStepRevokes DEF views
  <1>7. ASSUME NEW h \in Groups, ProjectLink(w, h)
        PROVE  RevokeInv'
    <2>1. PICK next : /\ next = [pc |-> "list", task |-> work[w].task,
                                todo |-> work[w].todo \ {h}, group |-> h]
                      /\ Step(w, next)
      BY <1>7 DEF ProjectLink
    <2>2. /\ next # Idle /\ next.task = work[w].task /\ work[w].pc = "link"
          /\ work[w].task.msg.kind \in {"enable", "disable"}
          /\ h \in work[w].todo
      BY <1>7, <2>1 DEF Idle, ProjectLink, At
    <2>3. work'[w] = next /\ project' = project
      BY <1>s, <2>1, <2>2
    <2>h. h \in project[p].groups
      BY <1>w, <2>2 DEF ProjectWithin
    <2>4. /\ access' = access
          /\ linked' = IF work[w].task.msg.kind = "enable"
                       THEN linked \cup {<<h, p>>} ELSE linked \ {<<h, p>>}
      BY <1>7, <1>p DEF ProjectLink
    <2>5. \A g \in Groups, q \in Projects : <<g, q>> \in linked' =>
              \/ <<g, q>> \in linked
              \/ q = p /\ work[w].task.msg.kind = "enable" /\ g \in project[p].groups
      BY <2>4, <2>h
    <2>6. \A g \in Groups : WorkerLinks(w, g) => WorkerLinks(w, g)' \/ g = h
      BY <2>1, <2>2, <2>3 DEF WorkerLinks
    <2>7. \A g \in Groups, u \in Users : WorkerReaches(w, g, u) => WorkerReaches(w, g, u)'
      <3>1. \A u : WorkerReaches(w, h, u)'
        BY <2>1, <2>3 DEF WorkerReaches
      <3>2. \A g \in Groups, u \in Users : WorkerReaches(w, g, u) => WorkerLinks(w, g)
        BY <2>2 DEF WorkerReaches
      <3>3. \A g, u : WorkerLinks(w, g)' => WorkerReaches(w, g, u)'
        BY DEF WorkerReaches
      <3> QED  BY <2>6, <3>1, <3>2, <3>3
    <2>8. work[w].task.msg.kind = "disable" => <<h, p>> \notin linked'
      BY <2>4
    <2>9. ProjectWithin(w, p)'
      BY <1>w, <2>1, <2>2, <2>3, <2>h DEF ProjectWithin
    <2> QED  BY <1>1, <1>p, <2>1, <2>2, <2>4, <2>5, <2>6, <2>7, <2>8, <2>9,
                ProjectStepRevokes
  <1> QED  BY <1>2, <1>3, <1>4, <1>5, <1>6, <1>7
-----------------------------------------------------------------------------
(* Revocations arrive.                                                       *)

LEMMA NoteNone ==
    ASSUME NEW S, Note(S), lost' = {}
    PROVE  lost = {} /\ ~Conflict'
  BY DEF Note, Summary

\* A step that notes nothing lets no tasks race.
LEMMA CalmStep ==
    ASSUME TypeOK, lost = {} => Owned /\ ~Conflict, [Next]_vars, lost' = {}
    PROVE  lost = {} /\ ~Conflict'
  <1>t. QueueType
    BY TypeParts
  <1>n. \A w \in Workers : ~Expire(w)
    BY NotedSteps
  <1>s. ASSUME queue' = queue, lost' = lost
        PROVE  lost = {} /\ ~Conflict'
    BY <1>s DEF Conflict, Pending
  <1>1. CASE Api
    <2>1. \/ \E S : Note(S)
          \/ queue' = queue /\ lost' = lost
      BY <1>1 DEF Api, AddUser, RemoveUser, SetGroup, DeleteGroup, DeletionRemoves,
                  DeletionEnds, UpdateProject, SetProject, WillSend
    <2> QED  BY <1>s, <2>1, NoteNone
  <1>2. CASE Listen
    <2>1. ASSUME NEW k \in Keys, NEW w \in Workers, Receive(k, w)
          PROVE  lost = {} /\ ~Conflict'
      <3>1. lost = {} /\ Owned /\ ~Conflict
        BY <2>1 DEF Receive
      <3>2. \A j \in Keys : /\ Len(queue'[j]) = Len(queue[j])
                            /\ \A i \in 1..Len(queue[j]) : queue'[j][i].msg = queue[j][i].msg
        BY <2>1, <3>1, ReceiveShape
      <3>3. \A j \in Keys : queue'[j] # <<>> => queue[j] # <<>>
        <4>1. \A j \in Keys : queue[j] \in Seq(Tasks) /\ queue'[j] \in Seq(Tasks)
          <5>1. QueueType'
            BY <1>2, ListenTypes DEF TypeOK, QueueType
          <5> QED  BY <1>t, <5>1 DEF QueueType
        <4> QED  BY <3>2, <4>1
      <3> QED  BY <3>1, <3>2, <3>3, NoNewConflict
    <2>2. ASSUME NEW k \in Keys, DeadLetter(k)
          PROVE  lost = {} /\ ~Conflict'
      BY <2>2, NoteNone DEF DeadLetter
    <2> QED  BY <1>2, <2>1, <2>2 DEF Listen
  <1>3. ASSUME NEW w \in Workers, Work(w)
        PROVE  lost = {} /\ ~Conflict'
    <2>1. CASE Finish(w)
      <3>k. PICK k : k = Key(w)
        OBVIOUS
      <3>1. lost = {} /\ Owned /\ ~Conflict
        BY <2>1 DEF Finish
      <3>2. k \in Keys /\ queue[k] # <<>> /\ queue' = [queue EXCEPT ![k] = Tail(@)]
        BY <2>1, <3>k, <3>1, FinishOwned
      <3>3. /\ \A j \in Keys \ {k} : queue'[j] = queue[j]
            /\ \A i \in 1..Len(queue'[k]) :
                  i + 1 \in 1..Len(queue[k]) /\ queue'[k][i] = queue[k][i + 1]
        BY <1>t, <3>2, Shifted
      <3>4. \A j \in Keys : \A i \in 1..Len(queue'[j]) :
                \E l \in 1..Len(queue[j]) : queue[j][l].msg = queue'[j][i].msg
        BY <3>3
      <3>5. \A j \in Keys : queue'[j] # <<>> => queue[j] # <<>>
        BY <3>2, <3>3
      <3> QED  BY <3>1, <3>4, <3>5, NoNewConflict
    <2>2. CASE ~Finish(w)
      <3>1. \/ \E S : Note(S)
            \/ queue' = queue /\ lost' = lost
        BY <1>3, <2>2 DEF Work, MemberTask, MemberEnrols, MemberExists, MemberFails, MemberWrite, ProjectTask, GroupsTask,
                    ProjectMembers, ProjectWrite, ProjectLink, ProjectDone, Step
      <3> QED  BY <1>s, <3>1, NoteNone
    <2> QED  BY <2>1, <2>2
  <1>4. CASE \/ Forget \/ UNCHANGED vars \/ \E w \in Workers : Crash(w)
             \/ \E g \in Groups : SyncGroup(g)
    BY <1>s, <1>4 DEF Forget, Crash, SyncGroup, vars
  <1>5. CASE Sender \/ \E k \in Keys : \E i \in Unsent(k) : SendFails(k, i)
    BY <1>5, <1>s, SendQuiet
  <1> QED  BY <1>n, <1>1, <1>2, <1>3, <1>4, <1>5 DEF Next

LEMMA QuietRevokes ==
    ASSUME TypeOK, RevokeInv, UNCHANGED <<member, project, views, queue, work>>
    PROVE  RevokeInv'
  <1>1. \A k \in Keys : \A v \in On(k)' : v \in On(k) /\ work'[v] = work[v]
    BY DEF On, Key
  <1> QED  BY <1>1, TypeParts, SameMessagesWill, HandRevokes

LEMMA RevokeStep ==
    ASSUME RevokeIInv, [Next]_vars, lost' = {}
    PROVE  ~Conflict' /\ RevokeInv'
  <1>i. TypeOK /\ GrantInv /\ ~Conflict /\ RevokeInv /\ Owned /\ ~Conflict'
    BY CalmStep DEF RevokeIInv, GrantIInv, GrantInv
  <1>n. lost' \subseteq {"raced"}
    OBVIOUS
  <1>m. /\ \A k \in Keys : ~DeadLetter(k)
        /\ \A w \in Workers : ~Expire(w) /\ ~MemberExists(w)
    BY <1>n, NotedSteps
  <1>1. CASE Api
    <2>1. ASSUME NEW g \in Groups, \/ \E on \in {"on", "off"} : SetGroup(g, on)
                                   \/ DeleteGroup(g) \/ DeletionEnds(g)
          PROVE  RevokeInv'
      BY <1>i, <2>1, QuietRevokes DEF SetGroup, DeleteGroup, Call, DeletionEnds, Deleting
    <2>2. TablesType'
      BY <1>1, <1>i, ApiTypes DEF TypeOK, TablesType
    <2>3. \/ \E g \in Groups : \/ \E on \in {"on", "off"} : SetGroup(g, on)
                               \/ DeleteGroup(g) \/ DeletionEnds(g)
          \/ Told
      BY <1>1, <1>i, <1>n, MemberCallTold, UpdateProjectTold, SetProjectTold DEF Api
    <2> QED  BY <1>i, <2>1, <2>2, <2>3, CallRevokes
  <1>2. CASE Listen
    BY <1>2, <1>m, <1>i, ReceiveRevokes DEF Listen
  <1>3. ASSUME NEW w \in Workers, Work(w)
        PROVE  RevokeInv'
    <2>1. CASE MemberFails(w)
      <3>1. work[w] # Idle
        BY <1>i, <2>1, MemberMessage, TypeParts DEF MemberFails, MemberRaises
      <3> QED  BY <1>i, <2>1, <3>1, StopRevokes DEF MemberFails
    <2> QED  BY <1>3, <1>i, <1>n, <1>m, <2>1, MemberTaskRevokes, MemberEnrolsRevokes,
                MemberWriteRevokes, ProjectTaskRevokes, FinishRevokes DEF Work
  <1>4. ASSUME NEW w \in Workers, Crash(w)
        PROVE  RevokeInv'
    BY <1>4, <1>i, StopRevokes DEF Crash
  <1>5. CASE Forget \/ UNCHANGED vars \/ \E g \in Groups : SyncGroup(g)
    BY <1>5, <1>i, QuietRevokes DEF Forget, SyncGroup, vars, tables
  <1>6. CASE Sender \/ \E k \in Keys : \E i \in Unsent(k) : SendFails(k, i)
    BY <1>6, <1>i, <1>n, SendQuiet, QuietRevokes
  <1> QED  BY <1>i, <1>m, <1>1, <1>2, <1>3, <1>4, <1>5, <1>6 DEF Next

LEMMA RevokeInit == Init => ~Conflict /\ RevokeInv
  <1> SUFFICES ASSUME Init PROVE ~Conflict /\ RevokeInv
    OBVIOUS
  <1>1. ~Conflict
    BY DEF Init, Conflict, Keys
  <1>2. WorkWithin
    BY DEF Init, WorkWithin, On
  <1>3. LinksGoing
    BY DEF Init, LinksGoing, LinkGoing
  <1>4. AccessGoing
    <2> SUFFICES ASSUME NEW p \in Projects, NEW u \in Users, <<u, p>> \in access
                 PROVE  \E g \in project[p].groups : RowGoing(p, g, u)
      BY DEF AccessGoing
    <2>1. u \in Entitled(p)
      BY DEF Init
    <2> QED  BY <2>1 DEF Entitled, MembersOf, RowGoing
  <1> QED  BY <1>1, <1>2, <1>3, <1>4 DEF RevokeInv

\* When the queue is empty, what was to go has gone.
LEMMA RevokesFollow == RevokeIInv => RevokesArrive
  <1> SUFFICES ASSUME RevokeIInv, Quiet, lost = {},
                      NEW p \in Projects, NEW u \in Users, <<u, p>> \in access
               PROVE  u \in Entitled(p)
    BY DEF RevokesArrive
  <1>1. PICK g \in project[p].groups : RowGoing(p, g, u)
    BY DEF RevokeIInv, RevokeInv, AccessGoing
  <1>2. Len(queue[u]) = 0 /\ Len(queue[p]) = 0
    BY KeysApart DEF Quiet
  <1>3. ~WillWrite("remove", u, g, p) /\ ~WillReach("disable", p, g, u)
    BY <1>2 DEF WillWrite, WillReach
  <1> QED  BY <1>1, <1>3 DEF RowGoing, Entitled, MembersOf

\* Whatever calls about groups, members and projects interleave with their tasks, and
\* whatever crashed and was delivered again: when the queue is empty, only who is
\* entitled to a project has access, unless tasks about a user and a project raced,
\* a call overtook another one between its write and its message, or a task was kept
\* from its effect for another named cause.
THEOREM RevokesCorrect == Spec => []RevokesArrive
  <1>1. Init => RevokeIInv
    BY InitTypes, GrantInit, RevokeInit DEF RevokeIInv, GrantIInv
  <1>2. RevokeIInv /\ [Next]_vars => RevokeIInv'
    <2> SUFFICES ASSUME RevokeIInv, [Next]_vars PROVE RevokeIInv'
      OBVIOUS
    <2>1. GrantIInv'
      BY GrantKept DEF RevokeIInv
    <2>2. lost' = {} => ~Conflict' /\ RevokeInv'
      BY RevokeStep
    <2> QED  BY <2>1, <2>2 DEF RevokeIInv
  <1> QED  BY <1>1, <1>2, RevokesFollow, PTL DEF Spec
=============================================================================
