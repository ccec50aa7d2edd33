-------------------------- MODULE ProjectMembership --------------------------
(***************************************************************************)
(* Who may use a project, in the cluster manager.  The API writes groups,   *)
(* their members and the projects' groups; the user-projects table, which   *)
(* decides who may use a project, is brought up to date by tasks: messages  *)
(* on an SQS FIFO queue that the TaskManager of any cluster manager hands   *)
(* to its workers.  A message about a user is ordered after the others      *)
(* about that user, one about a project after those about that project, and *)
(* nothing orders the two.  A call writes its tables first and sends its    *)
(* message then, and two calls need not send in the order of their writes.  *)
(***************************************************************************)
EXTENDS Naturals, FiniteSets, Sequences

CONSTANTS
    Users, Groups, Projects,
    Workers,    \* worker threads, of all cluster managers together
    ReadOnly,   \* the directory is one that the cluster manager must not change
    MaxReceive, \* receives before a message goes to the dead letter queue
    MaxCalls,   \* bound: API calls
    MaxFaults   \* bound: failing calls, crashes and late tasks

ASSUME ConstantsAssumption ==
    /\ Users \cap Projects = {}
    /\ ReadOnly \in BOOLEAN
    /\ MaxReceive \in Nat \ {0} /\ MaxCalls \in Nat /\ MaxFaults \in Nat

VARIABLES
    group,   \* the groups table: on (enabled), off or gone
    removal, \* the call that is deleting a group, and the members it still has to remove
    member,  \* the group-members table
    project, \* the projects table: enabled and the project's groups
    linked,  \* the project-groups table
    access,  \* the user-projects table
    known,   \* groups that the directory has
    enrolled,\* the members of its groups
    queue,   \* by message group id, the tasks in the order of the calls' writes
    sent,    \* how many of them have been sent: these are the messages on SQS
    hidden,  \* message group ids whose first message is in flight
    recent,  \* what was sent in the last five minutes
    work,    \* what the workers do
    lost,    \* history: what may have kept a task from its effect
    calls,   \* how many API calls there were
    faults   \* how many faults there were

tables == <<group, removal, member, project>>
views == <<linked, access>>
directory == <<known, enrolled>>
vars == <<tables, views, directory, queue, sent, hidden, recent, work, lost,
          calls, faults>>

Keys == Users \cup Projects
Idle == [pc |-> "idle"]
NoRemoval == [call |-> 0, users |-> {}]

MembersOf(g) == {u \in Users : <<g, u>> \in member}

\* The users that the tables entitle to project p.
Entitled(p) ==
    IF project[p].enabled
    THEN UNION {MembersOf(g) : g \in project[p].groups}
    ELSE {}

\* Whatever calls came before, their tasks are done.
Init ==
    /\ group = [g \in Groups |-> "on"]
    /\ removal = [g \in Groups |-> NoRemoval]
    /\ member \in SUBSET (Groups \X Users)
    /\ project \in [Projects -> [enabled : BOOLEAN, groups : SUBSET Groups]]
    /\ linked = {gp \in Groups \X Projects :
                    project[gp[2]].enabled /\ gp[1] \in project[gp[2]].groups}
    /\ access = {up \in Users \X Projects : up[1] \in Entitled(up[2])}
    /\ known = Groups
    /\ enrolled = member
    /\ queue = [k \in Keys |-> <<>>]
    /\ sent = [k \in Keys |-> 0]
    /\ hidden = {}
    /\ recent = {}
    /\ work = [w \in Workers |-> Idle]
    /\ lost = {}
    /\ calls = 0
    /\ faults = 0

Fault == faults < MaxFaults /\ faults' = faults + 1

-----------------------------------------------------------------------------
(* The tasks of the calls.                                                  *)

Message(kind, k, gs) == [kind |-> kind, key |-> k, groups |-> gs]

Pending(kinds) == {k \in Keys :
    \E i \in 1..Len(queue[k]) : queue[k][i].msg.kind \in kinds}

\* Tasks about a user and about a project are to come, not all of them to grant.
Conflict ==
    /\ \E u \in Users : queue[u] # <<>>
    /\ \E p \in Projects : queue[p] # <<>>
    /\ Pending({"remove", "disable"}) # {}

\* What no property tells apart is written as one.
Summary(causes) == IF causes \subseteq {"raced", "regroup"} THEN causes ELSE {"other"}

Note(causes) ==
    lost' = Summary(lost \cup causes \cup (IF Conflict' THEN {"raced"} ELSE {}))

\* A call that has written its tables is going to send a message.
Queued(call, m) ==
    [queue EXCEPT ![m.key] = Append(@, [id |-> call, tries |-> 0, msg |-> m])]

WillSend(call, m) == queue' = Queued(call, m) /\ Note({})

Call ==
    /\ calls < MaxCalls
    /\ calls' = calls + 1
    /\ UNCHANGED <<views, directory, sent, hidden, recent, work, faults>>

-----------------------------------------------------------------------------
(* The API: what its calls write.                                           *)

\* accounts.add_users_to_group
AddUser(u, g) ==
    /\ group[g] = "on"
    /\ Call
    /\ member' = member \cup {<<g, u>>}
    /\ WillSend(calls + 1, Message("add", u, {g}))
    /\ UNCHANGED <<group, removal, project>>

\* accounts.remove_users_from_group, also from a disabled group with force.
RemoveUser(u, g) ==
    /\ group[g] # "gone"
    /\ Call
    /\ member' = member \ {<<g, u>>}
    /\ WillSend(calls + 1, Message("remove", u, {g}))
    /\ UNCHANGED <<group, removal, project>>

\* accounts.enable_group and disable_group: the projects do not notice.
SetGroup(g, on) ==
    /\ group[g] \notin {on, "gone"}
    /\ Call
    /\ group' = [group EXCEPT ![g] = on]
    /\ UNCHANGED <<removal, member, project, queue, lost>>

\* accounts.delete_group with force reads the members, removes them one after the
\* other, and then deletes the group, which their tasks may still need.
DeleteGroup(g) ==
    /\ group[g] # "gone" /\ removal[g] = NoRemoval
    /\ Call
    /\ removal' = [removal EXCEPT ![g] = [call |-> calls + 1, users |-> MembersOf(g)]]
    /\ UNCHANGED <<group, member, project, queue, lost>>

Unsent(k) == sent[k] + 1 .. Len(queue[k])

\* The call that deletes g goes on, when it has sent what it had to send.
Deleting(g) ==
    /\ removal[g] # NoRemoval
    /\ \A k \in Keys : \A i \in Unsent(k) : queue[k][i].id # removal[g].call
    /\ UNCHANGED <<project, views, directory, sent, hidden, recent, work, calls, faults>>

DeletionRemoves(g, u) ==
    /\ Deleting(g)
    /\ u \in removal[g].users
    /\ removal' = [removal EXCEPT ![g].users = @ \ {u}]
    /\ member' = member \ {<<g, u>>}
    /\ WillSend(removal[g].call, Message("remove", u, {g}))
    /\ UNCHANGED group

DeletionEnds(g) ==
    /\ Deleting(g)
    /\ removal[g].users = {}
    /\ removal' = [removal EXCEPT ![g] = NoRemoval]
    /\ group' = [group EXCEPT ![g] = "gone"]
    /\ UNCHANGED <<member, queue, lost>>

\* projects.update_project with other groups.  The task of an enabled project
\* has no effect, and a task that waits will read the new groups.  No groups at
\* all are written without a task.
UpdateProject(p, gs) ==
    /\ \A g \in gs \ project[p].groups : group[g] # "gone"
    /\ Call
    /\ project' = [project EXCEPT ![p].groups = gs]
    /\ queue' = IF project[p].enabled /\ gs # {}
                THEN Queued(calls + 1, Message("groups", p, gs)) ELSE queue
    /\ Note(IF gs # project[p].groups /\ (project[p].enabled \/ queue[p] # <<>>)
            THEN {"regroup"} ELSE {})
    /\ UNCHANGED <<group, removal, member>>

\* projects.enable_project and disable_project, whatever the project's state
SetProject(p, enabled) ==
    /\ Call
    /\ project' = [project EXCEPT ![p].enabled = enabled]
    /\ WillSend(calls + 1, Message(IF enabled THEN "enable" ELSE "disable", p, {}))
    /\ UNCHANGED <<group, removal, member>>

-----------------------------------------------------------------------------
(* TaskManager.send and the queue.                                          *)

\* SQS accepts a message that was sent a short while ago and delivers it never.
Dropped(m) == m \in recent

\* Enabling and disabling a project have deduplication ids of their own.
Remembered(m) == IF m.kind \in {"enable", "disable"} THEN {} ELSE {m}

\* The sequence s without its i-th element, and with that as its j-th, j <= i.
Without(s, i) == [n \in 1..Len(s) - 1 |-> IF n < i THEN s[n] ELSE s[n + 1]]
Moved(s, i, j) ==
    [n \in 1..Len(s) |-> IF n < j \/ n > i THEN s[n] ELSE IF n = j THEN s[i] ELSE s[n - 1]]

Sending(k, i) ==
    /\ i \in Unsent(k)
    /\ UNCHANGED <<group, member, project, views, directory, hidden, work, calls>>

\* The i-th task about k is sent.  A call that sends before one that wrote
\* earlier has its task executed first.
Send(k, i) ==
    /\ Sending(k, i)
    /\ ~Dropped(queue[k][i].msg)
    /\ sent' = [sent EXCEPT ![k] = @ + 1]
    /\ recent' = recent \cup Remembered(queue[k][i].msg)
    /\ IF i = sent[k] + 1
       THEN UNCHANGED <<queue, lost>>
       ELSE /\ queue' = [queue EXCEPT ![k] = Moved(@, i, sent[k] + 1)]
            /\ Note({"overtaken"})
    /\ UNCHANGED <<removal, faults>>

SendIsDropped(k, i) ==
    /\ Sending(k, i)
    /\ Dropped(queue[k][i].msg)
    /\ queue' = [queue EXCEPT ![k] = Without(@, i)]
    /\ Note({"duplicate"})
    /\ UNCHANGED <<removal, sent, recent, faults>>

\* The call raises, or its cluster manager stops, after the tables were written.
SendFails(k, i) ==
    /\ Sending(k, i)
    /\ Fault
    /\ queue' = [queue EXCEPT ![k] = Without(@, i)]
    /\ removal' = [g \in Groups |-> IF removal[g].call = queue[k][i].id
                                     THEN NoRemoval ELSE removal[g]]
    /\ Note({"unsent"})
    /\ UNCHANGED <<sent, recent>>

-----------------------------------------------------------------------------
(* TaskManager.task_queue_listener and execute_task.                        *)

\* The first message of k is deleted.
FirstDeleted(k) ==
    /\ queue' = [queue EXCEPT ![k] = Tail(@)]
    /\ sent' = [sent EXCEPT ![k] = @ - 1]

\* Mutant: the listener deletes a message when it receives it.
ReceiveDeletes(k, w) ==
    /\ sent[k] > 0 /\ k \notin hidden
    /\ work[w] = Idle
    /\ FirstDeleted(k)
    /\ work' = [work EXCEPT ![w] = [pc |-> "start", task |-> Head(queue[k])]]
    /\ UNCHANGED <<tables, views, directory, hidden, recent, lost, calls, faults>>

\* A message that is received is out of sight with those behind it.
Receive(k, w) ==
    /\ sent[k] > 0 /\ k \notin hidden
    /\ work[w] = Idle
    /\ Head(queue[k]).tries < MaxReceive
    /\ queue' = [queue EXCEPT ![k][1].tries = @ + 1]
    /\ hidden' = hidden \cup {k}
    /\ work' = [work EXCEPT ![w] = [pc |-> "start", task |-> Head(queue'[k])]]
    /\ UNCHANGED <<tables, views, directory, sent, recent, lost, calls, faults>>

\* The queue has given the message to somebody too often.
Exhausted(k) == Head(queue[k]).tries = MaxReceive

DeadLetter(k) ==
    /\ sent[k] > 0 /\ k \notin hidden
    /\ Exhausted(k)
    /\ FirstDeleted(k)
    /\ Note({"dead"})
    /\ UNCHANGED <<tables, views, directory, hidden, recent, work, calls, faults>>

Step(w, next) ==
    /\ work' = [work EXCEPT ![w] = next]
    /\ UNCHANGED <<tables, queue, sent, hidden, recent, calls, faults>>

At(w, pc, kinds) == work[w].pc = pc /\ work[w].task.msg.kind \in kinds

Key(w) == work[w].task.msg.key

\* The receipt handle is good for as long as nobody else received the message.
Holds(w) ==
    /\ Key(w) \in hidden
    /\ work[w].task = Head(queue[Key(w)])

\* The visibility timeout passes and the message can be received again.
Again(w) == hidden' = IF Holds(w) THEN hidden \ {Key(w)} ELSE hidden

GroupOf(w) == CHOOSE g \in work[w].task.msg.groups : TRUE

\* GroupMembershipUpdatedTask: a group that is gone raises, a disabled group is
\* passed over.
MemberTask(w) ==
    /\ At(w, "start", {"add", "remove"})
    /\ group[GroupOf(w)] # "gone"
    /\ IF group[GroupOf(w)] = "on"
       THEN Step(w, [pc |-> "enrol", task |-> work[w].task]) /\ UNCHANGED lost
       ELSE Step(w, [pc |-> "done", task |-> work[w].task]) /\ Note({"off"})
    /\ UNCHANGED <<views, directory>>

\* The directory knows no such group, or the user is not in it to be removed.
Refused(w) ==
    /\ ~ReadOnly
    /\ \/ GroupOf(w) \notin known
       \/ work[w].task.msg.kind = "remove" /\ <<GroupOf(w), Key(w)>> \notin enrolled

\* Adding a member again is no error with OpenLDAP and may be one, ALREADY_EXISTS,
\* with Active Directory.
Exists(w) ==
    /\ ~ReadOnly /\ ~Refused(w)
    /\ work[w].task.msg.kind = "add" /\ <<GroupOf(w), Key(w)>> \in enrolled

\* The directory first, and then the group's projects are read.
MemberEnrols(w) ==
    /\ At(w, "enrol", {"add", "remove"})
    /\ ~Refused(w)
    /\ enrolled' = IF ReadOnly THEN enrolled
                   ELSE IF work[w].task.msg.kind = "add"
                   THEN enrolled \cup {<<GroupOf(w), Key(w)>>}
                   ELSE enrolled \ {<<GroupOf(w), Key(w)>>}
    /\ Step(w, [pc |-> "write", task |-> work[w].task,
                projects |-> {p \in Projects : <<GroupOf(w), p>> \in linked}])
    /\ UNCHANGED <<views, known, lost>>

\* execute_task deletes the message of a task that raises ALREADY_EXISTS.
MemberExists(w) ==
    /\ At(w, "enrol", {"add", "remove"})
    /\ Exists(w)
    /\ Step(w, [pc |-> "done", task |-> work[w].task])
    /\ Note({"exists"})
    /\ UNCHANGED <<views, directory>>

\* The group was deleted, or the directory refuses: the message stays.
MemberRaises(w) ==
    \/ At(w, "start", {"add", "remove"}) /\ group[GroupOf(w)] = "gone"
    \/ At(w, "enrol", {"add", "remove"}) /\ Refused(w)

\* Mutant: a task that fails is sent again.
MemberFailsSends(w) ==
    /\ MemberRaises(w)
    /\ Again(w)
    /\ queue' = IF Holds(w) /\ sent[Key(w)] = Len(queue[Key(w)])
                THEN [queue EXCEPT ![Key(w)] =
                        Append(Tail(@), [Head(@) EXCEPT !.tries = 0])]
                ELSE queue
    /\ work' = [work EXCEPT ![w] = Idle]
    /\ UNCHANGED <<tables, views, directory, sent, recent, lost, calls, faults>>

\* The task fails, and fails again when it is received again.
MemberFails(w) ==
    /\ MemberRaises(w)
    /\ Again(w)
    /\ work' = [work EXCEPT ![w] = Idle]
    /\ UNCHANGED <<tables, views, directory, queue, sent, recent, lost, calls, faults>>

\* Whoever is still in another group of an enabled project loses access, too.
Shared(w) ==
    \E p \in work[w].projects, g \in Groups \ {GroupOf(w)} :
        project[p].enabled /\ g \in project[p].groups /\ Key(w) \in MembersOf(g)

MemberWrite(w) ==
    /\ At(w, "write", {"add", "remove"})
    /\ Step(w, [pc |-> "done", task |-> work[w].task])
    /\ LET rows == {Key(w)} \X work[w].projects IN
       IF work[w].task.msg.kind = "add"
       THEN access' = access \cup rows /\ UNCHANGED lost
       ELSE access' = access \ rows /\ Note(IF Shared(w) THEN {"shared"} ELSE {})
    /\ UNCHANGED <<linked, directory>>

\* SyncGroupInDirectoryServiceTask makes the directory follow the groups table.
\* Its messages have a message group of their own: it runs some time after the
\* group was enabled, disabled or deleted, or never.
SyncGroup(g) ==
    /\ ~ReadOnly
    /\ (g \in known) # (group[g] = "on")
    /\ known' = IF group[g] = "on" THEN known \cup {g} ELSE known \ {g}
    /\ enrolled' = {gu \in enrolled : gu[1] # g}
    /\ UNCHANGED <<tables, views, queue, sent, hidden, recent, work, lost, calls, faults>>

\* ProjectEnabledTask and ProjectDisabledTask read the project's groups now.
ProjectTask(w) ==
    /\ At(w, "start", {"enable", "disable"})
    /\ Step(w, [pc |-> "link", task |-> work[w].task, todo |-> project[Key(w)].groups])
    /\ UNCHANGED <<views, directory, lost>>

\* ProjectGroupsUpdatedTask: the sets of groups arrive as text and read as none.
GroupsTask(w) ==
    /\ At(w, "start", {"groups"})
    /\ Step(w, [pc |-> "done", task |-> work[w].task])
    /\ UNCHANGED <<views, directory, lost>>

\* Mutant: a disabled project keeps its links.
ProjectLinkKept(w, g) ==
    /\ At(w, "link", {"enable", "disable"})
    /\ g \in work[w].todo
    /\ linked' = linked \cup {<<g, Key(w)>>}
    /\ Step(w, [pc |-> "list", task |-> work[w].task,
                todo |-> work[w].todo \ {g}, group |-> g])
    /\ UNCHANGED <<access, directory, lost>>

\* ldap_group_added and ldap_group_removed, for the next of the groups: the link
\* first, and then the group's members.
ProjectLink(w, g) ==
    /\ At(w, "link", {"enable", "disable"})
    /\ g \in work[w].todo
    /\ linked' = IF work[w].task.msg.kind = "enable" THEN linked \cup {<<g, Key(w)>>}
                 ELSE linked \ {<<g, Key(w)>>}
    /\ Step(w, [pc |-> "list", task |-> work[w].task,
                todo |-> work[w].todo \ {g}, group |-> g])
    /\ UNCHANGED <<access, directory, lost>>

ProjectMembers(w) ==
    /\ At(w, "list", {"enable", "disable"})
    /\ Step(w, [pc |-> "users", task |-> work[w].task, todo |-> work[w].todo,
                users |-> MembersOf(work[w].group)])
    /\ UNCHANGED <<views, directory, lost>>

ProjectWrite(w) ==
    /\ At(w, "users", {"enable", "disable"})
    /\ LET rows == work[w].users \X {Key(w)} IN
       access' = IF work[w].task.msg.kind = "enable"
                 THEN access \cup rows ELSE access \ rows
    /\ Step(w, [pc |-> "link", task |-> work[w].task, todo |-> work[w].todo])
    /\ UNCHANGED <<linked, directory, lost>>

ProjectDone(w) ==
    /\ At(w, "link", {"enable", "disable"})
    /\ work[w].todo = {}
    /\ Step(w, [pc |-> "done", task |-> work[w].task])
    /\ UNCHANGED <<views, directory, lost>>

\* Mutant: the message is deleted whoever received it last.
FinishForAll(w) ==
    /\ work[w].pc = "done"
    /\ Again(w)
    /\ IF sent[Key(w)] > 0 THEN FirstDeleted(Key(w)) ELSE UNCHANGED <<queue, sent>>
    /\ work' = [work EXCEPT ![w] = Idle]
    /\ UNCHANGED <<tables, views, directory, recent, lost, calls, faults>>

\* The message is deleted.
Finish(w) ==
    /\ work[w].pc = "done"
    /\ Again(w)
    /\ IF Holds(w) THEN FirstDeleted(Key(w)) ELSE UNCHANGED <<queue, sent>>
    /\ work' = [work EXCEPT ![w] = Idle]
    /\ UNCHANGED <<tables, views, directory, recent, lost, calls, faults>>

\* A call of the task raises or its cluster manager stops, or the listener finds
\* the thread pool at its capacity and releases what it received.
Crash(w) ==
    /\ work[w] # Idle
    /\ Fault
    /\ Again(w)
    /\ work' = [work EXCEPT ![w] = Idle]
    /\ UNCHANGED <<tables, views, directory, queue, sent, recent, lost, calls>>

\* The task takes longer than the visibility timeout and goes on.
Expire(w) ==
    /\ work[w] # Idle
    /\ Holds(w)
    /\ Fault
    /\ hidden' = hidden \ {Key(w)}
    /\ UNCHANGED <<tables, views, directory, queue, sent, recent, work, calls>>
    /\ Note({"late"})

\* Five minutes pass since the last message.
Forget ==
    /\ recent # {}
    /\ recent' = {}
    /\ UNCHANGED <<tables, views, directory, queue, sent, hidden, work, lost, calls,
                   faults>>

-----------------------------------------------------------------------------
Api ==
    \/ \E u \in Users, g \in Groups : AddUser(u, g) \/ RemoveUser(u, g)
    \/ \E g \in Groups, on \in {"on", "off"} : SetGroup(g, on)
    \/ \E g \in Groups : DeleteGroup(g) \/ DeletionEnds(g)
    \/ \E u \in Users, g \in Groups : DeletionRemoves(g, u)
    \/ \E p \in Projects, gs \in SUBSET Groups : UpdateProject(p, gs)
    \/ \E p \in Projects, enabled \in BOOLEAN : SetProject(p, enabled)

Sender == \E k \in Keys : \E i \in Unsent(k) : Send(k, i) \/ SendIsDropped(k, i)

Listen == \E k \in Keys : DeadLetter(k) \/ \E w \in Workers : Receive(k, w)

Work(w) ==
    \/ MemberTask(w) \/ MemberEnrols(w) \/ MemberExists(w) \/ MemberFails(w)
    \/ MemberWrite(w)
    \/ ProjectTask(w) \/ GroupsTask(w) \/ ProjectMembers(w) \/ ProjectWrite(w)
    \/ \E g \in Groups : ProjectLink(w, g)
    \/ ProjectDone(w) \/ Finish(w)

Next ==
    \/ Api
    \/ Sender
    \/ \E k \in Keys : \E i \in Unsent(k) : SendFails(k, i)
    \/ Listen
    \/ \E w \in Workers : Work(w) \/ Crash(w) \/ Expire(w)
    \/ \E g \in Groups : SyncGroup(g)
    \/ Forget

Spec == Init /\ [][Next]_vars

\* A call sends what it has to, the listener polls for as long as it runs, and a
\* worker goes on.
FairSpec ==
    /\ Spec
    /\ WF_vars(Sender)
    /\ WF_vars(Listen)
    /\ \A w \in Workers : WF_vars(Work(w))

-----------------------------------------------------------------------------
Causes == {"raced", "regroup", "other"}

UserMessages == [kind : {"add", "remove"}, key : Users,
                 groups : {{g} : g \in Groups}]
ProjectMessages == [kind : {"enable", "disable", "groups"}, key : Projects,
                    groups : SUBSET Groups]
Tasks == [id : 1..MaxCalls, tries : 0..MaxReceive,
          msg : UserMessages \cup ProjectMessages]

\* What a worker knows, by how far it has come.
WorkStates ==
    {Idle} \cup [pc : {"start", "enrol", "done"}, task : Tasks]
           \cup [pc : {"write"}, task : Tasks, projects : SUBSET Projects]
           \cup [pc : {"link"}, task : Tasks, todo : SUBSET Groups]
           \cup [pc : {"list"}, task : Tasks, todo : SUBSET Groups, group : Groups]
           \cup [pc : {"users"}, task : Tasks, todo : SUBSET Groups,
                 users : SUBSET Users]

\* The variables have their types: a task is in its own message group, and a
\* message group that is in flight has a task.
TypeOK ==
    /\ group \in [Groups -> {"on", "off", "gone"}]
    /\ removal \in [Groups -> {NoRemoval} \cup [call : 1..MaxCalls, users : SUBSET Users]]
    /\ member \subseteq Groups \X Users
    /\ project \in [Projects -> [enabled : BOOLEAN, groups : SUBSET Groups]]
    /\ linked \subseteq Groups \X Projects
    /\ access \subseteq Users \X Projects
    /\ known \subseteq Groups /\ enrolled \subseteq Groups \X Users
    /\ queue \in [Keys -> Seq(Tasks)]
    /\ \A k \in Keys : \A i \in 1..Len(queue[k]) : queue[k][i].msg.key = k
    /\ sent \in [Keys -> Nat] /\ \A k \in Keys : sent[k] <= Len(queue[k])
    /\ hidden \subseteq {k \in Keys : sent[k] > 0}
    /\ work \in [Workers -> WorkStates]
    /\ lost \subseteq Causes
    /\ calls \in 0..MaxCalls /\ faults \in 0..MaxFaults

Quiet == (\A k \in Keys : queue[k] = <<>>) /\ (\A w \in Workers : work[w] = Idle)

\* When every task is done, everybody whom the tables entitle to a project has
\* access to it, whatever memberships, enabling and disabling raced and whatever
\* was delivered again after a crash: a link is written before the members are
\* read, and a member before the links are.  That holds for the calls that send
\* in the order of their writes, unless a task was late, dropped, never sent,
\* passed over, refused by the directory or given up.
GrantsArrive ==
    Quiet /\ lost \subseteq {"raced"} =>
        \A p \in Projects : Entitled(p) \X {p} \subseteq access

\* When every task is done, nobody else has access, unless for one of those causes
\* or because tasks about a user and about a project raced.
RevokesArrive ==
    Quiet /\ lost = {} =>
        \A p \in Projects, u \in Users : <<u, p>> \in access => u \in Entitled(p)

\* When the calls stop, the tasks come to an end: a task that always fails does
\* not keep those behind it in its message group for ever.
Drained == <>[]Quiet

\* The groups of an enabled project can be changed at any time.
GroupsTakeEffect ==
    Quiet /\ lost \subseteq {"regroup"} =>
        \A p \in Projects : Entitled(p) \X {p} \subseteq access
=============================================================================
