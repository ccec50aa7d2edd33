------------------------ MODULE JobProvisioningQueue ------------------------
(***************************************************************************)
(* The provisioning queue of one queue profile of the scheduler            *)
(* (idea-scheduler): RoundRobinPriorityQueue, a ring of one priority queue   *)
(* per job group, under JobProvisioningQueue, which also tracks the queued   *)
(* jobs by id; the threads that put jobs into it (the job monitor, the node  *)
(* housekeeper) and the provisioner thread that gets them, provisions them   *)
(* and puts the failed ones back.  The priority queues are Python's binary   *)
(* heaps, element by element: an entry's priority is an attribute that put   *)
(* changes while the entry is in a heap.                                     *)
(* The lock of each structure makes its operations atomic.  A put to a full  *)
(* priority queue waits for room while it holds both locks.                  *)
(***************************************************************************)
EXTENDS Naturals, Sequences, FiniteSets

CONSTANTS
    Jobs,       \* job ids, as integers
    NoJob,      \* no job
    Groups,     \* job groups
    GroupOf,    \* the job's group: its own, or the queue profile's only one
                \* when the capacity is ephemeral
    QueueOf,    \* the position of the job's queue in queue_profile.queues
    QueueTime,  \* when the job was submitted
    Putters,    \* threads that put: the job monitor, the node housekeeper
    FairShare,  \* queue_mode is FAIRSHARE, not FIFO
    Scores,     \* bound: the fair share scores a job may have
    Limits,     \* queue_management_params sets limits
    MaxSize     \* maxsize_per_queue

ASSUME ConstantsAssumption ==
    /\ Jobs \subseteq Nat
    /\ NoJob \notin Jobs
    /\ GroupOf \in [Jobs -> Groups]
    /\ QueueOf \in [Jobs -> Nat \ {0}]
    /\ QueueTime \in [Jobs -> Nat]
    /\ FairShare \in BOOLEAN
    /\ Scores \subseteq Nat
    /\ Limits \in BOOLEAN
    /\ MaxSize \in Nat \ {0}

VARIABLES
    job,      \* the job, as the scheduler and the job cache have it
    prio,     \* QueuedJob.priority, of the jobs that have an entry
    tracked,  \* _queued_jobs
    ring,     \* _queues: the groups and their heaps
    index,    \* _index, from 0
    blocked,  \* a put waits for room and holds the locks
    putter,   \* the job each putting thread has listed
    getter    \* the provisioner thread: where it is, and with which job

vars == <<job, prio, tracked, ring, index, blocked, putter, getter>>

\* A queued job whose capacity is provisioned is still QUEUED to the scheduler.
JobStates == {"absent", "queued", "provisioned", "running", "gone"}
GetterSteps == {"poll", "popped", "provision", "reput"}

-----------------------------------------------------------------------------
(* Python's heapq on the entries of a PriorityQueue, compared by their        *)
(* priorities pr.  Positions start at 1.                                     *)

\* The positions from i up to the root: the smallest set that has i and, with a
\* position, the one above it.
Upward(S) == \A k \in S \ {1} : k \div 2 \in S
Ancestors(i) ==
    {a \in 1 .. i : \A S \in SUBSET (1 .. i) : i \in S /\ Upward(S) => a \in S}

\* The entry at i moves up past every ancestor it is less than.
RisesTo(pr, h, i, k) ==
    /\ \A a \in Ancestors(i) \ {i} : a >= k => pr[h[i]] < pr[h[a]]
    /\ k = 1 \/ ~(pr[h[i]] < pr[h[k \div 2]])
SiftDown(pr, h, i) ==
    LET top == CHOOSE k \in Ancestors(i) : RisesTo(pr, h, i, k)
    IN  [k \in 1 .. Len(h) |->
            CASE k = top                       -> h[i]
              [] k \in Ancestors(i) /\ k > top -> h[k \div 2]
              [] OTHER                         -> h[k]]

HeapPush(pr, h, j) == SiftDown(pr, Append(h, j), Len(h) + 1)

\* The child that moves up into a hole at i.
SmallerChild(pr, h, i) ==
    IF 2 * i + 1 <= Len(h) /\ ~(pr[h[2 * i]] < pr[h[2 * i + 1]])
    THEN 2 * i + 1 ELSE 2 * i

\* The holes from the root down: each is the smaller child of the one above.
Holes(pr, h) ==
    {i \in 1 .. Len(h) :
        \A a \in Ancestors(i) \ {1} : a = SmallerChild(pr, h, a \div 2)}

\* The last entry fills the lowest hole and is sifted from there.
HeapPop(pr, h) ==
    LET rest == SubSeq(h, 1, Len(h) - 1)
        holes == Holes(pr, rest)
        leaf == CHOOSE i \in holes : \A k \in holes : k <= i
    IN  IF rest = <<>> THEN rest
        ELSE SiftDown(pr, [i \in 1 .. Len(rest) |->
                              CASE i = leaf     -> h[Len(h)]
                                [] i \in holes \ {leaf} -> rest[SmallerChild(pr, rest, i)]
                                [] OTHER        -> rest[i]],
                      leaf)

-----------------------------------------------------------------------------
(* put: one critical section, under the queue's lock and the ring's          *)

\* get_queue_order: the loop over the profile's queues reuses the name of its
\* parameter, so the first queue matches whatever the job's queue is.
GetQueueOrder(position) == 1

\* Mutant: the priority leaves out when the job was submitted.
PrioritiesById(j) == {GetQueueOrder(QueueOf[j]) * j}

\* _get_job_priority.  A fair share score depends on the other jobs of the
\* owner and on the time; the job id breaks ties.
Priorities(j) ==
    {base * GetQueueOrder(QueueOf[j]) + j :
        base \in IF FairShare THEN Scores ELSE {QueueTime[j]}}

EntryOf(r, g) == CHOOSE i \in 1 .. Len(r) : r[i].group = g

\* The ring, with an entry for the group.
WithEntry(g) ==
    IF \E i \in 1 .. Len(ring) : ring[i].group = g THEN ring
    ELSE Append(ring, [group |-> g, heap |-> <<>>])

\* A job that is tracked has its priority evaluated again, in place: its entry
\* stays where it is in the heap.
PutAgain(j) ==
    /\ j \in tracked
    /\ \E p \in Priorities(j) : prio' = [prio EXCEPT ![j] = p]
    /\ UNCHANGED <<tracked, ring, index, blocked>>

\* Mutant: the new job is not tracked.
PutNewUntracked(j) ==
    /\ j \notin tracked
    /\ LET r == WithEntry(GroupOf[j])
           i == EntryOf(r, GroupOf[j])
       IN  /\ Len(r[i].heap) < MaxSize
           /\ \E p \in Priorities(j) : prio' = [prio EXCEPT ![j] = p]
           /\ ring' = [r EXCEPT ![i].heap = HeapPush(prio', r[i].heap, j)]
    /\ UNCHANGED <<tracked, index, blocked>>

PutNew(j) ==
    /\ j \notin tracked
    /\ LET r == WithEntry(GroupOf[j])
           i == EntryOf(r, GroupOf[j])
       IN  /\ Len(r[i].heap) < MaxSize
           /\ \E p \in Priorities(j) : prio' = [prio EXCEPT ![j] = p]
           /\ ring' = [r EXCEPT ![i].heap = HeapPush(prio', r[i].heap, j)]
    /\ tracked' = tracked \cup {j}
    /\ UNCHANGED <<index, blocked>>

\* PriorityQueue.put waits for room without a timeout, and holds the two locks
\* that get needs to make room.
PutFull(j) ==
    /\ j \notin tracked
    /\ LET r == WithEntry(GroupOf[j])
       IN  /\ Len(r[EntryOf(r, GroupOf[j])].heap) = MaxSize
           /\ ring' = r
    /\ blocked' = TRUE
    /\ UNCHANGED <<prio, tracked, index>>

Put(j) == ~blocked /\ (PutAgain(j) \/ PutNew(j) \/ PutFull(j))

-----------------------------------------------------------------------------
(* The threads that put *)

\* The job monitor lists the jobs of the scheduler, the node housekeeper those
\* of the job cache: queued and not provisioned.
ListJob(p, j) ==
    /\ putter[p] = NoJob
    /\ job[j] = "queued"
    /\ putter' = [putter EXCEPT ![p] = j]
    /\ UNCHANGED <<job, prio, tracked, ring, index, blocked, getter>>

\* The listed job is put: put checks the listed copy, not the job.
PutListed(p, j) ==
    /\ putter[p] = j
    /\ Put(j)
    /\ putter' = [putter EXCEPT ![p] = IF blocked' THEN j ELSE NoJob]
    /\ UNCHANGED <<job, getter>>

-----------------------------------------------------------------------------
(* The provisioner thread *)

Go(step, j) == getter' = [step |-> step, job |-> j]

\* Mutant: the turn stays with a group as long as it has jobs.
NextIndexSame(i, n) == i
NextIndex(i, n) == (i + 1) % n

\* RoundRobinPriorityQueue.get: the first entry of the group whose turn it is.
RingGet ==
    /\ getter.step = "poll"
    /\ ~blocked
    /\ ring # <<>>
    /\ LET i == index + 1
           h == ring[i].heap
       IN  /\ h # <<>>
           /\ ring' = [ring EXCEPT ![i].heap = HeapPop(prio, h)]
           /\ Go("popped", h[1])
    /\ index' = NextIndex(index, Len(ring))
    /\ UNCHANGED <<job, prio, tracked, blocked, putter>>

\* Mutant: the index stays, past the end when the last group is removed.
IndexKept(i) == i
\* Mutant: the first group's removal takes the index below 0.
IndexBelow(i) == i - 1
\* max(0, _index - 1)
IndexBack(i) == IF i > 0 THEN i - 1 ELSE 0

\* An empty priority queue leaves the ring: nothing is put meanwhile, the ring's
\* lock is held.
RingDrop ==
    /\ getter.step = "poll"
    /\ ~blocked
    /\ ring # <<>>
    /\ ring[index + 1].heap = <<>>
    /\ ring' = SubSeq(ring, 1, index) \o SubSeq(ring, index + 2, Len(ring))
    /\ index' = IndexBack(index)
    /\ UNCHANGED <<job, prio, tracked, blocked, putter, getter>>

\* _remove_queued_job, in get's finally
RemoveQueuedJob(j) ==
    /\ tracked' = tracked \ {j}
    /\ prio' = [prio EXCEPT ![j] = 0]

\* The job is gone, finished or running.
GetDrops ==
    /\ getter.step = "popped"
    /\ ~blocked
    /\ job[getter.job] \notin {"queued", "provisioned"}
    /\ RemoveQueuedJob(getter.job)
    /\ Go("poll", NoJob)
    /\ UNCHANGED <<job, ring, index, blocked, putter>>

\* Mutant: the job stays tracked for the queue it should be put back into.
GetLimitedTracked ==
    /\ getter.step = "popped"
    /\ ~blocked
    /\ Limits
    /\ job[getter.job] \in {"queued", "provisioned"}
    /\ Go("poll", NoJob)
    /\ UNCHANGED <<job, prio, tracked, ring, index, blocked, putter>>

\* A limit does not hold: the job is put, which finds it tracked, and then the
\* job is removed.
GetLimited ==
    /\ getter.step = "popped"
    /\ ~blocked
    /\ Limits
    /\ job[getter.job] \in {"queued", "provisioned"}
    /\ RemoveQueuedJob(getter.job)
    /\ Go("poll", NoJob)
    /\ UNCHANGED <<job, ring, index, blocked, putter>>

\* The job is returned; _poll_queue provisions it unless it is provisioned.
GetReturns ==
    /\ getter.step = "popped"
    /\ ~blocked
    /\ job[getter.job] \in {"queued", "provisioned"}
    /\ RemoveQueuedJob(getter.job)
    /\ IF job[getter.job] = "provisioned" THEN Go("poll", NoJob)
                                          ELSE Go("provision", getter.job)
    /\ UNCHANGED <<job, ring, index, blocked, putter>>

\* A try succeeds, or fails once the job is marked provisioned, when put will
\* ignore it; the job was deleted; a failed stack is left to the node
\* housekeeper, or an error to the next listing.
ProvisionEnds ==
    /\ getter.step = "provision"
    /\ \/ UNCHANGED job
       \/ /\ job[getter.job] = "queued"
          /\ job' = [job EXCEPT ![getter.job] = "provisioned"]
    /\ Go("poll", NoJob)
    /\ UNCHANGED <<prio, tracked, ring, index, blocked, putter>>

\* Five tries have failed.
ProvisionFails ==
    /\ getter.step = "provision"
    /\ Go("reput", getter.job)
    /\ UNCHANGED <<job, prio, tracked, ring, index, blocked, putter>>

\* The copy that get returned is put: queued and not provisioned.
PutBack ==
    /\ getter.step = "reput"
    /\ Put(getter.job)
    /\ IF blocked' THEN UNCHANGED getter ELSE Go("poll", NoJob)
    /\ UNCHANGED <<job, putter>>

-----------------------------------------------------------------------------
(* The jobs: submitted, started and ended in the scheduler, provisioned above *)
(* or reset by the node housekeeper when their capacity is lost              *)

JobStep(j, from, to) ==
    /\ job[j] \in from
    /\ job' = [job EXCEPT ![j] = to]
    /\ UNCHANGED <<prio, tracked, ring, index, blocked, putter, getter>>

JobSubmitted(j) == JobStep(j, {"absent"}, "queued")
JobRuns(j) == JobStep(j, {"provisioned"}, "running")
JobEnds(j) == JobStep(j, {"queued", "provisioned", "running"}, "gone")
JobReset(j) == JobStep(j, {"provisioned"}, "queued")

-----------------------------------------------------------------------------
Init ==
    /\ job = [j \in Jobs |-> "absent"]
    /\ prio = [j \in Jobs |-> 0]
    /\ tracked = {}
    /\ ring = <<>>
    /\ index = 0
    /\ blocked = FALSE
    /\ putter = [p \in Putters |-> NoJob]
    /\ getter = [step |-> "poll", job |-> NoJob]

Getter == RingGet \/ RingDrop \/ GetDrops \/ GetLimited \/ GetReturns
          \/ ProvisionEnds \/ ProvisionFails \/ PutBack
Environment == \E j \in Jobs : JobSubmitted(j) \/ JobRuns(j) \/ JobEnds(j) \/ JobReset(j)

Next ==
    \/ Getter
    \/ \E p \in Putters, j \in Jobs : ListJob(p, j) \/ PutListed(p, j)
    \/ Environment

Spec == Init /\ [][Next]_vars
\* The provisioner thread runs on.
FairSpec == Spec /\ WF_vars(Getter)

-----------------------------------------------------------------------------
(* Properties *)

Popped == IF getter.step = "popped" THEN {getter.job} ELSE {}
InHeaps == UNION {{ring[i].heap[k] : k \in 1 .. Len(ring[i].heap)} : i \in 1 .. Len(ring)}

\* The variables have the shapes of the queue's fields and no heap is longer
\* than maxsize_per_queue.
TypeOK ==
    /\ job \in [Jobs -> JobStates]
    /\ prio \in [Jobs -> Nat]
    /\ tracked \in SUBSET Jobs
    /\ ring \in Seq([group : Groups, heap : Seq(Jobs)])
    /\ \A i \in 1 .. Len(ring) : Len(ring[i].heap) <= MaxSize
    /\ index \in Nat
    /\ blocked \in BOOLEAN
    /\ putter \in [Putters -> Jobs \cup {NoJob}]
    /\ getter \in [step : GetterSteps, job : Jobs \cup {NoJob}]

\* _queued_jobs and the heaps stay in step however the threads interleave: a job
\* is tracked as long as it is in a heap or get has it in hand, it is in one
\* place only, and that is its own group's heap.
InOneHeap ==
    /\ tracked = InHeaps \cup Popped
    /\ InHeaps \cap Popped = {}
    /\ \A i \in 1 .. Len(ring) : \A k, l \in 1 .. Len(ring[i].heap) :
          /\ GroupOf[ring[i].heap[k]] = ring[i].group
          /\ ring[i].heap[k] = ring[i].heap[l] => k = l

\* The position of RoundRobinPriorityQueue.get is a group of the ring whenever
\* there is one, however groups come and go, and no group has two turns.
RingInRange ==
    /\ index = 0 \/ index < Len(ring)
    /\ \A i, k \in 1 .. Len(ring) : ring[i].group = ring[k].group => i = k

\* The jobs wait in the heaps, in the order of their submission.
Fifo == INSTANCE FifoJobGroups WITH
            waiting <- InHeaps,
            inHand  <- Popped,
            Rank    <- [j \in Jobs |-> QueueTime[j] + j]

\* "maintaining order or jobs being provisioned (fifo or fair-share)": in FIFO
\* mode the ring of heaps is the abstract queue, whatever is put, put again or
\* removed meanwhile: get takes the first waiting job of a group, once, and no
\* other step takes one.
ServesInOrder == Fifo!Spec

\* The putting threads go through all the queued jobs again and again.
ListingGoesOn ==
    /\ \A j \in Jobs : []<>(job[j] = "queued" => \E p \in Putters : putter[p] = j)
    /\ \A p \in Putters : []<>(putter[p] = NoJob)

\* "if blocked, current job will be added to retry queue": get drops a job that a
\* limit blocks, and what makes up for it is the next listing.  However often
\* that happens, and whatever a put of the job came between, a job that waits
\* for capacity gets into the heap of its group again.
QueuedComesBack ==
    ListingGoesOn =>
        \A j \in Jobs : job[j] = "queued" ~> j \in InHeaps \/ job[j] # "queued"

\* No job group starves: a group with queued jobs has one of them taken, however
\* many jobs of other groups are put.
GroupsAreServed ==
    \A g \in Groups :
        (\E i \in 1 .. Len(ring) : ring[i].group = g /\ ring[i].heap # <<>>)
            ~> (getter.step = "popped" /\ GroupOf[getter.job] = g)
=============================================================================
