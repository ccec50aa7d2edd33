--------------------- MODULE JobProvisioningQueueProofs ---------------------
(***************************************************************************)
(* Theorems about the provisioning queue, for any number of jobs, groups and *)
(* putting threads, any limits and any size of the priority queues.  What    *)
(* the heap operations return is in JobProvisioningHeapProofs.               *)
(***************************************************************************)
EXTENDS JobProvisioningHeapProofs

-----------------------------------------------------------------------------
(* The ring of heaps.                                                        *)

GroupQueue == [group : Groups, heap : Seq(Jobs)]

\* The jobs in the heaps of a ring.
InRing(r) == UNION {Entries(r[i].heap) : i \in 1 .. Len(r)}

\* A ring has one entry for a group, and in its heap only jobs of the group,
\* each once.
GoodRing(r) ==
    /\ r \in Seq(GroupQueue)
    /\ \A i \in 1 .. Len(r) : /\ Len(r[i].heap) <= MaxSize
                              /\ Distinct(r[i].heap)
                              /\ \A x \in Entries(r[i].heap) : GroupOf[x] = r[i].group
    /\ \A i, k \in 1 .. Len(r) : r[i].group = r[k].group => i = k

Ordered(pr, r) == \A i \in 1 .. Len(r) : IsHeap(pr, r[i].heap)

\* The inductive invariant.  In FIFO mode an entry has the priority that put
\* gave it, and every heap is one.
QueueInv ==
    /\ job \in [Jobs -> JobStates]
    /\ prio \in [Jobs -> Nat]
    /\ tracked \in SUBSET Jobs
    /\ blocked \in BOOLEAN
    /\ putter \in [Putters -> Jobs \cup {NoJob}]
    /\ getter \in [step : GetterSteps, job : Jobs \cup {NoJob}]
    /\ getter.step # "poll" => getter.job \in Jobs
    /\ GoodRing(ring)
    /\ index \in Nat /\ (index = 0 \/ index < Len(ring))
    /\ tracked = InRing(ring) \cup Popped
    /\ InRing(ring) \cap Popped = {}
    /\ ~FairShare => /\ \A j \in tracked : prio[j] = QueueTime[j] + j
                     /\ Ordered(prio, ring)

\* The entries of a ring, one by one.
LEMMA RingEntries ==
    ASSUME NEW r, r \in Seq(GroupQueue)
    PROVE  /\ Len(r) \in Nat
           /\ \A i \in 1 .. Len(r) :
                 /\ r[i] \in GroupQueue
                 /\ r[i].group \in Groups
                 /\ r[i].heap \in Seq(Jobs)
                 /\ Len(r[i].heap) \in Nat
                 /\ Entries(r[i].heap) \subseteq Jobs
           /\ InRing(r) \subseteq Jobs
  <1>1. Len(r) \in Nat /\ \A i \in 1 .. Len(r) : r[i] \in GroupQueue
    BY LenProperties, ElementOfSeq
  <1>2. \A e \in GroupQueue : e.group \in Groups /\ e.heap \in Seq(Jobs)
    BY DEF GroupQueue
  <1>3. ASSUME NEW h \in Seq(Jobs)
        PROVE  Len(h) \in Nat /\ Entries(h) \subseteq Jobs
    BY LenProperties, ElementOfSeq DEF Entries
  <1>4. InRing(r) \subseteq Jobs
    BY <1>1, <1>2, <1>3 DEF InRing
  <1> QED  BY <1>1, <1>2, <1>3, <1>4

\* A ring without groups.
LEMMA EmptyRing ==
    GoodRing(<<>>) /\ InRing(<<>>) = {} /\ Len(<<>>) = 0 /\ \A pr : Ordered(pr, <<>>)
  <1>1. <<>> \in Seq(GroupQueue) /\ Len(<<>>) = 0
    BY EmptySeq
  <1> QED  BY <1>1 DEF GoodRing, InRing, Ordered

\* An empty heap.
LEMMA EmptyHeap ==
    /\ <<>> \in Seq(Jobs) /\ Len(<<>>) = 0 /\ Entries(<<>>) = {} /\ Distinct(<<>>)
    /\ \A pr : IsHeap(pr, <<>>)
  <1>1. <<>> \in Seq(Jobs) /\ Len(<<>>) = 0
    BY EmptySeq
  <1> QED  BY <1>1 DEF Entries, Distinct, IsHeap

\* put finds the group's entry, or appends one with an empty heap.
LEMMA WithEntryGood ==
    ASSUME GoodRing(ring), NEW g \in Groups
    PROVE  LET r == WithEntry(g)
           IN  /\ GoodRing(r)
               /\ Len(r) \in Nat /\ Len(r) >= Len(ring)
               /\ InRing(r) = InRing(ring)
               /\ EntryOf(r, g) \in 1 .. Len(r)
               /\ r[EntryOf(r, g)].group = g
               /\ \A pr : Ordered(pr, ring) => Ordered(pr, r)
  <1> DEFINE r == WithEntry(g)
             new == [group |-> g, heap |-> <<>>]
  <1>1. ring \in Seq(GroupQueue) /\ Len(ring) \in Nat
    BY RingEntries DEF GoodRing
  <1>2. /\ GoodRing(r) /\ Len(r) \in Nat /\ Len(r) >= Len(ring)
        /\ InRing(r) = InRing(ring)
        /\ \E i \in 1 .. Len(r) : r[i].group = g
        /\ \A pr : Ordered(pr, ring) => Ordered(pr, r)
    <2>1. CASE \E i \in 1 .. Len(ring) : ring[i].group = g
      BY <1>1, <2>1 DEF WithEntry
    <2>2. CASE ~ \E i \in 1 .. Len(ring) : ring[i].group = g
      <3>1. r = Append(ring, new)
        BY <2>2 DEF WithEntry
      <3>2. new \in GroupQueue
        BY EmptyHeap DEF GroupQueue
      <3>3. /\ new.group = g
            /\ Len(new.heap) = 0 /\ Entries(new.heap) = {} /\ Distinct(new.heap)
            /\ \A pr : IsHeap(pr, new.heap)
        BY EmptyHeap
      <3> HIDE DEF new
      <3>4. /\ r \in Seq(GroupQueue)
            /\ Len(r) = Len(ring) + 1
            /\ \A i \in 1 .. Len(ring) : r[i] = ring[i]
            /\ r[Len(ring) + 1] = new
        BY <1>1, <3>1, <3>2, AppendProperties
      <3> HIDE DEF r
      <3>5. /\ \A i \in 1 .. Len(r) : i = Len(ring) + 1 \/ i \in 1 .. Len(ring)
            /\ \A i \in 1 .. Len(ring) : i \in 1 .. Len(r)
            /\ Len(ring) + 1 \in 1 .. Len(r)
        BY <1>1, <3>4
      <3>6. ASSUME NEW i \in 1 .. Len(r)
            PROVE  /\ Len(r[i].heap) <= MaxSize
                   /\ Distinct(r[i].heap)
                   /\ \A x \in Entries(r[i].heap) : GroupOf[x] = r[i].group
        <4>1. CASE i \in 1 .. Len(ring)
          BY <3>4, <4>1 DEF GoodRing
        <4>2. CASE i = Len(ring) + 1
          BY <3>3, <3>4, <4>2, ConstantsAssumption
        <4> QED  BY <3>5, <4>1, <4>2
      <3>7. \A i, k \in 1 .. Len(r) : r[i].group = r[k].group => i = k
        BY <2>2, <3>3, <3>4, <3>5 DEF GoodRing
      <3>8. InRing(r) = InRing(ring)
        BY <3>3, <3>4, <3>5 DEF InRing
      <3>9. \A pr : Ordered(pr, ring) => Ordered(pr, r)
        BY <3>3, <3>4, <3>5 DEF Ordered
      <3>10. GoodRing(r)
        BY <3>4, <3>6, <3>7 DEF GoodRing
      <3>11. Len(r) \in Nat /\ Len(r) >= Len(ring)
        BY <1>1, <3>4
      <3> QED  BY <3>3, <3>4, <3>5, <3>8, <3>9, <3>10, <3>11
    <2> QED  BY <2>1, <2>2
  <1> HIDE DEF r
  <1>3. EntryOf(r, g) \in 1 .. Len(r) /\ r[EntryOf(r, g)].group = g
    BY <1>2 DEF EntryOf
  <1> QED  BY <1>2, <1>3 DEF r

\* Another heap for one group, after a push or a pop: the other groups keep
\* theirs, and no job is in two of them.
LEMMA NewHeap ==
    ASSUME NEW r, GoodRing(r), NEW n \in 1 .. Len(r), NEW h \in Seq(Jobs),
           Len(h) <= MaxSize, Distinct(h),
           \A x \in Entries(h) : GroupOf[x] = r[n].group
    PROVE  LET s == [r EXCEPT ![n].heap = h]
           IN  /\ GoodRing(s)
               /\ Len(s) = Len(r)
               /\ InRing(s) = (InRing(r) \ Entries(r[n].heap)) \cup Entries(h)
               /\ \A pr : Ordered(pr, r) /\ IsHeap(pr, h) => Ordered(pr, s)
  <1> DEFINE e == [group |-> r[n].group, heap |-> h]
             s == [r EXCEPT ![n] = e]
  <1>1. /\ r \in Seq(GroupQueue)
        /\ \A i \in 1 .. Len(r) : r[i] \in GroupQueue
    BY RingEntries DEF GoodRing
  <1>2. [r EXCEPT ![n].heap = h] = s
    <2>1. [r EXCEPT ![n].heap = h] = [r EXCEPT ![n] = [r[n] EXCEPT !.heap = h]]
      OBVIOUS
    <2>2. [r[n] EXCEPT !.heap = h] = e
      BY <1>1 DEF GroupQueue
    <2> QED  BY <2>1, <2>2
  <1>3. e \in GroupQueue /\ e.group = r[n].group /\ e.heap = h
    BY <1>1 DEF GroupQueue
  <1> HIDE DEF e
  <1>4. /\ s \in Seq(GroupQueue)
        /\ Len(s) = Len(r)
        /\ \A i \in 1 .. Len(r) : s[i] = IF i = n THEN e ELSE r[i]
    BY <1>1, <1>3, ExceptSeq
  <1> HIDE DEF s
  <1>5. \A i \in 1 .. Len(r) : s[i].group = r[i].group
    BY <1>3, <1>4
  <1>6. s[n].heap = h /\ \A i \in 1 .. Len(r) : i # n => s[i].heap = r[i].heap
    BY <1>3, <1>4
  <1>7. ASSUME NEW i \in 1 .. Len(s)
        PROVE  /\ Len(s[i].heap) <= MaxSize
               /\ Distinct(s[i].heap)
               /\ \A x \in Entries(s[i].heap) : GroupOf[x] = s[i].group
    <2>1. CASE i = n
      BY <1>4, <1>5, <1>6, <2>1
    <2>2. CASE i # n
      BY <1>4, <1>5, <1>6, <2>2 DEF GoodRing
    <2> QED  BY <2>1, <2>2
  <1>8. GoodRing(s)
    BY <1>4, <1>5, <1>7 DEF GoodRing
  <1>9. InRing(s) = (InRing(r) \ Entries(r[n].heap)) \cup Entries(h)
    <2>1. ASSUME NEW i \in 1 .. Len(r), i # n, NEW x \in Entries(r[i].heap)
          PROVE  x \notin Entries(r[n].heap)
      <3>1. GroupOf[x] = r[i].group
        BY DEF GoodRing
      <3>2. \A y \in Entries(r[n].heap) : GroupOf[y] = r[n].group
        BY DEF GoodRing
      <3>3. r[i].group # r[n].group
        BY <2>1 DEF GoodRing
      <3> QED  BY <3>1, <3>2, <3>3
    <2>2. ASSUME NEW x \in InRing(s)
          PROVE  x \in (InRing(r) \ Entries(r[n].heap)) \cup Entries(h)
      <3>1. PICK i \in 1 .. Len(r) : x \in Entries(s[i].heap)
        BY <1>4, <2>2 DEF InRing
      <3>2. CASE i = n
        BY <1>6, <3>1, <3>2
      <3>3. CASE i # n
        <4>1. x \in Entries(r[i].heap)
          BY <1>6, <3>1, <3>3
        <4>2. x \in InRing(r)
          BY <4>1 DEF InRing
        <4> QED  BY <2>1, <3>3, <4>1, <4>2
      <3> QED  BY <3>2, <3>3
    <2>3. ASSUME NEW x \in InRing(r), x \notin Entries(r[n].heap)
          PROVE  x \in InRing(s)
      <3>1. PICK i \in 1 .. Len(r) : x \in Entries(r[i].heap)
        BY DEF InRing
      <3>2. x \in Entries(s[i].heap)
        BY <1>6, <2>3, <3>1
      <3> QED  BY <1>4, <3>2 DEF InRing
    <2>4. ASSUME NEW x \in Entries(h)
          PROVE  x \in InRing(s)
      BY <1>4, <1>6 DEF InRing
    <2> QED  BY <2>2, <2>3, <2>4
  <1>10. \A pr : Ordered(pr, r) /\ IsHeap(pr, h) => Ordered(pr, s)
    BY <1>4, <1>6 DEF Ordered
  <1> QED  BY <1>2, <1>4, <1>8, <1>9, <1>10

\* Removing a group that has an empty heap, as get does, loses no job.
LEMMA DropEntry ==
    ASSUME NEW r, GoodRing(r), NEW n \in Nat, n < Len(r), Len(r[n + 1].heap) = 0
    PROVE  LET s == SubSeq(r, 1, n) \o SubSeq(r, n + 2, Len(r))
           IN  /\ GoodRing(s)
               /\ Len(s) = Len(r) - 1
               /\ InRing(s) = InRing(r)
               /\ \A pr : Ordered(pr, r) => Ordered(pr, s)
  <1> DEFINE a == SubSeq(r, 1, n)
             b == SubSeq(r, n + 2, Len(r))
             s == a \o b
             from(i) == IF i <= n THEN i ELSE i + 1
  <1>1. r \in Seq(GroupQueue) /\ Len(r) \in Nat
    BY LenProperties DEF GoodRing
  <1>2. a \in Seq(GroupQueue) /\ Len(a) = n /\ \A i \in 1 .. n : a[i] = r[i]
    BY <1>1
  <1>3. b \in Seq(GroupQueue) /\ Len(b) = Len(r) - n - 1
        /\ \A i \in 1 .. Len(b) : b[i] = r[n + 1 + i]
    <2> DEFINE lo == n + 2
               hi == Len(r)
    <2>1. lo \in Int /\ hi \in Int /\ lo <= hi + 1
      BY <1>1
    <2>2. \A i \in lo .. hi : r[i] \in GroupQueue
      BY <1>1, ElementOfSeq
    <2> HIDE DEF lo, hi
    <2>3. /\ SubSeq(r, lo, hi) \in Seq(GroupQueue)
          /\ Len(SubSeq(r, lo, hi)) = IF lo <= hi THEN hi - lo + 1 ELSE 0
          /\ \A i \in 1 .. hi - lo + 1 : SubSeq(r, lo, hi)[i] = r[lo + i - 1]
      BY <2>1, <2>2, SubSeqProperties
    <2> HIDE DEF b
    <2>4. b = SubSeq(r, lo, hi)
      BY DEF b, lo, hi
    <2>5. b \in Seq(GroupQueue) /\ Len(b) = hi - lo + 1
          /\ \A i \in 1 .. Len(b) : b[i] = r[lo + i - 1]
      BY <2>1, <2>3, <2>4
    <2>6. hi - lo + 1 = Len(r) - n - 1 /\ \A i \in Nat : lo + i - 1 = n + 1 + i
      BY <1>1 DEF lo, hi
    <2>7. \A i \in 1 .. Len(b) : b[i] = r[n + 1 + i]
      BY <2>5, <2>6
    <2> QED  BY <2>5, <2>6, <2>7
  <1> HIDE DEF a, b
  <1>4. /\ s \in Seq(GroupQueue)
        /\ Len(s) = Len(r) - 1
        /\ \A i \in 1 .. Len(s) : s[i] = r[from(i)]
    <2>0. /\ a \o b \in Seq(GroupQueue)
          /\ Len(a \o b) = Len(a) + Len(b)
          /\ \A i \in 1 .. Len(a) + Len(b) :
                (a \o b)[i] = IF i <= Len(a) THEN a[i] ELSE b[i - Len(a)]
      BY <1>2, <1>3, ConcatProperties, Zenon
    <2>1. /\ s \in Seq(GroupQueue)
          /\ Len(s) = Len(a) + Len(b)
          /\ \A i \in 1 .. Len(s) : s[i] = IF i <= Len(a) THEN a[i] ELSE b[i - Len(a)]
      BY <2>0, Zenon
    <2> HIDE DEF s
    <2>2. Len(s) = Len(r) - 1
      BY <1>1, <1>2, <1>3, <2>1
    <2>3. ASSUME NEW i \in 1 .. Len(s)
          PROVE  s[i] = r[from(i)]
      <3>1. CASE i <= n
        BY <1>2, <2>1, <3>1
      <3>2. CASE ~(i <= n)
        <4>1. i - n \in 1 .. Len(b) /\ n + 1 + (i - n) = i + 1
          BY <1>1, <1>3, <2>2, <3>2
        <4>2. s[i] = b[i - n]
          BY <1>2, <2>1, <3>2
        <4>3. b[i - n] = r[n + 1 + (i - n)]
          BY <1>3, <4>1
        <4> QED  BY <3>2, <4>1, <4>2, <4>3
      <3> QED  BY <3>1, <3>2
    <2> QED  BY <2>1, <2>2, <2>3
  <1> HIDE DEF s
  <1>5. /\ \A i \in 1 .. Len(s) : s[i] = r[from(i)] /\ from(i) \in 1 .. Len(r)
        /\ \A i, k \in 1 .. Len(s) : from(i) = from(k) => i = k
        /\ \A k \in 1 .. Len(r) : k # n + 1 => \E i \in 1 .. Len(s) : from(i) = k
    <2>1. \A i \in 1 .. Len(s) : s[i] = r[from(i)] /\ from(i) \in 1 .. Len(r)
      BY <1>1, <1>4
    <2>2. \A i, k \in 1 .. Len(s) : from(i) = from(k) => i = k
      BY <1>1, <1>4
    <2>3. ASSUME NEW k \in 1 .. Len(r), k # n + 1
          PROVE  \E i \in 1 .. Len(s) : from(i) = k
      <3>1. CASE k <= n
        <4>1. k \in 1 .. Len(s) /\ from(k) = k
          BY <1>1, <1>4, <3>1
        <4> QED  BY <4>1
      <3>2. CASE k > n
        <4>1. k - 1 \in 1 .. Len(s) /\ from(k - 1) = k
          BY <1>1, <1>4, <2>3, <3>2
        <4> QED  BY <4>1
      <3> QED  BY <3>1, <3>2
    <2> QED  BY <2>1, <2>2, <2>3
  <1> HIDE DEF from
  <1>6. GoodRing(s)
    <2>1. ASSUME NEW i \in 1 .. Len(s)
          PROVE  /\ Len(s[i].heap) <= MaxSize
                 /\ Distinct(s[i].heap)
                 /\ \A x \in Entries(s[i].heap) : GroupOf[x] = s[i].group
      BY <1>5 DEF GoodRing
    <2>2. \A i, k \in 1 .. Len(s) : s[i].group = s[k].group => i = k
      BY <1>5 DEF GoodRing
    <2> QED  BY <1>4, <2>1, <2>2 DEF GoodRing
  <1>7. InRing(s) = InRing(r)
    <2>1. n + 1 \in 1 .. Len(r) /\ Entries(r[n + 1].heap) = {}
      BY <1>1 DEF Entries
    <2>2. ASSUME NEW x \in InRing(s) PROVE x \in InRing(r)
      BY <1>5 DEF InRing
    <2>3. ASSUME NEW x \in InRing(r) PROVE x \in InRing(s)
      <3>1. PICK k \in 1 .. Len(r) : x \in Entries(r[k].heap)
        BY DEF InRing
      <3>2. k # n + 1
        BY <2>1, <3>1
      <3>3. PICK i \in 1 .. Len(s) : from(i) = k
        BY <1>5, <3>2
      <3>4. x \in Entries(s[i].heap)
        BY <1>5, <3>1, <3>3
      <3> QED  BY <3>4 DEF InRing
    <2> QED  BY <2>2, <2>3
  <1>8. \A pr : Ordered(pr, r) => Ordered(pr, s)
    BY <1>5 DEF Ordered
  <1> QED  BY <1>4, <1>6, <1>7, <1>8 DEF s, a, b

\* A ring stays ordered when only jobs that are not in it get another priority.
LEMMA SamePriorities ==
    ASSUME NEW r, GoodRing(r), NEW p, NEW q, Ordered(p, r),
           \A x \in InRing(r) : q[x] = p[x]
    PROVE  Ordered(q, r)
  <1> SUFFICES ASSUME NEW i \in 1 .. Len(r), NEW k \in 2 .. Len(r[i].heap)
               PROVE  q[r[i].heap[k \div 2]] <= q[r[i].heap[k]]
    BY DEF Ordered, IsHeap
  <1>1. Len(r[i].heap) \in Nat
    BY RingEntries DEF GoodRing
  <1>2. k \in 1 .. Len(r[i].heap) /\ k \div 2 \in 1 .. Len(r[i].heap)
    BY <1>1
  <1>3. r[i].heap[k] \in InRing(r) /\ r[i].heap[k \div 2] \in InRing(r)
    BY <1>2 DEF InRing, Entries
  <1>4. p[r[i].heap[k \div 2]] <= p[r[i].heap[k]]
    BY DEF Ordered, IsHeap
  <1> QED  BY <1>3, <1>4

-----------------------------------------------------------------------------
(* The steps.                                                                *)

\* A job in FIFO mode has one priority: when it was submitted, and its id.
LEMMA FifoPriority ==
    ASSUME NEW j \in Jobs
    PROVE  /\ Priorities(j) \subseteq Nat
           /\ ~FairShare => Priorities(j) = {QueueTime[j] + j}
  <1>1. j \in Nat /\ QueueTime[j] \in Nat /\ Scores \subseteq Nat
    BY ConstantsAssumption
  <1>2. \A base \in Nat : base * 1 + j \in Nat /\ base * 1 = base
    BY <1>1
  <1> QED  BY <1>1, <1>2 DEF Priorities, GetQueueOrder

\* A new job goes to the heap of its group.
LEMMA PutNewStep ==
    ASSUME QueueInv, NEW j \in Jobs, PutNew(j)
    PROVE  /\ prio' \in [Jobs -> Nat]
           /\ tracked' = tracked \cup {j} /\ j \notin tracked
           /\ GoodRing(ring') /\ InRing(ring') = InRing(ring) \cup {j}
           /\ Len(ring') >= Len(ring) /\ Len(ring') \in Nat /\ Len(ring) \in Nat
           /\ ~FairShare => /\ \A k \in tracked' : prio'[k] = QueueTime[k] + k
                            /\ Ordered(prio', ring')
           /\ UNCHANGED <<index, blocked>>
  <1> DEFINE r == WithEntry(GroupOf[j])
             n == EntryOf(r, GroupOf[j])
             h == r[n].heap
             new == HeapPush(prio', h, j)
  <1>1. /\ j \notin tracked /\ tracked' = tracked \cup {j}
        /\ Len(h) < MaxSize
        /\ \E p \in Priorities(j) : prio' = [prio EXCEPT ![j] = p]
        /\ ring' = [r EXCEPT ![n].heap = new]
        /\ UNCHANGED <<index, blocked>>
    BY DEF PutNew
  <1>2. GroupOf[j] \in Groups /\ MaxSize \in Nat
    BY ConstantsAssumption
  <1>3. /\ GoodRing(ring) /\ prio \in [Jobs -> Nat] /\ j \notin InRing(ring)
        /\ InRing(ring) \subseteq Jobs /\ Len(ring) \in Nat /\ tracked \subseteq Jobs
    BY <1>1, RingEntries DEF QueueInv, GoodRing
  <1>4. /\ GoodRing(r) /\ Len(r) \in Nat /\ Len(r) >= Len(ring)
        /\ InRing(r) = InRing(ring)
        /\ n \in 1 .. Len(r) /\ r[n].group = GroupOf[j]
        /\ \A pr : Ordered(pr, ring) => Ordered(pr, r)
    BY <1>2, <1>3, WithEntryGood
  <1>5. /\ prio' \in [Jobs -> Nat]
        /\ \A k \in Jobs \ {j} : prio'[k] = prio[k]
        /\ ~FairShare => prio'[j] = QueueTime[j] + j
    BY <1>1, <1>3, FifoPriority
  <1> HIDE DEF r, n
  <1>6. /\ h \in Seq(Jobs) /\ Len(h) \in Nat /\ Distinct(h)
        /\ \A x \in Entries(h) : GroupOf[x] = GroupOf[j]
        /\ Entries(h) \subseteq InRing(r)
    <2>1. h \in Seq(Jobs) /\ Len(h) \in Nat
      BY <1>4, RingEntries DEF GoodRing
    <2>2. Distinct(h) /\ \A x \in Entries(h) : GroupOf[x] = GroupOf[j]
      BY <1>4 DEF GoodRing
    <2>3. Entries(h) \subseteq InRing(r)
      BY <1>4 DEF InRing
    <2> QED  BY <2>1, <2>2, <2>3
  <1> DEFINE pr == prio'
  <1>7. /\ new \in Seq(Jobs) /\ Len(new) = Len(h) + 1
        /\ Entries(new) = Entries(h) \cup {j}
        /\ Distinct(h) /\ j \notin Entries(h) => Distinct(new)
        /\ IsHeap(prio', h) => IsHeap(prio', new)
    <2>1. \A x \in Jobs : pr[x] \in Nat
      BY <1>5
    <2> HIDE DEF h, pr
    <2>2. /\ HeapPush(pr, h, j) \in Seq(Jobs) /\ Len(HeapPush(pr, h, j)) = Len(h) + 1
          /\ Entries(HeapPush(pr, h, j)) = Entries(h) \cup {j}
          /\ Distinct(h) /\ j \notin Entries(h) => Distinct(HeapPush(pr, h, j))
          /\ IsHeap(pr, h) => IsHeap(pr, HeapPush(pr, h, j))
      BY <1>6, <2>1, HeapPushResult
    <2> QED  BY <2>2 DEF pr
  <1> HIDE DEF h, new, pr
  <1>8. Distinct(new) /\ Len(new) <= MaxSize
        /\ \A x \in Entries(new) : GroupOf[x] = r[n].group
    BY <1>1, <1>2, <1>3, <1>4, <1>6, <1>7
  <1>9. /\ GoodRing(ring')
        /\ Len(ring') = Len(r)
        /\ InRing(ring') = (InRing(r) \ Entries(r[n].heap)) \cup Entries(new)
        /\ \A p : Ordered(p, r) /\ IsHeap(p, new) => Ordered(p, ring')
    <2>1. /\ GoodRing([r EXCEPT ![n].heap = new])
          /\ Len([r EXCEPT ![n].heap = new]) = Len(r)
          /\ InRing([r EXCEPT ![n].heap = new])
                = (InRing(r) \ Entries(r[n].heap)) \cup Entries(new)
          /\ \A p : Ordered(p, r) /\ IsHeap(p, new)
                        => Ordered(p, [r EXCEPT ![n].heap = new])
      <3>1. new \in Seq(Jobs) /\ n \in 1 .. Len(r) /\ GoodRing(r)
        BY <1>4, <1>7
      <3> QED  BY <1>8, <3>1, NewHeap
    <2>2. ring' = [r EXCEPT ![n].heap = new]
      BY <1>1
    <2> QED  BY <2>1, <2>2
  <1>10. InRing(ring') = InRing(ring) \cup {j}
    BY <1>4, <1>6, <1>7, <1>9 DEF h
  <1>11. ASSUME ~FairShare
         PROVE  /\ \A k \in tracked' : prio'[k] = QueueTime[k] + k
                /\ Ordered(prio', ring')
    <2>1. \A k \in tracked' : prio'[k] = QueueTime[k] + k
      BY <1>1, <1>3, <1>5, <1>11 DEF QueueInv
    <2>2. Ordered(prio, r)
      BY <1>4, <1>11 DEF QueueInv
    <2>3. \A x \in InRing(r) : prio'[x] = prio[x]
      BY <1>3, <1>4, <1>5
    <2>4. Ordered(prio', r)
      BY <1>4, <2>2, <2>3, SamePriorities
    <2>5. IsHeap(prio', h)
      BY <1>4, <2>4 DEF Ordered, h
    <2> QED  BY <1>7, <1>9, <2>1, <2>4, <2>5
  <1> QED  BY <1>1, <1>3, <1>4, <1>5, <1>9, <1>10, <1>11

\* What a put by any thread does.
LEMMA PutStep ==
    ASSUME QueueInv, NEW j \in Jobs, Put(j)
    PROVE  /\ prio' \in [Jobs -> Nat]
           /\ blocked' \in BOOLEAN
           /\ GoodRing(ring')
           /\ index' \in Nat /\ (index' = 0 \/ index' < Len(ring'))
           /\ \/ tracked' = tracked /\ InRing(ring') = InRing(ring)
              \/ /\ j \notin tracked /\ tracked' = tracked \cup {j}
                 /\ InRing(ring') = InRing(ring) \cup {j}
           /\ ~FairShare => /\ \A k \in tracked' : prio'[k] = QueueTime[k] + k
                            /\ Ordered(prio', ring')
  <1>1. /\ GoodRing(ring) /\ prio \in [Jobs -> Nat] /\ tracked \subseteq Jobs
        /\ blocked \in BOOLEAN
        /\ index \in Nat /\ (index = 0 \/ index < Len(ring)) /\ Len(ring) \in Nat
        /\ InRing(ring) \subseteq tracked
        /\ ~FairShare => /\ \A k \in tracked : prio[k] = QueueTime[k] + k
                         /\ Ordered(prio, ring)
    BY RingEntries DEF QueueInv, GoodRing
  <1>2. CASE PutAgain(j)
    <2>1. PICK p \in Priorities(j) : prio' = [prio EXCEPT ![j] = p]
      BY <1>2 DEF PutAgain
    <2>2. j \in tracked /\ UNCHANGED <<tracked, ring, index, blocked>>
      BY <1>2 DEF PutAgain
    <2>3. prio' \in [Jobs -> Nat]
      BY <1>1, <2>1, FifoPriority
    <2>4. ASSUME ~FairShare PROVE prio' = prio
      <3>1. p = QueueTime[j] + j
        BY <2>1, <2>4, FifoPriority
      <3>2. prio[j] = p
        BY <1>1, <2>2, <2>4, <3>1
      <3> QED  BY <1>1, <2>1, <3>2
    <2> QED  BY <1>1, <2>2, <2>3, <2>4
  <1>3. CASE PutNew(j)
    <2>1. index' \in Nat /\ (index' = 0 \/ index' < Len(ring'))
      BY <1>1, <1>3, PutNewStep
    <2> QED  BY <1>1, <1>3, <2>1, PutNewStep
  <1>4. CASE PutFull(j)
    <2>1. ring' = WithEntry(GroupOf[j]) /\ UNCHANGED <<prio, tracked, index>>
          /\ blocked' = TRUE
      BY <1>4 DEF PutFull
    <2>2. GroupOf[j] \in Groups
      BY ConstantsAssumption
    <2>3. /\ GoodRing(ring') /\ Len(ring') \in Nat /\ Len(ring') >= Len(ring)
          /\ InRing(ring') = InRing(ring)
          /\ \A pr : Ordered(pr, ring) => Ordered(pr, ring')
      BY <1>1, <2>1, <2>2, WithEntryGood
    <2>4. index' \in Nat /\ (index' = 0 \/ index' < Len(ring'))
      BY <1>1, <2>1, <2>3
    <2> QED  BY <1>1, <2>1, <2>3, <2>4
  <1> QED  BY <1>2, <1>3, <1>4 DEF Put

\* get takes the first job of the group whose turn it is: in FIFO mode no other
\* waiting job of the group comes before it.
LEMMA RingGetStep ==
    ASSUME QueueInv, RingGet
    PROVE  /\ Popped = {}
           /\ getter'.job \in InRing(ring)
           /\ getter' = [step |-> "popped", job |-> getter'.job]
           /\ GoodRing(ring') /\ InRing(ring') = InRing(ring) \ {getter'.job}
           /\ index' \in Nat /\ (index' = 0 \/ index' < Len(ring'))
           /\ ~FairShare =>
                 /\ Ordered(prio, ring')
                 /\ \A k \in InRing(ring) : GroupOf[k] = GroupOf[getter'.job]
                                               => prio[getter'.job] <= prio[k]
  <1> DEFINE n == index + 1
             h == ring[n].heap
             rest == HeapPop(prio, h)
             j == h[1]
  <1>1. /\ GoodRing(ring) /\ prio \in [Jobs -> Nat] /\ index \in Nat
        /\ index = 0 \/ index < Len(ring)
        /\ ring \in Seq(GroupQueue) /\ Len(ring) \in Nat
        /\ \A i \in 1 .. Len(ring) : ring[i].heap \in Seq(Jobs)
    BY RingEntries DEF QueueInv, GoodRing
  <1>2. /\ getter.step = "poll" /\ ring # <<>> /\ h # <<>>
        /\ ring' = [ring EXCEPT ![n].heap = rest]
        /\ getter' = [step |-> "popped", job |-> j]
        /\ index' = (index + 1) % Len(ring)
    BY DEF RingGet, NextIndex, Go
  <1>3. Len(ring) \in Nat \ {0} /\ n \in 1 .. Len(ring)
    <2>1. Len(ring) \in Nat \ {0}
      BY <1>1, <1>2, EmptySeq
    <2> QED  BY <1>1, <2>1
  <1>4. /\ h \in Seq(Jobs) /\ Len(h) \in Nat \ {0} /\ Len(h) <= MaxSize
        /\ Distinct(h)
        /\ \A x \in Entries(h) : GroupOf[x] = ring[n].group
        /\ Entries(h) \subseteq InRing(ring)
    <2> HIDE DEF n
    <2>1. h \in Seq(Jobs) /\ Len(h) \in Nat \ {0}
      BY <1>1, <1>2, <1>3, EmptySeq
    <2>2. /\ Len(h) <= MaxSize /\ Distinct(h)
          /\ \A x \in Entries(h) : GroupOf[x] = ring[n].group
      BY <1>1, <1>3 DEF GoodRing
    <2>3. Entries(h) \subseteq InRing(ring)
      BY <1>3 DEF InRing
    <2> QED  BY <2>1, <2>2, <2>3
  <1>5. j \in Entries(h)
    <2> HIDE DEF h
    <2>1. 1 \in 1 .. Len(h)
      BY <1>4
    <2> QED  BY <2>1 DEF Entries
  <1>6. index' \in Nat /\ index' < Len(ring)
    BY <1>1, <1>2, <1>3
  <1> HIDE DEF n
  <1>7. /\ rest \in Seq(Jobs) /\ Len(rest) = Len(h) - 1
        /\ Entries(h) = Entries(rest) \cup {j}
        /\ Distinct(rest) /\ j \notin Entries(rest)
        /\ IsHeap(prio, h) => IsHeap(prio, rest)
    <2>1. \A x \in Jobs : prio[x] \in Nat
      BY <1>1
    <2> DEFINE c == Len(h)
    <2>2. c \in Nat \ {0} /\ Len(h) = c
      BY <1>4
    <2> HIDE DEF h, c
    <2>3. /\ HeapPop(prio, h) \in Seq(Jobs) /\ Len(HeapPop(prio, h)) = c - 1
          /\ Entries(h) = Entries(HeapPop(prio, h)) \cup {h[1]}
          /\ Distinct(h) => /\ Distinct(HeapPop(prio, h))
                            /\ h[1] \notin Entries(HeapPop(prio, h))
          /\ IsHeap(prio, h) => IsHeap(prio, HeapPop(prio, h))
      BY <1>4, <2>1, <2>2, HeapPopResult
    <2> QED  BY <1>4, <2>2, <2>3
  <1>8. ASSUME ~FairShare
        PROVE  \A x \in Entries(h) : prio[j] <= prio[x]
    <2>1. IsHeap(prio, h)
      BY <1>3, <1>8 DEF QueueInv, Ordered
    <2>2. \A x \in Jobs : prio[x] \in Nat
      BY <1>1
    <2> HIDE DEF h
    <2>3. \A k \in 1 .. Len(h) : prio[h[1]] <= prio[h[k]]
      BY <1>4, <2>1, <2>2, RootLowest
    <2> QED  BY <2>3 DEF Entries
  <1> HIDE DEF h, rest, j
  <1>9. /\ GoodRing(ring') /\ Len(ring') = Len(ring)
        /\ InRing(ring') = (InRing(ring) \ Entries(ring[n].heap)) \cup Entries(rest)
        /\ \A pr : Ordered(pr, ring) /\ IsHeap(pr, rest) => Ordered(pr, ring')
    <2>1. /\ rest \in Seq(Jobs) /\ Len(rest) <= MaxSize /\ Distinct(rest)
          /\ \A x \in Entries(rest) : GroupOf[x] = ring[n].group
      <3>1. MaxSize \in Nat
        BY ConstantsAssumption
      <3> QED  BY <1>4, <1>7, <3>1
    <2>2. /\ GoodRing([ring EXCEPT ![n].heap = rest])
          /\ Len([ring EXCEPT ![n].heap = rest]) = Len(ring)
          /\ InRing([ring EXCEPT ![n].heap = rest])
                = (InRing(ring) \ Entries(ring[n].heap)) \cup Entries(rest)
          /\ \A pr : Ordered(pr, ring) /\ IsHeap(pr, rest)
                        => Ordered(pr, [ring EXCEPT ![n].heap = rest])
      BY <1>1, <1>3, <2>1, NewHeap
    <2> QED  BY <1>2, <2>2
  <1>10. InRing(ring') = InRing(ring) \ {j}
    <2>1. Entries(ring[n].heap) = Entries(h)
      BY DEF h
    <2> QED  BY <1>4, <1>5, <1>7, <1>9, <2>1
  <1>11. ASSUME ~FairShare
         PROVE  /\ Ordered(prio, ring')
                /\ \A k \in InRing(ring) : GroupOf[k] = GroupOf[j] => prio[j] <= prio[k]
    <2>1. Ordered(prio, ring) /\ IsHeap(prio, h)
      BY <1>3, <1>11 DEF QueueInv, Ordered, h
    <2>2. Ordered(prio, ring')
      BY <1>7, <1>9, <2>1
    <2>3. ASSUME NEW k \in InRing(ring), GroupOf[k] = GroupOf[j]
          PROVE  prio[j] <= prio[k]
      <3>1. PICK i \in 1 .. Len(ring) : k \in Entries(ring[i].heap)
        BY DEF InRing
      <3>2. GroupOf[k] = ring[i].group /\ GroupOf[j] = ring[n].group
        BY <1>1, <1>4, <1>5, <3>1 DEF GoodRing
      <3>3. i = n
        BY <1>1, <1>3, <2>3, <3>2 DEF GoodRing
      <3>4. k \in Entries(h)
        BY <3>1, <3>3 DEF h
      <3> QED  BY <1>8, <1>11, <3>4
    <2> QED  BY <2>2, <2>3
  <1>12. getter'.job = j /\ Popped = {}
    BY <1>2 DEF Popped
  <1>13. j \in InRing(ring)
    BY <1>4, <1>5
  <1> QED  BY <1>2, <1>6, <1>9, <1>10, <1>11, <1>12, <1>13

\* A group without jobs leaves the ring: no job does.
LEMMA RingDropStep ==
    ASSUME QueueInv, RingDrop
    PROVE  /\ GoodRing(ring') /\ InRing(ring') = InRing(ring)
           /\ index' \in Nat /\ (index' = 0 \/ index' < Len(ring'))
           /\ \A pr : Ordered(pr, ring) => Ordered(pr, ring')
  <1>1. /\ GoodRing(ring) /\ index \in Nat /\ (index = 0 \/ index < Len(ring))
        /\ ring \in Seq(GroupQueue) /\ Len(ring) \in Nat
    BY RingEntries DEF QueueInv, GoodRing
  <1>2. /\ ring # <<>> /\ ring[index + 1].heap = <<>>
        /\ ring' = SubSeq(ring, 1, index) \o SubSeq(ring, index + 2, Len(ring))
        /\ index' = IF index > 0 THEN index - 1 ELSE 0
    BY DEF RingDrop, IndexBack
  <1>3. index < Len(ring)
    <2>1. Len(ring) \in Nat \ {0}
      BY <1>1, <1>2, EmptySeq
    <2> QED  BY <1>1, <2>1
  <1>4. Len(ring[index + 1].heap) = 0
    BY <1>2, EmptyHeap
  <1>5. /\ GoodRing(ring') /\ Len(ring') = Len(ring) - 1
        /\ InRing(ring') = InRing(ring)
        /\ \A pr : Ordered(pr, ring) => Ordered(pr, ring')
    BY <1>1, <1>2, <1>3, <1>4, DropEntry
  <1>6. index' \in Nat /\ (index' = 0 \/ index' < Len(ring'))
    <2>1. index' = IF index > 0 THEN index - 1 ELSE 0
      BY <1>2
    <2>2. index \in Nat /\ Len(ring) \in Nat
      BY <1>1
    <2> QED  BY <1>3, <1>5, <2>1, <2>2
  <1> QED  BY <1>5, <1>6

-----------------------------------------------------------------------------
(* The invariant.                                                            *)

\* An empty queue.
LEMMA QueueInvInit == Init => QueueInv
  <1> SUFFICES ASSUME Init PROVE QueueInv
    OBVIOUS
  <1>1. GoodRing(ring) /\ InRing(ring) = {} /\ index = 0 /\ Ordered(prio, ring)
    BY EmptyRing DEF Init
  <1>2. Popped = {} /\ tracked = {}
    BY DEF Init, Popped
  <1>3. /\ job \in [Jobs -> JobStates] /\ prio \in [Jobs -> Nat]
        /\ tracked \in SUBSET Jobs /\ blocked \in BOOLEAN
        /\ putter \in [Putters -> Jobs \cup {NoJob}]
        /\ getter \in [step : GetterSteps, job : Jobs \cup {NoJob}]
        /\ getter.step = "poll"
    BY DEF Init, JobStates, GetterSteps
  <1> QED  BY <1>1, <1>2, <1>3 DEF QueueInv

\* A put by any thread, which leaves a popped job in the getter's hand.
LEMMA PutKeepsInv ==
    ASSUME QueueInv, NEW j \in Jobs, Put(j), UNCHANGED job,
           putter' \in [Putters -> Jobs \cup {NoJob}],
           getter' \in [step : GetterSteps, job : Jobs \cup {NoJob}],
           getter'.step # "poll" => getter'.job \in Jobs,
           Popped' = Popped
    PROVE  QueueInv'
  <1>1. /\ prio' \in [Jobs -> Nat]
        /\ blocked' \in BOOLEAN
        /\ GoodRing(ring')
        /\ index' \in Nat /\ (index' = 0 \/ index' < Len(ring'))
        /\ ~FairShare => /\ \A k \in tracked' : prio'[k] = QueueTime[k] + k
                         /\ Ordered(prio', ring')
    BY PutStep
  <1>2. \/ tracked' = tracked /\ InRing(ring') = InRing(ring)
        \/ /\ j \notin tracked /\ tracked' = tracked \cup {j}
           /\ InRing(ring') = InRing(ring) \cup {j}
    BY PutStep
  <1>3. /\ job \in [Jobs -> JobStates] /\ tracked \in SUBSET Jobs
        /\ tracked = InRing(ring) \cup Popped /\ InRing(ring) \cap Popped = {}
    BY DEF QueueInv
  <1>4. tracked' = InRing(ring') \cup Popped /\ InRing(ring') \cap Popped = {}
        /\ tracked' \in SUBSET Jobs
    BY <1>2, <1>3
  <1> QED  BY <1>1, <1>3, <1>4 DEF QueueInv

\* _remove_queued_job, with the job that get has in hand.
LEMMA RemoveKeepsInv ==
    ASSUME QueueInv, getter.step = "popped", RemoveQueuedJob(getter.job),
           UNCHANGED <<job, ring, index, blocked, putter>>,
           getter' \in [step : GetterSteps, job : Jobs \cup {NoJob}],
           getter'.step # "poll" => getter'.job \in Jobs,
           getter'.step # "popped"
    PROVE  QueueInv'
  <1> DEFINE j == getter.job
  <1>1. Popped = {j} /\ j \in Jobs /\ Popped' = {}
    BY DEF QueueInv, Popped
  <1>2. /\ GoodRing(ring) /\ tracked = InRing(ring) \cup {j} /\ j \notin InRing(ring)
        /\ tracked \in SUBSET Jobs /\ prio \in [Jobs -> Nat]
    BY <1>1 DEF QueueInv
  <1>3. tracked' = tracked \ {j} /\ prio' = [prio EXCEPT ![j] = 0]
    BY DEF RemoveQueuedJob
  <1> HIDE DEF j
  <1>4. tracked' = InRing(ring) /\ tracked' \in SUBSET Jobs
    BY <1>2, <1>3
  <1>5. prio' \in [Jobs -> Nat] /\ \A x \in InRing(ring) : prio'[x] = prio[x]
    BY <1>2, <1>3
  <1>6. ASSUME ~FairShare
        PROVE  /\ \A k \in tracked' : prio'[k] = QueueTime[k] + k
               /\ Ordered(prio', ring)
    <2>1. \A k \in tracked' : prio'[k] = QueueTime[k] + k
      BY <1>2, <1>4, <1>5, <1>6 DEF QueueInv
    <2>2. Ordered(prio, ring)
      BY <1>6 DEF QueueInv
    <2>3. Ordered(prio', ring)
      BY <1>2, <1>5, <2>2, SamePriorities
    <2> QED  BY <2>1, <2>3
  <1> QED  BY <1>1, <1>4, <1>5, <1>6 DEF QueueInv

\* A step that leaves the queue alone.
LEMMA OtherKeepsInv ==
    ASSUME QueueInv, UNCHANGED <<prio, tracked, ring, index, blocked>>,
           job' \in [Jobs -> JobStates],
           putter' \in [Putters -> Jobs \cup {NoJob}],
           getter' \in [step : GetterSteps, job : Jobs \cup {NoJob}],
           getter'.step # "poll" => getter'.job \in Jobs,
           Popped' = Popped
    PROVE  QueueInv'
  BY DEF QueueInv

\* get's first critical section.
LEMMA RingGetKeepsInv ==
    ASSUME QueueInv, RingGet
    PROVE  QueueInv'
  <1> DEFINE j == getter'.job
  <1>1. /\ Popped = {} /\ j \in InRing(ring)
        /\ getter' = [step |-> "popped", job |-> j]
        /\ GoodRing(ring') /\ InRing(ring') = InRing(ring) \ {j}
        /\ index' \in Nat /\ (index' = 0 \/ index' < Len(ring'))
        /\ ~FairShare => Ordered(prio, ring')
    BY RingGetStep
  <1>2. UNCHANGED <<job, prio, tracked, blocked, putter>>
    BY DEF RingGet
  <1>3. InRing(ring) \subseteq Jobs
    BY DEF QueueInv
  <1>4. Popped' = {j}
    <2> HIDE DEF j
    <2>1. getter'.step = "popped" /\ getter'.job = j
      BY <1>1
    <2> QED  BY <2>1 DEF Popped
  <1>5. getter' \in [step : GetterSteps, job : Jobs \cup {NoJob}] /\ j \in Jobs
    <2> HIDE DEF j
    <2> QED  BY <1>1, <1>3 DEF GetterSteps
  <1>6. tracked' = InRing(ring') \cup Popped' /\ InRing(ring') \cap Popped' = {}
    BY <1>1, <1>2, <1>4 DEF QueueInv
  <1> QED  BY <1>1, <1>2, <1>5, <1>6 DEF QueueInv

\* get removes an empty group.
LEMMA RingDropKeepsInv ==
    ASSUME QueueInv, RingDrop
    PROVE  QueueInv'
  <1>1. /\ GoodRing(ring') /\ InRing(ring') = InRing(ring)
        /\ index' \in Nat /\ (index' = 0 \/ index' < Len(ring'))
        /\ \A pr : Ordered(pr, ring) => Ordered(pr, ring')
    BY RingDropStep
  <1>2. UNCHANGED <<job, prio, tracked, blocked, putter, getter>>
    BY DEF RingDrop
  <1>3. Popped' = Popped
    BY <1>2 DEF Popped
  <1> QED  BY <1>1, <1>2, <1>3 DEF QueueInv

\* Every step keeps the invariant.
LEMMA QueueInvStep ==
    ASSUME QueueInv, [Next]_vars
    PROVE  QueueInv'
  <1>0. /\ job \in [Jobs -> JobStates]
        /\ putter \in [Putters -> Jobs \cup {NoJob}]
        /\ getter \in [step : GetterSteps, job : Jobs \cup {NoJob}]
        /\ getter.step # "poll" => getter.job \in Jobs
    BY DEF QueueInv
  <1>1. CASE UNCHANGED vars
    <2>1. Popped' = Popped
      BY <1>1 DEF vars, Popped
    <2> QED  BY <1>0, <1>1, <2>1, OtherKeepsInv DEF vars
  <1>2. CASE Getter
    <2>1. CASE RingGet
      BY <2>1, RingGetKeepsInv
    <2>2. CASE RingDrop
      BY <2>2, RingDropKeepsInv
    <2>3. CASE GetDrops \/ GetLimited \/ GetReturns
      <3>1. /\ getter.step = "popped" /\ RemoveQueuedJob(getter.job)
            /\ UNCHANGED <<job, ring, index, blocked, putter>>
            /\ \/ getter' = [step |-> "poll", job |-> NoJob]
               \/ getter' = [step |-> "provision", job |-> getter.job]
        BY <2>3 DEF GetDrops, GetLimited, GetReturns, Go
      <3>2. /\ getter' \in [step : GetterSteps, job : Jobs \cup {NoJob}]
            /\ getter'.step # "poll" => getter'.job \in Jobs
            /\ getter'.step # "popped"
        BY <1>0, <3>1 DEF GetterSteps
      <3> QED  BY <3>1, <3>2, RemoveKeepsInv
    <2>4. CASE ProvisionEnds \/ ProvisionFails
      <3>1. /\ getter.step = "provision"
            /\ UNCHANGED <<prio, tracked, ring, index, blocked, putter>>
            /\ \/ getter' = [step |-> "poll", job |-> NoJob]
               \/ getter' = [step |-> "reput", job |-> getter.job]
        BY <2>4 DEF ProvisionEnds, ProvisionFails, Go
      <3>2. job' \in [Jobs -> JobStates]
        BY <1>0, <2>4 DEF ProvisionEnds, ProvisionFails, JobStates
      <3>3. /\ getter' \in [step : GetterSteps, job : Jobs \cup {NoJob}]
            /\ getter'.step # "poll" => getter'.job \in Jobs
            /\ getter'.step # "popped"
        BY <1>0, <3>1 DEF GetterSteps
      <3>4. Popped' = Popped
        BY <3>1, <3>3 DEF Popped
      <3> QED  BY <1>0, <3>1, <3>2, <3>3, <3>4, OtherKeepsInv
    <2>5. CASE PutBack
      <3>1. /\ getter.step = "reput" /\ Put(getter.job) /\ UNCHANGED <<job, putter>>
            /\ \/ getter' = getter
               \/ getter' = [step |-> "poll", job |-> NoJob]
        BY <2>5 DEF PutBack, Go
      <3>2. /\ getter.job \in Jobs
            /\ getter' \in [step : GetterSteps, job : Jobs \cup {NoJob}]
            /\ getter'.step # "poll" => getter'.job \in Jobs
            /\ getter'.step # "popped"
        BY <1>0, <3>1 DEF GetterSteps
      <3>3. Popped' = Popped
        BY <3>1, <3>2 DEF Popped
      <3> QED  BY <1>0, <3>1, <3>2, <3>3, PutKeepsInv
    <2> QED  BY <1>2, <2>1, <2>2, <2>3, <2>4, <2>5 DEF Getter
  <1>3. ASSUME NEW p \in Putters, NEW j \in Jobs, ListJob(p, j) \/ PutListed(p, j)
        PROVE  QueueInv'
    <2>1. CASE ListJob(p, j)
      <3>1. /\ putter' = [putter EXCEPT ![p] = j]
            /\ UNCHANGED <<job, prio, tracked, ring, index, blocked, getter>>
        BY <2>1 DEF ListJob
      <3>2. putter' \in [Putters -> Jobs \cup {NoJob}] /\ Popped' = Popped
        BY <1>0, <3>1 DEF Popped
      <3> QED  BY <1>0, <3>1, <3>2, OtherKeepsInv
    <2>2. CASE PutListed(p, j)
      <3>1. /\ Put(j) /\ UNCHANGED <<job, getter>>
            /\ putter' = [putter EXCEPT ![p] = IF blocked' THEN j ELSE NoJob]
        BY <2>2 DEF PutListed
      <3>2. putter' \in [Putters -> Jobs \cup {NoJob}] /\ Popped' = Popped
        BY <1>0, <3>1 DEF Popped
      <3> QED  BY <1>0, <3>1, <3>2, PutKeepsInv
    <2> QED  BY <1>3, <2>1, <2>2
  <1>4. CASE Environment
    <2>1. PICK j \in Jobs : JobSubmitted(j) \/ JobRuns(j) \/ JobEnds(j) \/ JobReset(j)
      BY <1>4 DEF Environment
    <2>2. /\ UNCHANGED <<prio, tracked, ring, index, blocked, putter, getter>>
          /\ \E to \in JobStates : job' = [job EXCEPT ![j] = to]
      BY <2>1 DEF JobSubmitted, JobRuns, JobEnds, JobReset, JobStep, JobStates
    <2>3. job' \in [Jobs -> JobStates] /\ Popped' = Popped
      BY <1>0, <2>2 DEF Popped
    <2> QED  BY <1>0, <2>2, <2>3, OtherKeepsInv
  <1> QED  BY <1>1, <1>2, <1>3, <1>4 DEF Next

\* The invariant holds in every reachable state.
LEMMA Invariant == Spec => []QueueInv
  BY QueueInvInit, QueueInvStep, PTL DEF Spec

\* The queue's fields are well typed in every reachable state and no heap grows
\* past maxsize_per_queue, whatever put, get and the jobs do.
THEOREM TypeCorrect == Spec => []TypeOK
  <1>1. QueueInv => TypeOK
    BY DEF QueueInv, GoodRing, GroupQueue, TypeOK
  <1> QED  BY <1>1, Invariant, PTL

\* However puts, gets and removals interleave, _queued_jobs and the heaps stay in
\* step: a tracked job is in one place, once, and in its own group's heap.
THEOREM HeapsCorrect == Spec => []InOneHeap
  <1>1. QueueInv => InOneHeap
    <2> SUFFICES ASSUME QueueInv PROVE InOneHeap
      OBVIOUS
    <2>1. InHeaps = InRing(ring)
      BY DEF InHeaps, InRing, Entries
    <2>2. /\ tracked = InHeaps \cup Popped /\ InHeaps \cap Popped = {}
          /\ GoodRing(ring)
      BY <2>1 DEF QueueInv
    <2>3. ASSUME NEW i \in 1 .. Len(ring),
                 NEW k \in 1 .. Len(ring[i].heap), NEW l \in 1 .. Len(ring[i].heap)
          PROVE  /\ GroupOf[ring[i].heap[k]] = ring[i].group
                 /\ ring[i].heap[k] = ring[i].heap[l] => k = l
      <3>1. ring[i].heap[k] \in Entries(ring[i].heap)
        BY DEF Entries
      <3> QED  BY <2>2, <3>1 DEF GoodRing, Distinct
    <2> QED  BY <2>2, <2>3 DEF InOneHeap
  <1> QED  BY <1>1, Invariant, PTL

\* RoundRobinPriorityQueue.get never reads past its list of groups, and no group
\* has two turns, however many threads put while groups come and go.
THEOREM RingCorrect == Spec => []RingInRange
  <1>1. QueueInv => RingInRange
    BY DEF QueueInv, GoodRing, RingInRange
  <1> QED  BY <1>1, Invariant, PTL

-----------------------------------------------------------------------------
(* The refinement: in FIFO mode the queue implements FifoJobGroups.          *)

Waiting == InRing(ring)

\* What an action does to the jobs that wait and the one in hand.
LEMMA Serves ==
    ASSUME ~FairShare, QueueInv, [Next]_vars
    PROVE  \/ Waiting' = Waiting /\ Popped' = Popped
           \/ Popped # {} /\ Popped' = {} /\ Waiting' = Waiting
           \/ \E j \in Jobs : Waiting' = Waiting \cup {j} /\ Popped' = Popped
           \/ \E j \in Jobs :
                 /\ Popped = {} /\ Popped' = {j}
                 /\ j \in Waiting /\ Waiting' = Waiting \ {j}
                 /\ \A k \in Waiting : GroupOf[k] = GroupOf[j]
                        => QueueTime[j] + j <= QueueTime[k] + k
  <1>1. CASE UNCHANGED <<ring, getter>>
    BY <1>1 DEF Waiting, Popped
  <1>2. CASE RingGet
    <2> DEFINE j == getter'.job
    <2>1. /\ Popped = {} /\ j \in Waiting
          /\ getter' = [step |-> "popped", job |-> j]
          /\ Waiting' = Waiting \ {j}
          /\ \A k \in Waiting : GroupOf[k] = GroupOf[j] => prio[j] <= prio[k]
      BY <1>2, RingGetStep DEF Waiting
    <2>2. /\ \A k \in Waiting : prio[k] = QueueTime[k] + k
          /\ Waiting \subseteq Jobs
      BY DEF QueueInv, Waiting
    <2>3. Popped' = {j}
      <3> HIDE DEF j
      <3>1. getter'.step = "popped" /\ getter'.job = j
        BY <2>1
      <3> QED  BY <3>1 DEF Popped
    <2> HIDE DEF j
    <2>4. \A k \in Waiting : GroupOf[k] = GroupOf[j]
              => QueueTime[j] + j <= QueueTime[k] + k
      BY <2>1, <2>2
    <2>5. j \in Jobs
      BY <2>1, <2>2
    <2> QED  BY <2>1, <2>3, <2>4, <2>5
  <1>3. CASE RingDrop
    <2>1. Waiting' = Waiting
      BY <1>3, RingDropStep DEF Waiting
    <2>2. Popped' = Popped
      BY <1>3 DEF RingDrop, Popped
    <2> QED  BY <2>1, <2>2
  <1>4. CASE GetDrops \/ GetLimited \/ GetReturns
    <2>1. getter.step = "popped" /\ ring' = ring
          /\ (getter'.step = "poll" \/ getter'.step = "provision")
      BY <1>4 DEF GetDrops, GetLimited, GetReturns, Go
    <2> QED  BY <2>1 DEF Popped, Waiting
  <1>5. CASE ProvisionEnds \/ ProvisionFails
    <2>1. getter.step = "provision" /\ ring' = ring
          /\ (getter'.step = "poll" \/ getter'.step = "reput")
      BY <1>5 DEF ProvisionEnds, ProvisionFails, Go
    <2> QED  BY <2>1 DEF Popped, Waiting
  <1>6. ASSUME NEW j \in Jobs, Put(j), Popped' = Popped
        PROVE  \/ Waiting' = Waiting /\ Popped' = Popped
               \/ \E k \in Jobs : Waiting' = Waiting \cup {k} /\ Popped' = Popped
    BY <1>6, PutStep DEF Waiting
  <1>7. CASE PutBack
    <2>1. /\ getter.step = "reput" /\ Put(getter.job)
          /\ (getter'.step = "reput" \/ getter'.step = "poll")
      BY <1>7 DEF PutBack, Go
    <2>2. getter.job \in Jobs
      BY <2>1 DEF QueueInv
    <2>3. Popped' = Popped
      BY <2>1 DEF Popped
    <2> QED  BY <1>6, <2>1, <2>2, <2>3
  <1>8. ASSUME NEW p \in Putters, NEW j \in Jobs, PutListed(p, j)
        PROVE  \/ Waiting' = Waiting /\ Popped' = Popped
               \/ \E k \in Jobs : Waiting' = Waiting \cup {k} /\ Popped' = Popped
    <2>1. Put(j) /\ Popped' = Popped
      BY <1>8 DEF PutListed, Popped
    <2> QED  BY <1>6, <2>1
  <1>9. \A p \in Putters, j \in Jobs : ListJob(p, j) => UNCHANGED <<ring, getter>>
    BY DEF ListJob
  <1>10. Environment => UNCHANGED <<ring, getter>>
    BY DEF Environment, JobSubmitted, JobRuns, JobEnds, JobReset, JobStep
  <1>11. UNCHANGED vars => UNCHANGED <<ring, getter>>
    BY DEF vars
  <1> QED  BY <1>1, <1>2, <1>3, <1>4, <1>5, <1>7, <1>8, <1>9, <1>10, <1>11
           DEF Next, Getter

\* "maintaining order or jobs being provisioned": in FIFO mode the ring of heaps
\* implements the abstract queue of each group, so that get takes the waiting jobs
\* of a group in the order of their submission, each once.
THEOREM Implements ==
    ASSUME ~FairShare
    PROVE  Spec => ServesInOrder
  <1>1. InHeaps = Waiting
    BY DEF InHeaps, Waiting, InRing, Entries
  <1>2. Init => Fifo!Init
    <2> SUFFICES ASSUME Init PROVE Fifo!Init
      OBVIOUS
    <2>1. Waiting = {} /\ Popped = {}
      BY EmptyRing DEF Init, Waiting, Popped
    <2> QED  BY <1>1, <2>1 DEF Fifo!Init
  <1>3. ASSUME QueueInv, [Next]_vars
        PROVE  [Fifo!Next]_Fifo!vars
    <2>1. InHeaps' = Waiting'
      BY DEF InHeaps, Waiting, InRing, Entries
    <2> DEFINE W == InHeaps
               Rank == [j \in Jobs |-> QueueTime[j] + j]
    <2>2. CASE W' = W /\ Popped' = Popped
      BY <2>2 DEF Fifo!vars
    <2>3. CASE Popped # {} /\ Popped' = {} /\ W' = W
      BY <2>3 DEF Fifo!Next, Fifo!Decide
    <2>4. ASSUME NEW j \in Jobs, W' = W \cup {j}, Popped' = Popped
          PROVE  Fifo!Next
      BY <2>4 DEF Fifo!Next, Fifo!Put
    <2>5. ASSUME NEW j \in Jobs,
                 Popped = {}, Popped' = {j}, j \in W, W' = W \ {j},
                 \A k \in W : GroupOf[k] = GroupOf[j]
                     => QueueTime[j] + j <= QueueTime[k] + k
          PROVE  Fifo!Next
      <3>1. W \subseteq Jobs
        BY <1>1, <1>3 DEF QueueInv, Waiting
      <3>2. \A k \in W : GroupOf[k] = GroupOf[j] => Rank[j] <= Rank[k]
        BY <2>5, <3>1
      <3> QED  BY <2>5, <3>2 DEF Fifo!Next, Fifo!Take, Fifo!First
    <2> QED  BY <1>1, <1>3, <2>1, <2>2, <2>3, <2>4, <2>5, Serves
  <1> QED  BY <1>2, <1>3, Invariant, PTL DEF Spec, ServesInOrder, Fifo!Spec
=============================================================================
