---------------------- MODULE JobProvisioningHeapProofs ----------------------
(***************************************************************************)
(* What the heap operations of the provisioning queue return, for heaps of   *)
(* any length: heappush adds the entry and heappop takes the first one, no   *)
(* entry is lost or doubled, and a heap stays a heap.                        *)
(***************************************************************************)
EXTENDS JobProvisioningQueue, SequenceTheorems, WellFoundedInduction, TLAPS

\* A set of naturals that is not empty has a least element: the induction that
\* the proofs below use.
LEMMA LeastElement ==
    ASSUME NEW T, T \subseteq Nat, T # {}
    PROVE  \E x \in T : \A y \in T : x <= y
  <1> DEFINE R == OpToRel(<, Nat)
  <1>1. IsWellFoundedOn(R, Nat)
    BY NatLessThanWellFounded, Zenon
  <1>2. \A x, y \in Nat : <<y, x>> \in R <=> y < x
    BY Zenon DEF OpToRel
  <1> HIDE DEF R
  <1>3. PICK x \in T : \A y \in T : ~(<<y, x>> \in R)
    BY <1>1, WFMin, Zenon
  <1>4. ASSUME NEW y \in T PROVE x <= y
    <2>1. x \in Nat /\ y \in Nat /\ ~(<<y, x>> \in R)
      BY <1>3
    <2>2. ~(y < x)
      BY <1>2, <2>1
    <2> QED  BY <2>1, <2>2
  <1> QED  BY <1>4

\* So has a bounded one a greatest element.
LEMMA GreatestElement ==
    ASSUME NEW n \in Nat, NEW T, T \subseteq 1 .. n, T # {}
    PROVE  \E x \in T : \A y \in T : y <= x
  <1> DEFINE U == {n - x : x \in T}
  <1>1. U \subseteq Nat /\ U # {}
    <2>1. \A x \in T : n - x \in Nat
      OBVIOUS
    <2>2. PICK x \in T : TRUE
      OBVIOUS
    <2>3. n - x \in U
      BY <2>2
    <2> QED  BY <2>1, <2>3
  <1>2. PICK u \in U : \A v \in U : u <= v
    <2> HIDE DEF U
    <2> QED  BY <1>1, LeastElement
  <1>3. PICK x \in T : u = n - x
    BY <1>2
  <1>4. ASSUME NEW y \in T PROVE y <= x
    <2>1. n - y \in U
      OBVIOUS
    <2>2. n - x <= n - y
      BY <1>2, <1>3, <2>1
    <2> QED  BY <2>2
  <1> QED  BY <1>4

\* A function on 1 .. n is a sequence of length n.
LEMMA FunctionIsSequence ==
    ASSUME NEW S, NEW n \in Nat, NEW f \in [1 .. n -> S]
    PROVE  f \in Seq(S) /\ Len(f) = n
  <1>1. f \in Seq(S)
    BY SeqDef
  <1>2. DOMAIN f = 1 .. n /\ DOMAIN f = 1 .. Len(f) /\ Len(f) \in Nat
    BY <1>1, LenProperties
  <1> QED  BY <1>1, <1>2

\* The position above another one.
LEMMA Above ==
    ASSUME NEW k \in Nat, k > 1
    PROVE  /\ k \div 2 \in Nat /\ k \div 2 >= 1 /\ k \div 2 < k
           /\ k = 2 * (k \div 2) \/ k = 2 * (k \div 2) + 1
  OBVIOUS

-----------------------------------------------------------------------------
(* The way from a position up to the root.                                   *)

\* It has the position, and the one above each of the others.
LEMMA AncestorsUpward ==
    ASSUME NEW i \in Nat \ {0}
    PROVE  /\ Ancestors(i) \subseteq 1 .. i
           /\ i \in Ancestors(i)
           /\ Upward(Ancestors(i))
           /\ \A S \in SUBSET (1 .. i) : i \in S /\ Upward(S) => Ancestors(i) \subseteq S
  <1>1. Ancestors(i) \subseteq 1 .. i /\ i \in Ancestors(i)
    BY DEF Ancestors
  <1>2. \A S \in SUBSET (1 .. i) : i \in S /\ Upward(S) => Ancestors(i) \subseteq S
    BY DEF Ancestors
  <1>3. ASSUME NEW k \in Ancestors(i) \ {1}
        PROVE  k \div 2 \in Ancestors(i)
    <2>1. k \in 1 .. i /\ k > 1
      BY <1>1, <1>3
    <2>2. k \div 2 \in 1 .. i
      BY <2>1
    <2>3. ASSUME NEW S \in SUBSET (1 .. i), i \in S, Upward(S)
          PROVE  k \div 2 \in S
      BY <1>2, <1>3, <2>3 DEF Upward
    <2> QED  BY <2>2, <2>3 DEF Ancestors
  <1> QED  BY <1>1, <1>2, <1>3 DEF Upward

\* It ends at the root.
LEMMA RootIsAncestor ==
    ASSUME NEW i \in Nat \ {0}
    PROVE  1 \in Ancestors(i)
  <1>1. PICK m \in Ancestors(i) : \A a \in Ancestors(i) : m <= a
    <2>1. Ancestors(i) \subseteq Nat /\ Ancestors(i) # {}
      BY AncestorsUpward
    <2> QED  BY <2>1, LeastElement
  <1>2. m \in Nat /\ m >= 1
    BY AncestorsUpward
  <1>3. CASE m # 1
    <2>1. m \div 2 \in Ancestors(i)
      BY <1>3, AncestorsUpward DEF Upward
    <2>2. m \div 2 < m /\ m \div 2 \in Nat
      BY <1>2, <1>3
    <2> QED  BY <1>1, <1>2, <2>1, <2>2
  <1> QED  BY <1>3

\* Every ancestor but the position itself is above another one.
LEMMA AncestorBelow ==
    ASSUME NEW i \in Nat \ {0}, NEW a \in Ancestors(i), a # i
    PROVE  \E b \in Ancestors(i) \ {1} : b \div 2 = a
  <1> SUFFICES ASSUME \A b \in Ancestors(i) \ {1} : b \div 2 # a
               PROVE  FALSE
    OBVIOUS
  <1> DEFINE S == Ancestors(i) \ {a}
  <1>1. S \in SUBSET (1 .. i) /\ i \in S
    BY AncestorsUpward
  <1>2. Upward(S)
    BY AncestorsUpward DEF Upward
  <1>3. Ancestors(i) \subseteq S
    BY <1>1, <1>2, AncestorsUpward
  <1> QED  BY <1>3

\* No ancestor lies between another one and the position above that one.
LEMMA AncestorChain ==
    ASSUME NEW i \in Nat \ {0}
    PROVE  \A b \in Ancestors(i) : \A a \in Ancestors(i) : a < b => a <= b \div 2
  <1> DEFINE Good(b) == \A a \in Ancestors(i) : a < b => a <= b \div 2
             Bad == {b \in Ancestors(i) : ~Good(b)}
  <1>a. Ancestors(i) \subseteq 1 .. i
    BY AncestorsUpward
  <1> SUFFICES ASSUME Bad # {} PROVE FALSE
    OBVIOUS
  <1>1. PICK b \in Bad : \A c \in Bad : c <= b
    <2>1. Bad \subseteq 1 .. i /\ Bad # {}
      BY <1>a
    <2> HIDE DEF Bad
    <2> QED  BY <2>1, GreatestElement
  <1>2. b \in Ancestors(i) /\ b \in Nat /\ b >= 1 /\ b <= i /\ ~Good(b)
    BY <1>1, <1>a
  <1>3. \A c \in Ancestors(i) : c > b => Good(c)
    <2> SUFFICES ASSUME NEW c \in Ancestors(i), c > b, ~Good(c) PROVE FALSE
      OBVIOUS
    <2>1. c \in Bad /\ c \in Nat
      BY <1>a
    <2> QED  BY <1>1, <1>2, <2>1
  <1> HIDE DEF Bad
  <1> DEFINE S == {a \in Ancestors(i) : a >= b \/ a <= b \div 2}
  <1>4. S \in SUBSET (1 .. i) /\ i \in S
    BY <1>2, <1>a, AncestorsUpward
  <1>5. ASSUME NEW k \in S \ {1} PROVE k \div 2 \in S
    <2>1. k \in Ancestors(i) /\ k \in Nat /\ k > 1
      BY <1>a
    <2>2. k \div 2 \in Ancestors(i) /\ k \div 2 \in Nat /\ k \div 2 < k
      BY <2>1, AncestorsUpward DEF Upward
    <2>3. CASE k > b
      <3>1. b <= k \div 2
        BY <1>2, <1>3, <2>1, <2>3
      <3> QED  BY <2>2, <3>1
    <2>4. CASE k = b
      BY <2>2, <2>4
    <2>5. CASE k <= b \div 2
      <3>1. b \div 2 \in Nat
        BY <1>2
      <3>2. k \div 2 <= b \div 2
        BY <2>1, <2>2, <2>5, <3>1
      <3> QED  BY <2>2, <3>2
    <2> QED  BY <1>2, <2>1, <2>3, <2>4, <2>5
  <1>6. Ancestors(i) \subseteq S
    <2>1. Upward(S)
      BY <1>5 DEF Upward
    <2> HIDE DEF S
    <2> QED  BY <1>4, <2>1, AncestorsUpward
  <1>7. Good(b)
    BY <1>2, <1>6, <1>a
  <1> QED  BY <1>2, <1>7

\* The ancestors of an ancestor are ancestors.
LEMMA AncestorsNest ==
    ASSUME NEW i \in Nat \ {0}, NEW a \in Ancestors(i)
    PROVE  Ancestors(a) \subseteq Ancestors(i)
  <1> DEFINE S == {b \in Ancestors(i) : b <= a}
  <1>1. a \in Nat \ {0} /\ Ancestors(i) \subseteq 1 .. i
    BY AncestorsUpward
  <1>2. S \in SUBSET (1 .. a) /\ a \in S
    BY <1>1
  <1>3. ASSUME NEW k \in S \ {1} PROVE k \div 2 \in S
    <2>1. k \in Nat /\ k > 1 /\ k <= a
      BY <1>1
    <2>2. k \div 2 \in Ancestors(i) /\ k \div 2 <= a
      BY <1>1, <2>1, AncestorsUpward DEF Upward
    <2> QED  BY <2>2
  <1>4. Upward(S)
    BY <1>3 DEF Upward
  <1> HIDE DEF S
  <1>5. Ancestors(a) \subseteq S
    BY <1>1, <1>2, <1>4, AncestorsUpward
  <1> QED  BY <1>5 DEF S

\* The way up from a child is the child and the way up from its parent.
LEMMA AncestorsOfChild ==
    ASSUME NEW c \in Nat, c > 1
    PROVE  Ancestors(c) \subseteq {c} \cup Ancestors(c \div 2)
  <1> DEFINE S == {c} \cup Ancestors(c \div 2)
  <1>1. c \div 2 \in Nat \ {0} /\ c \div 2 < c
    OBVIOUS
  <1>2. Ancestors(c \div 2) \subseteq 1 .. (c \div 2) /\ c \div 2 \in Ancestors(c \div 2)
        /\ Upward(Ancestors(c \div 2))
    BY <1>1, AncestorsUpward
  <1>3. S \in SUBSET (1 .. c) /\ c \in S
    BY <1>1, <1>2
  <1>4. Upward(S)
    BY <1>2 DEF Upward
  <1> HIDE DEF S
  <1>5. Ancestors(c) \subseteq S
    BY <1>3, <1>4, AncestorsUpward
  <1> QED  BY <1>5 DEF S

-----------------------------------------------------------------------------
(* Sequences as heaps.                                                       *)

\* The entries of a sequence, and that none of them is there twice.
Entries(h) == {h[k] : k \in 1 .. Len(h)}
Distinct(h) == \A k, l \in 1 .. Len(h) : h[k] = h[l] => k = l

\* No entry is less than the one above it.
IsHeap(pr, h) == \A k \in 2 .. Len(h) : pr[h[k \div 2]] <= pr[h[k]]

\* Every position of s takes the entry of a position in P, and each of these is
\* taken once.
TakesEach(f, c, P) ==
    /\ f \in [1 .. c -> P]
    /\ \A k, l \in 1 .. c : f[k] = f[l] => k = l
    /\ \A d \in P : \E k \in 1 .. c : f[k] = d
Rearranges(q, c, h, P) ==
    \E f \in [1 .. c -> P] : TakesEach(f, c, P) /\ q = [k \in 1 .. c |-> h[f[k]]]

LEMMA Rearranged ==
    ASSUME NEW S, NEW h \in Seq(S), NEW c \in Nat, NEW P \in SUBSET (1 .. Len(h)),
           NEW q, Rearranges(q, c, h, P)
    PROVE  /\ q \in Seq(S)
           /\ Len(q) = c
           /\ Entries(q) = {h[d] : d \in P}
           /\ Distinct(h) => Distinct(q)
  <1>0. PICK f \in [1 .. c -> P] :
            TakesEach(f, c, P) /\ q = [k \in 1 .. c |-> h[f[k]]]
    BY DEF Rearranges
  <1>1. \A k \in 1 .. c : f[k] \in P /\ f[k] \in 1 .. Len(h) /\ q[k] = h[f[k]]
    BY <1>0
  <1>2. q \in [1 .. c -> S]
    <2>1. \A k \in 1 .. Len(h) : h[k] \in S
      BY ElementOfSeq
    <2> QED  BY <1>0, <1>1, <2>1
  <1>3. q \in Seq(S) /\ Len(q) = c
    BY <1>2, FunctionIsSequence
  <1>4. Entries(q) = {h[d] : d \in P}
    <2>1. ASSUME NEW x \in Entries(q) PROVE x \in {h[d] : d \in P}
      BY <1>1, <1>3 DEF Entries
    <2>2. ASSUME NEW d \in P PROVE h[d] \in Entries(q)
      <3>1. PICK k \in 1 .. c : f[k] = d
        BY <1>0 DEF TakesEach
      <3>2. h[d] = q[k]
        BY <1>1, <3>1
      <3> QED  BY <1>3, <3>2 DEF Entries
    <2> QED  BY <2>1, <2>2
  <1>5. ASSUME Distinct(h) PROVE Distinct(q)
    <2> SUFFICES ASSUME NEW k \in 1 .. c, NEW l \in 1 .. c, q[k] = q[l]
                 PROVE  k = l
      BY <1>3 DEF Distinct
    <2>1. f[k] = f[l]
      BY <1>1, <1>5 DEF Distinct
    <2> QED  BY <1>0, <2>1 DEF TakesEach
  <1> QED  BY <1>3, <1>4, <1>5

\* A sequence that takes all entries but the first.
LEMMA AllButFirst ==
    ASSUME NEW S, NEW h \in Seq(S), NEW n \in Nat \ {0}, Len(h) = n,
           NEW q, Rearranges(q, n - 1, h, 2 .. n)
    PROVE  /\ q \in Seq(S)
           /\ Len(q) = n - 1
           /\ Entries(h) = Entries(q) \cup {h[1]}
           /\ Distinct(h) => Distinct(q) /\ h[1] \notin Entries(q)
  <1>1. /\ q \in Seq(S)
        /\ Len(q) = n - 1
        /\ Entries(q) = {h[d] : d \in 2 .. n}
        /\ Distinct(h) => Distinct(q)
    <2> DEFINE c == n - 1
               P == 2 .. n
    <2>1. c \in Nat /\ P \in SUBSET (1 .. Len(h))
      OBVIOUS
    <2>2. Rearranges(q, c, h, P)
      OBVIOUS
    <2> HIDE DEF c, P
    <2>3. /\ q \in Seq(S)
          /\ Len(q) = c
          /\ Entries(q) = {h[d] : d \in P}
          /\ Distinct(h) => Distinct(q)
      BY <2>1, <2>2, Rearranged
    <2> QED  BY <2>3 DEF c, P
  <1>2. \A k \in 1 .. n : k = 1 \/ k \in 2 .. n
    OBVIOUS
  <1>3. 1 \in 1 .. n /\ \A d \in 2 .. n : d \in 1 .. n /\ d # 1
    OBVIOUS
  <1>4. Entries(h) = Entries(q) \cup {h[1]}
    BY <1>1, <1>2, <1>3 DEF Entries
  <1>5. Distinct(h) => h[1] \notin Entries(q)
    BY <1>1, <1>3 DEF Distinct
  <1> QED  BY <1>1, <1>4, <1>5

\* No entry of a heap is less than the first.
LEMMA RootLowest ==
    ASSUME NEW S, NEW h \in Seq(S), NEW pr, \A x \in S : pr[x] \in Nat,
           IsHeap(pr, h), NEW k \in 1 .. Len(h)
    PROVE  pr[h[1]] <= pr[h[k]]
  <1> DEFINE Bad == {l \in 1 .. Len(h) : ~(pr[h[1]] <= pr[h[l]])}
  <1>1. Len(h) \in Nat /\ \A l \in 1 .. Len(h) : pr[h[l]] \in Nat
    BY LenProperties, ElementOfSeq
  <1> SUFFICES ASSUME Bad # {} PROVE FALSE
    OBVIOUS
  <1>2. PICK l \in Bad : \A b \in Bad : l <= b
    <2>1. Bad \subseteq Nat
      OBVIOUS
    <2> HIDE DEF Bad
    <2> QED  BY <2>1, LeastElement
  <1>3. l \in 1 .. Len(h) /\ ~(pr[h[1]] <= pr[h[l]])
    OBVIOUS
  <1>4. 1 \in 1 .. Len(h) /\ l \in Nat /\ l > 1
    <2>1. 1 \in 1 .. Len(h)
      BY <1>1
    <2>2. l # 1
      BY <1>1, <1>3, <2>1
    <2> QED  BY <1>3, <2>1, <2>2
  <1> DEFINE p == l \div 2
  <1>5. p \in 1 .. Len(h) /\ p < l
    BY <1>1, <1>3, <1>4, Above
  <1>6. pr[h[p]] <= pr[h[l]]
    <2>1. l \in 2 .. Len(h)
      BY <1>1, <1>3, <1>4
    <2> QED  BY <2>1 DEF IsHeap
  <1>7. pr[h[1]] <= pr[h[p]]
    <2>1. p \notin Bad
      BY <1>2, <1>3, <1>5
    <2> QED  BY <1>5, <2>1
  <1> HIDE DEF p, Bad
  <1> QED  BY <1>1, <1>3, <1>4, <1>5, <1>6, <1>7

-----------------------------------------------------------------------------
(* _siftdown: the entry at i moves up to top, and those it passes move down. *)

\* There is a position the entry rises to.
LEMMA TopExists ==
    ASSUME NEW S, NEW h \in Seq(S), NEW pr, \A x \in S : pr[x] \in Nat,
           NEW i \in 1 .. Len(h)
    PROVE  \E k \in Ancestors(i) : RisesTo(pr, h, i, k)
  <1> DEFINE K == {k \in Ancestors(i) :
                      \A a \in Ancestors(i) \ {i} : a >= k => pr[h[i]] < pr[h[a]]}
  <1>1. i \in Nat \ {0} /\ Ancestors(i) \subseteq 1 .. i /\ i \in Ancestors(i)
        /\ Upward(Ancestors(i))
    BY AncestorsUpward, LenProperties
  <1>2. i \in K
    <2>1. \A a \in Ancestors(i) \ {i} : ~(a >= i)
      BY <1>1
    <2> QED  BY <1>1, <2>1
  <1>3. PICK k \in K : \A l \in K : k <= l
    <2>1. K \subseteq Nat /\ K # {}
      BY <1>1, <1>2
    <2> HIDE DEF K
    <2> QED  BY <2>1, LeastElement
  <1>4. k \in Ancestors(i) /\ k \in Nat /\ k >= 1
    BY <1>1
  <1>5. CASE k # 1
    <2> DEFINE p == k \div 2
    <2>1. p \in Ancestors(i) /\ p \in Nat /\ p < k
      BY <1>1, <1>4, <1>5 DEF Upward
    <2> HIDE DEF p
    <2>2. p \notin K
      BY <1>3, <1>4, <2>1
    <2>3. PICK a \in Ancestors(i) \ {i} : a >= p /\ ~(pr[h[i]] < pr[h[a]])
      BY <2>1, <2>2
    <2>4. a < k
      BY <1>1, <1>3, <1>4, <2>3
    <2>5. a <= p
      BY <1>1, <1>4, <2>4, AncestorChain DEF p
    <2>6. a = p
      BY <1>1, <2>1, <2>3, <2>5
    <2>7. RisesTo(pr, h, i, k)
      BY <1>3, <2>3, <2>6 DEF RisesTo, p
    <2> QED  BY <1>4, <2>7
  <1>6. CASE k = 1
    BY <1>3, <1>4, <1>6 DEF RisesTo
  <1> QED  BY <1>5, <1>6

\* The position whose entry SiftDown leaves at k.
From(i, top, k) ==
    CASE k = top                       -> i
      [] k \in Ancestors(i) /\ k > top -> k \div 2
      [] OTHER                         -> k

\* The entry at i stops at top, and each position gets the entry of From.
SiftsTo(pr, h, i, top) ==
    /\ RisesTo(pr, h, i, top)
    /\ SiftDown(pr, h, i) = [k \in 1 .. Len(h) |-> h[From(i, top, k)]]

\* The position above a child is the one it is a child of.
LEMMA HalfOfChild ==
    ASSUME NEW k \in Nat, k >= 1, NEW e, e = 2 * k \/ e = 2 * k + 1
    PROVE  e >= 2 /\ e \div 2 = k
  <1>1. (2 * k) \div 2 = k /\ (2 * k + 1) \div 2 = k
    OBVIOUS
  <1> QED  BY <1>1

\* What SiftDown does.
LEMMA SiftDownMoves ==
    ASSUME NEW S, NEW h \in Seq(S), NEW pr, \A x \in S : pr[x] \in Nat,
           NEW i \in 1 .. Len(h)
    PROVE  \E top \in Ancestors(i) : SiftsTo(pr, h, i, top)
  <1> DEFINE top == CHOOSE k \in Ancestors(i) : RisesTo(pr, h, i, k)
  <1>1. top \in Ancestors(i) /\ RisesTo(pr, h, i, top)
    BY TopExists
  <1>2. SiftDown(pr, h, i) = [k \in 1 .. Len(h) |->
            CASE k = top                       -> h[i]
              [] k \in Ancestors(i) /\ k > top -> h[k \div 2]
              [] OTHER                         -> h[k]]
    BY DEF SiftDown
  <1> HIDE DEF top
  <1>3. \A k \in 1 .. Len(h) :
            (CASE k = top                       -> h[i]
               [] k \in Ancestors(i) /\ k > top -> h[k \div 2]
               [] OTHER                         -> h[k]) = h[From(i, top, k)]
    BY DEF From
  <1>4. SiftDown(pr, h, i) = [k \in 1 .. Len(h) |-> h[From(i, top, k)]]
    BY <1>2, <1>3
  <1> QED  BY <1>1, <1>4 DEF SiftsTo

\* Every entry moves to one position.
LEMMA SiftDownRearranges ==
    ASSUME NEW S, NEW h \in Seq(S), NEW pr, \A x \in S : pr[x] \in Nat,
           NEW i \in 1 .. Len(h)
    PROVE  /\ SiftDown(pr, h, i) \in Seq(S)
           /\ Len(SiftDown(pr, h, i)) = Len(h)
           /\ Entries(SiftDown(pr, h, i)) = Entries(h)
           /\ Distinct(h) => Distinct(SiftDown(pr, h, i))
  <1>0. Len(h) \in Nat /\ i \in Nat \ {0} /\ i <= Len(h)
    BY LenProperties
  <1>p. PICK top \in Ancestors(i) : SiftsTo(pr, h, i, top)
    BY SiftDownMoves
  <1>1. SiftDown(pr, h, i) = [k \in 1 .. Len(h) |-> h[From(i, top, k)]]
    BY <1>p DEF SiftsTo
  <1> DEFINE n == Len(h)
             A == Ancestors(i)
             f == [k \in 1 .. n |-> From(i, top, k)]
             mid == {k \in A : k > top}
  <1>2. A \subseteq 1 .. i /\ i \in A /\ Upward(A) /\ top \in 1 .. i
    BY <1>0, AncestorsUpward
  <1>3. ASSUME NEW k \in mid
        PROVE  /\ k \in Nat /\ k > 1 /\ k <= i
               /\ k \div 2 \in A /\ k \div 2 >= top /\ k \div 2 < k /\ k \div 2 # i
    <2>1. k \in Nat /\ k > 1 /\ k <= i
      BY <1>2
    <2>2. k \div 2 \in A
      BY <1>2, <2>1 DEF Upward
    <2>3. k \div 2 >= top
      BY <1>0, <1>2, <2>1, AncestorChain
    <2> QED  BY <2>1, <2>2, <2>3
  <1>4. /\ \A k \in 1 .. n : k \in mid => f[k] = k \div 2
        /\ \A k \in 1 .. n : k \notin mid /\ k # top => f[k] = k
        /\ top \in 1 .. n /\ f[top] = i
    BY <1>0, <1>2 DEF From
  <1> HIDE DEF f
  <1>5. f \in [1 .. n -> 1 .. n]
    <2>1. ASSUME NEW k \in 1 .. n PROVE f[k] \in 1 .. n
      <3>1. CASE k \in mid
        BY <1>0, <1>2, <1>3, <1>4, <3>1
      <3>2. CASE k \notin mid
        BY <1>4, <3>2
      <3> QED  BY <3>1, <3>2
    <2> QED  BY <2>1 DEF f
  <1>6. ASSUME NEW k \in 1 .. n, NEW l \in 1 .. n, f[k] = f[l]
        PROVE  k = l
    <2>1. CASE k \in mid /\ l \in mid
      <3>1. k \div 2 = l \div 2
        BY <1>4, <1>6, <2>1
      <3>2. k < l => k <= l \div 2
        BY <1>0, <2>1, AncestorChain
      <3>3. l < k => l <= k \div 2
        BY <1>0, <2>1, AncestorChain
      <3> QED  BY <1>3, <2>1, <3>1, <3>2, <3>3
    <2>2. ASSUME NEW x \in mid, NEW y \in 1 .. n, y \notin mid, f[x] = f[y]
          PROVE  FALSE
      <3>1. x \in 1 .. n /\ f[x] = x \div 2
        BY <1>0, <1>2, <1>4
      <3>2. y # top
        BY <1>3, <1>4, <2>2, <3>1
      <3>3. y = x \div 2
        BY <1>4, <2>2, <3>1, <3>2
      <3>4. y \in mid
        BY <1>2, <1>3, <3>2, <3>3
      <3> QED  BY <2>2, <3>4
    <2>3. CASE k \notin mid /\ l \notin mid
      <3>1. i \in mid \/ i = top
        BY <1>2
      <3> QED  BY <1>4, <1>6, <2>3, <3>1
    <2> QED  BY <1>6, <2>1, <2>2, <2>3
  <1>7. ASSUME NEW d \in 1 .. n PROVE \E k \in 1 .. n : f[k] = d
    <2>1. CASE d = i
      BY <1>4, <2>1
    <2>2. CASE d \in A /\ d >= top /\ d # i
      <3>1. PICK b \in A \ {1} : b \div 2 = d
        BY <1>0, <2>2, AncestorBelow
      <3>2. b \in mid /\ b \in 1 .. n
        BY <1>0, <1>2, <2>2, <3>1
      <3> QED  BY <1>4, <3>1, <3>2
    <2>3. CASE ~(d \in A /\ d >= top)
      <3>1. d \notin mid /\ d # top
        BY <1>2, <2>3
      <3> QED  BY <1>4, <3>1
    <2> QED  BY <2>1, <2>2, <2>3
  <1>8. SiftDown(pr, h, i) = [k \in 1 .. n |-> h[f[k]]]
    <2>1. \A k \in 1 .. n : f[k] = From(i, top, k)
      BY DEF f
    <2>2. \A k \in 1 .. n : h[From(i, top, k)] = h[f[k]]
      BY <2>1
    <2> HIDE DEF mid
    <2> QED  BY <1>1, <2>2
  <1>9. Entries(h) = {h[d] : d \in 1 .. n}
    BY DEF Entries
  <1>10. n \in Nat /\ 1 .. n \subseteq 1 .. Len(h)
    BY <1>0
  <1>11. Len(h) = n
    OBVIOUS
  <1> HIDE DEF n, A, mid
  <1>12. Rearranges(SiftDown(pr, h, i), n, h, 1 .. n)
    <2>1. TakesEach(f, n, 1 .. n)
      BY <1>5, <1>6, <1>7 DEF TakesEach
    <2> QED  BY <1>5, <1>8, <2>1 DEF Rearranges
  <1>13. /\ SiftDown(pr, h, i) \in Seq(S)
         /\ Len(SiftDown(pr, h, i)) = n
         /\ Entries(SiftDown(pr, h, i)) = {h[d] : d \in 1 .. n}
         /\ Distinct(h) => Distinct(SiftDown(pr, h, i))
    BY <1>10, <1>12, Rearranged
  <1> QED  BY <1>9, <1>11, <1>13

\* A sequence that is a heap but for the entry at i, which has nothing below
\* it, becomes a heap.
LEMMA SiftDownMakesHeap ==
    ASSUME NEW S, NEW h \in Seq(S), NEW pr, \A x \in S : pr[x] \in Nat,
           NEW i \in 1 .. Len(h), 2 * i > Len(h),
           \A k \in 2 .. Len(h) : k # i => pr[h[k \div 2]] <= pr[h[k]]
    PROVE  IsHeap(pr, SiftDown(pr, h, i))
  <1>0. Len(h) \in Nat /\ i \in Nat \ {0} /\ i <= Len(h)
    BY LenProperties
  <1>p. PICK top \in Ancestors(i) : SiftsTo(pr, h, i, top)
    BY SiftDownMoves
  <1>1. /\ RisesTo(pr, h, i, top)
        /\ SiftDown(pr, h, i) = [k \in 1 .. Len(h) |-> h[From(i, top, k)]]
    BY <1>p DEF SiftsTo
  <1> DEFINE n == Len(h)
             A == Ancestors(i)
             s == SiftDown(pr, h, i)
             v(k) == pr[h[k]]
  <1>2. A \subseteq 1 .. i /\ i \in A /\ Upward(A) /\ top \in 1 .. i
    BY <1>0, AncestorsUpward
  <1>3. Len(s) = n
    BY SiftDownRearranges
  <1>4. \A k \in 1 .. n : v(k) \in Nat
    BY ElementOfSeq
  <1>5. /\ \A k \in 1 .. n : k \in A /\ k > top => s[k] = h[k \div 2]
        /\ \A k \in 1 .. n : k \notin A \/ k < top => s[k] = h[k]
        /\ s[top] = h[i] /\ top \in 1 .. n
    BY <1>0, <1>1, <1>2 DEF From
  <1>6. \A a \in A : a # i /\ a >= top => v(i) < v(a)
    BY <1>1 DEF RisesTo
  <1>7. top = 1 \/ v(top \div 2) <= v(i)
    <2>1. top = 1 \/ ~(v(i) < v(top \div 2))
      BY <1>1 DEF RisesTo
    <2>2. top # 1 => top \div 2 \in 1 .. n
      BY <1>0, <1>2
    <2> QED  BY <1>0, <1>4, <2>1, <2>2
  <1>8. \A k \in 2 .. n : k # i => v(k \div 2) <= v(k)
    OBVIOUS
  <1> SUFFICES ASSUME NEW k \in 2 .. n PROVE pr[s[k \div 2]] <= pr[s[k]]
    BY <1>3 DEF IsHeap
  <1> DEFINE p == k \div 2
  <1>9. p \in 1 .. n /\ p < k /\ k \in 1 .. n /\ p # i /\ (p # 1 => p \in 2 .. n)
    BY <1>0
  <1>10. k \in A => p \in A
    BY <1>9, <1>2 DEF Upward
  <1>11. k \in A /\ k > top => p >= top
    BY <1>0, AncestorChain
  <1>12. p # 1 => p \div 2 \in 1 .. n
    BY <1>0, <1>9
  <1> HIDE DEF s, A
  <1>13. CASE k \in A /\ k < top
    <2>1. s[k] = h[k] /\ s[p] = h[p] /\ k # i
      BY <1>2, <1>5, <1>9, <1>13
    <2> QED  BY <1>8, <2>1
  <1>14. CASE k = top
    <2>1. s[k] = h[i] /\ s[p] = h[p]
      BY <1>2, <1>5, <1>9, <1>14
    <2> QED  BY <1>7, <1>9, <1>14, <2>1
  <1>15. CASE k \in A /\ k > top
    <2>1. s[k] = h[p]
      BY <1>5, <1>9, <1>15
    <2>2. CASE p = top
      <3>1. s[p] = h[i] /\ v(i) < v(p)
        BY <1>5, <1>6, <1>9, <1>10, <1>11, <1>15, <2>2
      <3> QED  BY <1>0, <1>4, <1>9, <2>1, <3>1
    <2>3. CASE p > top
      <3>1. s[p] = h[p \div 2] /\ p # 1
        BY <1>2, <1>5, <1>9, <1>10, <1>15, <2>3
      <3>2. v(p \div 2) <= v(p)
        BY <1>8, <1>9, <3>1
      <3> QED  BY <2>1, <3>1, <3>2
    <2> QED  BY <1>2, <1>9, <1>11, <1>15, <2>2, <2>3
  <1>16. CASE k \notin A
    <2>1. s[k] = h[k] /\ v(p) <= v(k)
      BY <1>2, <1>5, <1>8, <1>9, <1>16
    <2>2. CASE p \notin A \/ p < top
      BY <1>5, <1>9, <2>1, <2>2
    <2>3. CASE p = top
      <3>1. s[p] = h[i] /\ v(i) < v(p)
        BY <1>1, <1>2, <1>5, <1>6, <1>9, <2>3 DEF A
      <3> QED  BY <1>0, <1>4, <1>9, <2>1, <3>1
    <2>4. CASE p \in A /\ p > top
      <3>1. s[p] = h[p \div 2] /\ p # 1
        BY <1>2, <1>5, <1>9, <2>4
      <3>2. v(p \div 2) <= v(p)
        BY <1>8, <1>9, <3>1
      <3>3. v(p \div 2) <= v(k)
        BY <1>4, <1>9, <1>12, <2>1, <3>1, <3>2
      <3> QED  BY <2>1, <3>1, <3>3
    <2> QED  BY <1>2, <1>9, <2>2, <2>3, <2>4
  <1> QED  BY <1>2, <1>9, <1>13, <1>14, <1>15, <1>16

-----------------------------------------------------------------------------
(* heappush                                                                  *)

\* The heap gains the entry, and stays a heap.
LEMMA HeapPushResult ==
    ASSUME NEW S, NEW h \in Seq(S), NEW j \in S, NEW pr, \A x \in S : pr[x] \in Nat
    PROVE  /\ HeapPush(pr, h, j) \in Seq(S)
           /\ Len(HeapPush(pr, h, j)) = Len(h) + 1
           /\ Entries(HeapPush(pr, h, j)) = Entries(h) \cup {j}
           /\ Distinct(h) /\ j \notin Entries(h) => Distinct(HeapPush(pr, h, j))
           /\ IsHeap(pr, h) => IsHeap(pr, HeapPush(pr, h, j))
  <1> DEFINE g == Append(h, j)
             n == Len(h) + 1
  <1>1. /\ g \in Seq(S) /\ Len(g) = n /\ g[n] = j
        /\ \A k \in 1 .. Len(h) : g[k] = h[k]
        /\ Len(h) \in Nat
    BY AppendProperties, LenProperties
  <1> HIDE DEF g
  <1>2. n \in 1 .. Len(g) /\ 2 * n > Len(g)
    BY <1>1
  <1>3. \A k \in 1 .. Len(g) : k = n \/ k \in 1 .. Len(h)
    BY <1>1
  <1>4. HeapPush(pr, h, j) = SiftDown(pr, g, n)
    BY DEF HeapPush, g
  <1>5. Entries(g) = Entries(h) \cup {j}
    <2>1. \A k \in 1 .. Len(h) : k \in 1 .. Len(g)
      BY <1>1
    <2> QED  BY <1>1, <1>2, <1>3, <2>1 DEF Entries
  <1>6. Distinct(h) /\ j \notin Entries(h) => Distinct(g)
    BY <1>1, <1>3 DEF Distinct, Entries
  <1>7. ASSUME IsHeap(pr, h) PROVE IsHeap(pr, SiftDown(pr, g, n))
    <2>1. ASSUME NEW k \in 2 .. Len(g), k # n
          PROVE  pr[g[k \div 2]] <= pr[g[k]]
      <3>1. k \in 2 .. Len(h) /\ k \in 1 .. Len(h) /\ k \div 2 \in 1 .. Len(h)
        BY <1>1, <2>1
      <3> QED  BY <1>1, <1>7, <3>1 DEF IsHeap
    <2> HIDE DEF n
    <2> QED  BY <1>1, <1>2, <2>1, SiftDownMakesHeap
  <1>8. /\ SiftDown(pr, g, n) \in Seq(S)
        /\ Len(SiftDown(pr, g, n)) = Len(g)
        /\ Entries(SiftDown(pr, g, n)) = Entries(g)
        /\ Distinct(g) => Distinct(SiftDown(pr, g, n))
    <2> HIDE DEF n
    <2> QED  BY <1>1, <1>2, SiftDownRearranges
  <1> QED  BY <1>1, <1>4, <1>5, <1>6, <1>7, <1>8

-----------------------------------------------------------------------------
(* heappop: the holes go from the root down to a position that has nothing   *)
(* below it.                                                                 *)

LEMMA HolesLine ==
    ASSUME NEW pr, NEW r, NEW m \in Nat \ {0}, Len(r) = m
    PROVE  \E leaf \in Holes(pr, r) :
              /\ \A k \in Holes(pr, r) : k <= leaf
              /\ Holes(pr, r) \subseteq 1 .. m
              /\ 2 * leaf > m
              /\ 1 \in Holes(pr, r)
              /\ \A k \in Holes(pr, r) \ {1} :
                    k \div 2 \in Holes(pr, r) /\ k = SmallerChild(pr, r, k \div 2)
              /\ \A k \in Holes(pr, r) \ {leaf} :
                    SmallerChild(pr, r, k) \in Holes(pr, r)
  <1> DEFINE H == Holes(pr, r)
             sc(k) == SmallerChild(pr, r, k)
  <1>1. H \subseteq 1 .. m
        /\ \A k \in H : \A a \in Ancestors(k) \ {1} : a = sc(a \div 2)
    BY DEF Holes
  <1>2. \A k \in 1 .. m : (\A a \in Ancestors(k) \ {1} : a = sc(a \div 2)) => k \in H
    BY DEF Holes
  <1>3. 1 \in H
    <2>1. Ancestors(1) \subseteq 1 .. 1
      BY AncestorsUpward
    <2> QED  BY <1>2, <2>1
  <1> HIDE DEF H
  <1>4. PICK leaf \in H : \A k \in H : k <= leaf
    BY <1>1, <1>3, GreatestElement
  <1>5. ASSUME NEW k \in H
        PROVE  k \in Nat \ {0} /\ Ancestors(k) \subseteq H
    <2>1. k \in 1 .. m /\ k \in Nat \ {0}
      BY <1>1
    <2>2. ASSUME NEW a \in Ancestors(k) PROVE a \in H
      <3>1. a \in 1 .. m
        BY <2>1, AncestorsUpward
      <3>2. Ancestors(a) \subseteq Ancestors(k)
        BY <2>1, AncestorsNest
      <3> QED  BY <1>1, <1>2, <3>1, <3>2
    <2> QED  BY <2>1, <2>2
  <1>6. ASSUME NEW k \in H \ {1}
        PROVE  k \div 2 \in H /\ k = sc(k \div 2)
    <2>1. k \in Nat \ {0} /\ Ancestors(k) \subseteq H
      BY <1>5
    <2>2. k \in Ancestors(k) /\ k \div 2 \in Ancestors(k)
      BY <2>1, AncestorsUpward DEF Upward
    <2> QED  BY <1>1, <2>1, <2>2
  <1>7. 2 * leaf > m
    <2> SUFFICES ASSUME ~(2 * leaf > m) PROVE FALSE
      OBVIOUS
    <2> DEFINE c == sc(leaf)
    <2>1. leaf \in Nat \ {0} /\ leaf \in 1 .. m
      BY <1>1
    <2>2. c \in 1 .. m /\ c > 1 /\ c \in Nat /\ c \div 2 = leaf /\ c > leaf
      BY <2>1 DEF SmallerChild
    <2> HIDE DEF c
    <2>3. Ancestors(c) \subseteq {c} \cup Ancestors(leaf)
      BY <2>2, AncestorsOfChild
    <2>4. c \in H
      BY <1>1, <1>2, <2>2, <2>3 DEF c
    <2> QED  BY <1>4, <2>1, <2>2, <2>4
  <1>8. H \subseteq Ancestors(leaf)
    <2> DEFINE T == H \ Ancestors(leaf)
    <2> SUFFICES ASSUME T # {} PROVE FALSE
      OBVIOUS
    <2>1. PICK x \in T : \A y \in T : x <= y
      <3>1. T \subseteq Nat
        <4>1. \A y \in T : y \in 1 .. m
          BY <1>1
        <4> QED  BY <4>1
      <3> HIDE DEF T
      <3> QED  BY <3>1, LeastElement
    <2>2. leaf \in Nat \ {0}
      BY <1>5
    <2>3. x \in H /\ x # 1 /\ x \in Nat /\ x > 1
      <3>1. x # 1
        BY <2>2, RootIsAncestor
      <3>2. x \in 1 .. m
        BY <1>1
      <3> QED  BY <3>1, <3>2
    <2>4. x \div 2 \in H /\ x = sc(x \div 2)
      BY <1>6, <2>3
    <2>5. x \div 2 \in Nat /\ x \div 2 < x
      BY <2>3, Above
    <2>6. x \div 2 \in Ancestors(leaf)
      BY <2>1, <2>3, <2>4, <2>5
    <2>7. x \div 2 # leaf
      BY <1>4, <2>2, <2>3, <2>5
    <2>8. PICK b \in Ancestors(leaf) \ {1} : b \div 2 = x \div 2
      BY <2>2, <2>6, <2>7, AncestorBelow
    <2>9. b = sc(b \div 2)
      BY <1>1, <2>8
    <2>10. x = b
      BY <2>4, <2>8, <2>9
    <2> QED  BY <2>8, <2>10
  <1>9. ASSUME NEW k \in H \ {leaf}
        PROVE  sc(k) \in H
    <2>1. leaf \in Nat \ {0} /\ k \in Ancestors(leaf) /\ k # leaf
      BY <1>5, <1>8
    <2>2. PICK b \in Ancestors(leaf) \ {1} : b \div 2 = k
      BY <2>1, AncestorBelow
    <2>3. b = sc(k) /\ b \in H
      BY <1>1, <1>5, <2>2
    <2> QED  BY <2>3
  <1> QED  BY <1>1, <1>3, <1>4, <1>6, <1>7, <1>9 DEF H

\* The heap loses its first entry and no other, and stays a heap.
LEMMA HeapPopResult ==
    ASSUME NEW S, NEW h \in Seq(S), NEW n \in Nat \ {0}, Len(h) = n,
           NEW pr, \A x \in S : pr[x] \in Nat
    PROVE  /\ HeapPop(pr, h) \in Seq(S)
           /\ Len(HeapPop(pr, h)) = n - 1
           /\ Entries(h) = Entries(HeapPop(pr, h)) \cup {h[1]}
           /\ Distinct(h) => /\ Distinct(HeapPop(pr, h))
                             /\ h[1] \notin Entries(HeapPop(pr, h))
           /\ IsHeap(pr, h) => IsHeap(pr, HeapPop(pr, h))
  <1> DEFINE m == n - 1
             r == SubSeq(h, 1, m)
             H == Holes(pr, r)
             sc(k) == SmallerChild(pr, r, k)
             lowest == CHOOSE i \in H : \A k \in H : k <= i
             g == [i \in 1 .. Len(r) |->
                      CASE i = lowest          -> h[n]
                        [] i \in H \ {lowest}  -> r[sc(i)]
                        [] OTHER               -> r[i]]
  <1>1. n >= 1 /\ m \in Nat /\ (n = 1 \/ n > 1)
    OBVIOUS
  <1>2. HeapPop(pr, h) = IF r = <<>> THEN r ELSE SiftDown(pr, g, lowest)
    BY DEF HeapPop
  <1> HIDE DEF H, sc, lowest, g
  <1>3. r \in Seq(S) /\ Len(r) = m /\ \A k \in 1 .. m : r[k] = h[k]
    <2>1. \A k \in 1 .. m : h[k] \in S
      BY <1>1, ElementOfSeq
    <2> HIDE DEF m
    <2> QED  BY <1>1, <2>1, SubSeqProperties
  <1> HIDE DEF r
  <1>4. CASE n = 1
    <2>1. r = <<>> /\ HeapPop(pr, h) = <<>>
      BY <1>2, <1>3, <1>4, EmptySeq
    <2>2. <<>> \in Seq(S) /\ Len(<<>>) = 0
      BY EmptySeq
    <2>3. Entries(<<>>) = {} /\ Distinct(<<>>) /\ IsHeap(pr, <<>>)
      BY <2>2 DEF Entries, Distinct, IsHeap
    <2>4. Entries(h) = {h[1]}
      BY <1>4 DEF Entries
    <2> QED  BY <1>4, <2>1, <2>2, <2>3, <2>4
  <1>5. CASE n > 1
    <2>1. m \in Nat \ {0} /\ r # <<>>
      <3>1. m \in Nat \ {0}
        BY <1>5
      <3> HIDE DEF m
      <3> QED  BY <1>3, <3>1, EmptySeq
    <2>2. PICK leaf \in H :
              /\ \A k \in H : k <= leaf
              /\ H \subseteq 1 .. m
              /\ 2 * leaf > m
              /\ 1 \in H
              /\ \A k \in H \ {1} : k \div 2 \in H /\ k = sc(k \div 2)
              /\ \A k \in H \ {leaf} : sc(k) \in H
      <3> HIDE DEF m
      <3> QED  BY <1>3, <2>1, HolesLine DEF H, sc
    <2>3. leaf \in 1 .. m
      BY <2>2
    <2>4. lowest = leaf
      <3>1. lowest \in H /\ \A k \in H : k <= lowest
        BY <2>2 DEF lowest
      <3>2. lowest \in 1 .. m /\ leaf \in 1 .. m
        <4> HIDE DEF m
        <4> QED  BY <2>2, <3>1
      <3> QED  BY <2>2, <3>1, <3>2
    <2> DEFINE from == [k \in 1 .. m |->
                           IF k = leaf THEN n ELSE IF k \in H THEN sc(k) ELSE k]
    <2>5. \A k \in H \ {leaf} :
              /\ sc(k) \in H /\ sc(k) \in 2 .. m /\ sc(k) \div 2 = k
      <3> TAKE k \in H \ {leaf}
      <3>1. k \in 1 .. m /\ sc(k) \in H /\ sc(k) \in 1 .. m
        BY <2>2
      <3>3. k \in Nat /\ k >= 1 /\ sc(k) \in Nat /\ sc(k) <= m
        BY <1>1, <3>1
      <3>2. sc(k) = 2 * k \/ sc(k) = 2 * k + 1
        BY DEF SmallerChild, sc
      <3>4. sc(k) >= 2 /\ sc(k) \div 2 = k
        BY <3>2, <3>3, HalfOfChild
      <3> QED  BY <1>1, <3>1, <3>3, <3>4
    <2>6. /\ leaf \in 1 .. m /\ from[leaf] = n
          /\ \A k \in 1 .. m : k \in H /\ k # leaf => from[k] = sc(k)
          /\ \A k \in 1 .. m : k \notin H => from[k] = k
      BY <2>2, <2>3
    <2>7. \A k \in 1 .. m : k \notin H => k \in 2 .. m
      BY <1>1, <2>2
    <2>8. from \in [1 .. m -> 2 .. n]
      <3>1. ASSUME NEW k \in 1 .. m
            PROVE  (IF k = leaf THEN n ELSE IF k \in H THEN sc(k) ELSE k) \in 2 .. n
        BY <1>1, <1>5, <2>5, <2>7
      <3> QED  BY <3>1
    <2> HIDE DEF from
    <2>9. g = [k \in 1 .. m |-> h[from[k]]]
      <3>1. ASSUME NEW k \in 1 .. m
            PROVE  (CASE k = lowest          -> h[n]
                      [] k \in H \ {lowest}  -> r[sc(k)]
                      [] OTHER               -> r[k]) = h[from[k]]
        <4>1. CASE k = leaf
          BY <2>4, <2>6, <4>1
        <4>2. CASE k \in H /\ k # leaf
          <5>1. r[sc(k)] = h[sc(k)]
            <6>1. sc(k) \in 1 .. m
              BY <1>1, <2>5, <4>2
            <6> QED  BY <1>3, <6>1
            <5> QED  BY <2>4, <2>6, <4>2, <5>1
        <4>3. CASE k \notin H
          BY <1>3, <2>2, <2>4, <2>6, <4>3
        <4> QED  BY <4>1, <4>2, <4>3
      <3> HIDE DEF m
      <3> QED  BY <1>3, <3>1 DEF g
    <2>10. ASSUME NEW k \in 1 .. m, NEW l \in 1 .. m, from[k] = from[l]
           PROVE  k = l
      <3>1. \A x \in 1 .. m : x # leaf => from[x] \in 2 .. m /\ from[x] # n
        BY <1>1, <2>5, <2>6, <2>7
      <3>2. CASE k = leaf \/ l = leaf
        BY <2>6, <2>10, <3>1, <3>2
      <3>3. CASE k # leaf /\ l # leaf
        <4>1. CASE k \in H /\ l \in H
          <5> HIDE DEF m
          <5>1. sc(k) = sc(l)
            BY <2>6, <2>10, <3>3, <4>1
          <5> QED  BY <2>5, <3>3, <4>1, <5>1
        <4>2. CASE k \notin H \/ l \notin H
          <5> HIDE DEF m
          <5> QED  BY <2>5, <2>6, <2>10, <3>3, <4>2
        <4> QED  BY <4>1, <4>2
      <3> QED  BY <3>2, <3>3
    <2>11. ASSUME NEW d \in 2 .. n
           PROVE  \E k \in 1 .. m : from[k] = d
      <3>1. CASE d = n
        BY <2>6, <3>1
      <3>2. CASE d # n /\ d \in H
        <4>1. d \in 2 .. m /\ d # 1
          BY <1>1, <3>2
        <4>2. d \div 2 \in H /\ d = sc(d \div 2)
          BY <2>2, <3>2, <4>1
        <4>3. d \div 2 # leaf
          BY <1>1, <2>2, <2>3, <3>2, <4>1
        <4>4. d \div 2 \in 1 .. m
          BY <2>2, <4>2
        <4> HIDE DEF m
        <4> QED  BY <2>6, <4>2, <4>3, <4>4
      <3>3. CASE d # n /\ d \notin H
        <4>1. d \in 1 .. m
          BY <1>1, <3>3
        <4> QED  BY <2>6, <3>3, <4>1
      <3> QED  BY <3>1, <3>2, <3>3
    <2>12. /\ g \in Seq(S) /\ Len(g) = m
           /\ Entries(h) = Entries(g) \cup {h[1]}
           /\ Distinct(h) => Distinct(g) /\ h[1] \notin Entries(g)
      <3>1. TakesEach(from, m, 2 .. n)
        BY <2>8, <2>10, <2>11 DEF TakesEach
      <3>2. Rearranges(g, m, h, 2 .. n)
        BY <2>8, <2>9, <3>1 DEF Rearranges
      <3> QED  BY <3>2, AllButFirst
    <2>13. /\ SiftDown(pr, g, leaf) \in Seq(S)
           /\ Len(SiftDown(pr, g, leaf)) = Len(g)
           /\ Entries(SiftDown(pr, g, leaf)) = Entries(g)
           /\ Distinct(g) => Distinct(SiftDown(pr, g, leaf))
      <3> HIDE DEF m
      <3> QED  BY <2>3, <2>12, SiftDownRearranges
    <2>14. ASSUME IsHeap(pr, h)
           PROVE  IsHeap(pr, SiftDown(pr, g, leaf))
      <3>1. \A k \in 2 .. m : pr[r[k \div 2]] <= pr[r[k]]
        <4> TAKE k \in 2 .. m
        <4>1. k \in 1 .. m /\ k \div 2 \in 1 .. m /\ k \in 2 .. n
          BY <1>1
        <4> QED  BY <1>3, <2>14, <4>1 DEF IsHeap
      <3>2. ASSUME NEW k \in 2 .. m, k # leaf
            PROVE  pr[g[k \div 2]] <= pr[g[k]]
        <4> DEFINE p == k \div 2
        <4>1. k \in 1 .. m /\ p \in 1 .. m /\ p < k /\ (k = 2 * p \/ k = 2 * p + 1)
          BY <1>1
        <4>2. p # leaf
          BY <2>2, <2>3, <4>1
        <4>3. \A x \in 1 .. m : x \in H /\ x # leaf => g[x] = r[sc(x)]
          <5>1. \A x \in 1 .. m : x \in H /\ x # leaf => g[x] = h[sc(x)] /\ sc(x) \in 1 .. m
            BY <1>1, <2>5, <2>6, <2>9
          <5> QED  BY <1>3, <5>1
        <4>4. \A x \in 1 .. m : x \notin H => g[x] = r[x]
          BY <1>3, <2>6, <2>9
        <4> HIDE DEF p
        <4>5. CASE k \in H
          <5>1. p \in H /\ k = sc(p)
            BY <1>1, <2>2, <4>1, <4>5 DEF p
          <5>2. g[p] = r[k] /\ g[k] = r[sc(k)]
            BY <3>2, <4>1, <4>2, <4>3, <4>5, <5>1
          <5>3. sc(k) \in 2 .. m /\ sc(k) \div 2 = k
            BY <2>5, <3>2, <4>5
          <5>4. pr[r[k]] <= pr[r[sc(k)]]
            BY <3>1, <5>3
          <5> QED  BY <5>2, <5>4 DEF p
        <4>6. CASE k \notin H /\ p \notin H
          BY <3>1, <4>1, <4>4, <4>6 DEF p
        <4>7. CASE k \notin H /\ p \in H
          <5>1. g[k] = r[k] /\ g[p] = r[sc(p)]
            <6> QED  BY <4>1, <4>2, <4>3, <4>4, <4>7
          <5>2. sc(p) \in H /\ sc(p) \in 1 .. m /\ k # sc(p)
            <6> QED  BY <1>1, <2>5, <4>2, <4>7
          <5>3. pr[r[k]] \in Nat /\ pr[r[sc(p)]] \in Nat
            <6> QED  BY <1>3, <4>1, <5>2, ElementOfSeq
          <5>4. pr[r[sc(p)]] <= pr[r[k]]
            <6>1. CASE k = 2 * p
              <7>1. sc(p) = 2 * p + 1 /\ ~(pr[r[2 * p]] < pr[r[2 * p + 1]])
                BY <5>2, <6>1 DEF SmallerChild, sc
              <7> QED  BY <5>3, <6>1, <7>1
            <6>2. CASE k = 2 * p + 1
              <7>1. sc(p) = 2 * p /\ pr[r[2 * p]] < pr[r[2 * p + 1]]
                BY <1>3, <4>1, <5>2, <6>2 DEF SmallerChild, sc
              <7> QED  BY <5>3, <6>2, <7>1
            <6> QED  BY <4>1, <6>1, <6>2
          <5> QED  BY <5>1, <5>4 DEF p
        <4> QED  BY <4>5, <4>6, <4>7
      <3> HIDE DEF m
      <3> QED  BY <2>2, <2>3, <2>12, <3>2, SiftDownMakesHeap
    <2>15. HeapPop(pr, h) = SiftDown(pr, g, leaf)
      BY <1>2, <2>1, <2>4
    <2> QED  BY <2>12, <2>13, <2>14, <2>15
  <1> QED  BY <1>1, <1>4, <1>5
=============================================================================
