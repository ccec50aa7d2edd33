---------------------------- MODULE FifoJobGroups ----------------------------
(***************************************************************************)
(* What the provisioning queue promises in FIFO mode, without its heaps, its *)
(* ring and its index: each job group hands out its waiting jobs in order,   *)
(* one at a time, each as often as it was put.                               *)
(***************************************************************************)
EXTENDS Naturals

CONSTANTS Jobs, GroupOf, Rank

VARIABLES
    waiting, \* the jobs that were put and not taken
    inHand   \* the job that was taken and is looked at, if any

vars == <<waiting, inHand>>

Init == waiting = {} /\ inHand = {}

Put(j) == waiting' = waiting \cup {j} /\ UNCHANGED inHand

\* No other job of the group that waits is before j.
First(j) == \A k \in waiting : GroupOf[k] = GroupOf[j] => Rank[j] <= Rank[k]

Take(j) ==
    /\ inHand = {}
    /\ j \in waiting /\ First(j)
    /\ waiting' = waiting \ {j}
    /\ inHand' = {j}

Decide == inHand # {} /\ inHand' = {} /\ UNCHANGED waiting

Next == Decide \/ \E j \in Jobs : Put(j) \/ Take(j)

Spec == Init /\ [][Next]_vars
=============================================================================
