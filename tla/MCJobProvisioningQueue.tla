----------------------- MODULE MCJobProvisioningQueue -----------------------
(***************************************************************************)
(* Small queue profiles.  Job ids are 1, 2, ...; the functions from job ids  *)
(* that a configuration cannot write are given here.                         *)
(***************************************************************************)
EXTENDS JobProvisioningQueue

\* All jobs in one group, as for ephemeral capacity.
OneGroup == [j \in Jobs |-> CHOOSE g \in Groups : TRUE]
\* A group for each of the first jobs; the jobs after them share its groups.
ManyGroups ==
    [j \in Jobs |-> j % Cardinality(Groups)]

OneQueue == [j \in Jobs |-> 1]

\* Submission times differ, and do not follow the ids in the heap's order.
MixedTimes == [j \in Jobs |-> 10 * ((3 * j) % 7)]
=============================================================================
