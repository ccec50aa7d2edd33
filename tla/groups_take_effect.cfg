\* A user and two groups, no faults.
SPECIFICATION Spec
CONSTANTS
    Users = {u1}
    Groups = {g1, g2}
    Projects = {p1}
    Workers = {w1}
    ReadOnly = FALSE
    MaxReceive = 2
    MaxCalls = 2
    MaxFaults = 0
INVARIANTS
    GroupsTakeEffect
\* When the calls are used up and everything is handled, nothing more happens.
CHECK_DEADLOCK FALSE
