\* A user, the group of one project, two workers.
SPECIFICATION FairSpec
CONSTANTS
    Users = {u1}
    Groups = {g1}
    Projects = {p1}
    Workers = {w1, w2}
    ReadOnly = FALSE
    MaxReceive = 2
    MaxCalls = 2
    MaxFaults = 1
INVARIANTS
    TypeOK
    GrantsArrive
    RevokesArrive
PROPERTIES
    Drained
\* When the calls are used up and everything is handled, nothing more happens.
CHECK_DEADLOCK FALSE
