\* Three groups, fair share, limits that can fail, room for every job.
\* A scheduler with no job left to submit may stop.
SPECIFICATION FairSpec
CONSTANTS
    Jobs = {1, 2, 3}
    NoJob = NoJob
    Groups = {0, 1, 2}
    GroupOf <- ManyGroups
    QueueOf <- OneQueue
    QueueTime <- MixedTimes
    Putters = {monitor}
    FairShare = TRUE
    Scores = {10, 20}
    Limits = TRUE
    MaxSize = 3
INVARIANTS
    RingInRange
PROPERTIES
    QueuedComesBack
    GroupsAreServed
CHECK_DEADLOCK FALSE
