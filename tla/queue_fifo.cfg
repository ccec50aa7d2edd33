\* FIFO order, one group, a queue that can fill up and limits that can fail.
\* A scheduler with no job left to submit may stop.
SPECIFICATION Spec
CONSTANTS
    Jobs = {1, 2, 3, 4, 5}
    NoJob = NoJob
    Groups = {0}
    GroupOf <- OneGroup
    QueueOf <- OneQueue
    QueueTime <- MixedTimes
    Putters = {monitor}
    FairShare = FALSE
    Scores = {}
    Limits = TRUE
    MaxSize = 4
INVARIANTS
    TypeOK
    InOneHeap
PROPERTIES
    ServesInOrder
CHECK_DEADLOCK FALSE
