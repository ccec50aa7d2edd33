\* A user stops and terminates the session; its owner is disabled.
SPECIFICATION FairSpec
CONSTANTS
    SESSION_CREATION_THRESHOLD_COUNT = 1
    VALIDATION_REQUEST_THRESHOLD = 1
    SESSION_DELETED_THRESHOLD = 0
    RESUME_REQUEST_COUNT_THRESHOLD = 1
    MaxReceive = 3
    HibernationEnabled = FALSE
    Requests = {"stop", "terminate", "userDisabled"}
    MaxRequests = 2
    MaxFaults = 0
INVARIANTS
    TypeOK
    RowsHaveSession
    DeletionIsPending
PROPERTIES
    DeletingIsFinal
    CreationSettles
    TerminateCompletes
    StopCompletes
    DisabledUserLosesSession
\* When the requests are used up and everything is handled, nothing more happens.
CHECK_DEADLOCK FALSE
