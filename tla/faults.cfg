\* One crash, duplicate, raising call or failing instance.
SPECIFICATION Spec
CONSTANTS
    SESSION_CREATION_THRESHOLD_COUNT = 0
    VALIDATION_REQUEST_THRESHOLD = 0
    SESSION_DELETED_THRESHOLD = 0
    RESUME_REQUEST_COUNT_THRESHOLD = 1
    MaxReceive = 2
    HibernationEnabled = FALSE
    Requests = {"reboot", "terminate"}
    MaxRequests = 2
    MaxFaults = 1
INVARIANTS
    InstanceHasServerRow
    OrphanHasCause
\* When the requests are used up and everything is handled, nothing more happens.
CHECK_DEADLOCK FALSE
