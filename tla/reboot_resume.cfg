\* A session that does not hibernate is stopped by force, resumed, rebooted and
\* updated by its user.
SPECIFICATION FairSpec
CONSTANTS
    SESSION_CREATION_THRESHOLD_COUNT = 1
    VALIDATION_REQUEST_THRESHOLD = 1
    SESSION_DELETED_THRESHOLD = 0
    RESUME_REQUEST_COUNT_THRESHOLD = 1
    MaxReceive = 2
    HibernationEnabled = FALSE
    Requests = {"forceStop", "resume", "reboot", "update"}
    MaxRequests = 2
    MaxFaults = 0
INVARIANTS
    StoppedIsStopped
PROPERTIES
    ResumeCompletes
    GroupDrains
\* When the requests are used up and everything is handled, nothing more happens.
CHECK_DEADLOCK FALSE
