\* A session that hibernates is stopped and resumed by its user or its schedule.
SPECIFICATION FairSpec
CONSTANTS
    SESSION_CREATION_THRESHOLD_COUNT = 0
    VALIDATION_REQUEST_THRESHOLD = 0
    SESSION_DELETED_THRESHOLD = 0
    RESUME_REQUEST_COUNT_THRESHOLD = 1
    MaxReceive = 2
    HibernationEnabled = TRUE
    Requests = {"stop", "resume",
                "scheduledStop", "scheduledResume"}
    MaxRequests = 2
    MaxFaults = 0
INVARIANTS
    StoppedIsStopped
PROPERTIES
    ResumeCompletes
\* When the requests are used up and everything is handled, nothing more happens.
CHECK_DEADLOCK FALSE
