\* The session is rebooted and then terminated.
SPECIFICATION FairSpec
CONSTANTS
    SESSION_CREATION_THRESHOLD_COUNT = 1
    VALIDATION_REQUEST_THRESHOLD = 1
    SESSION_DELETED_THRESHOLD = 0
    RESUME_REQUEST_COUNT_THRESHOLD = 1
    MaxReceive = 2
    HibernationEnabled = FALSE
    Requests = {"reboot", "terminate"}
    MaxRequests = 2
    MaxFaults = 0
PROPERTIES
    DeletingIsFinal
\* When the requests are used up and everything is handled, nothing more happens.
CHECK_DEADLOCK FALSE
