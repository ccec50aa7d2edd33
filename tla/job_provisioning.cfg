\* One session at a time, one fault, hold or restart.
SPECIFICATION FairSpec
CONSTANTS
    Sessions = {s1}
    MaxFaults = 1
INVARIANTS
    TypeOK
    BuildIsFresh
PROPERTIES
    JobsStart
    FinishedRecorded
    RunningSeen
