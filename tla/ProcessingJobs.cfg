SPECIFICATION FairSpec
CONSTANTS
    Uploads = {u1, u2, u3}
    Keys = {"k1", "k2"}
    JobWorkers = 2
    MaxFaults = 1
CHECK_DEADLOCK FALSE
INVARIANTS
    TypeOK
    NeverReadTwiceAtOnce
    NoOrphans
    CompletedIsRecorded
PROPERTIES
    SettledJobsStay
    EveryJobSettles
