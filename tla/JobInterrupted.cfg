SPECIFICATION Spec
CONSTANTS
    Uploads = {u1, u2}
    Keys = {"k1", "k2"}
    JobWorkers = 2
    MaxFaults = 0
CHECK_DEADLOCK FALSE
INVARIANTS
    InterruptedIsUnrecorded
