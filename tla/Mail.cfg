SPECIFICATION MailSpec
CONSTANTS
    Messages = {"m1"}
    Parts = {1, 2}
    PartsOf <- MCPartsOf
    Pdfs = {1, 2}
    Passes = {a, b}
    AutoAdmit = TRUE
    MaxUpsets = 1
    MaxRequests = 1
    Pollers = {a, b}
    LastDate = 4
    Overlap = 1
    PageCap = 3
    Batch = 2
    MaxSlips = 1
    States = {s1, s2}
    Threads = {t1, t2}
    NoGrant = NoGrant
    MaxFailures = 1
CHECK_DEADLOCK FALSE
INVARIANTS
    MailTypes
    OnlyAdmittedBecomesRuns
    SecondRunTakesAnOverlap
    ProcessedMeansAll
    NothingPassedBy
    GrantIsWhole
PROPERTIES
    OfferedGetsOnFile
    DisconnectedStays
