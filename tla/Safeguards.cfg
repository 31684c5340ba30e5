SPECIFICATION SafeSpec
CONSTANTS
    Callers = {c1, c2, c3}
    LastDay = 1
    Limit = 2
    MaxFaults = 1
    Requests = {r1, r2}
    None = None
    WindowKeys = {"a1", "a2", "u1"}
    Asks <- MCAsks
    Ceiling <- MCLimit
    Window = 2
    MaxKeys = 1
    LastTime = 3
    Keys = {k1, k2}
    Readers = {d1, d2}
    MaxOut = 2
    Patience = 1
    MaxUpsets = 1
    MaxSends = 3
    Users = {"u1", "u2"}
    Clients = {"n1", "n2"}
    VendorRows = {"w1", "w2"}
    Ids = {1, 2}
    Names = {"x", "y"}
    MaxRuns = 1
    MaxEdits = 1
    StartingAccounts <- MCAccounts
    TextModels <- MCTextModels
    VisionModels <- MCVisionModels
    TextBudget = 1
    VisionBudget = 1
    LastDocument = 2
    Readings <- MCReadings
    Invoices <- MCInvoices
    Orders <- MCOrders
    VendorList <- MCVendors
    Rates <- MCRates
    Divisor = 4
    Floor = 1
    Slack = 0
    Mail <- MCMessages
    TrustedServers = {"ours"}
    Organisation <- MCOrganisation
    StrictDkim = {}
    StrictSpf = {"shop"}
    SenderLists <- MCLists
CHECK_DEADLOCK FALSE
INVARIANTS
    SafeTypes
    BudgetKept
    WindowHolds
    SecondNoticeTakesARace
    RowHasItsBytes
    OutIsHeld
    ClientsAreIsolated
    EachAskIsCharged
    VerdictStands
    AdmittedIsAttributed
