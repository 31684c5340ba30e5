SPECIFICATION Spec
CONSTANTS
    p1 = p1
    p2 = p2
    None = None
    Submissions = {s1, s2}
    Requests = {r1}
    POs = {p1}
    POAmount <- OneAmount
    Documents <- UnconfirmedDocuments
    Numbers = {"n1", "n2", "n3", "n4", "n5", "n6", "n7"}
    Vendors = {"v1", "v2"}
    MaxCharge = 4
    PO_TOLERANCE_DIVISOR = 4
    PO_TOLERANCE_FLOOR = 1
SYMMETRY Symmetry
CHECK_DEADLOCK FALSE
PROPERTIES
    OnlyBalanceHoldsReleased
