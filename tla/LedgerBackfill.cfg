SPECIFICATION Spec
CONSTANTS
    p1 = p1
    p2 = p2
    None = None
    Submissions = {s1, s2}
    Requests = {r1}
    POs = {p1}
    POAmount <- OneAmount
    Documents <- UnreadableDocuments
    Numbers = {"n1"}
    Vendors = {"v1"}
    MaxCharge = 1
    PO_TOLERANCE_DIVISOR = 4
    PO_TOLERANCE_FLOOR = 1
SYMMETRY Symmetry
CHECK_DEADLOCK FALSE
INVARIANTS
    BackfillIsWhatItWas
