SPECIFICATION Spec
CONSTANTS
    None = None
    Runs = {r1}
    Reviewers = {ann, bob}
    Requests = {q1, q2}
    LeaseLength = 1
    MaxTime = 3
    MaxClaims = 2
SYMMETRY Symmetry
CHECK_DEADLOCK FALSE
INVARIANTS
    TypeOK
    OneOpenClaim
PROPERTIES
    ClaimIsExclusive
    ClosedClaimsStay
    ReviewEndsWithTheHold
