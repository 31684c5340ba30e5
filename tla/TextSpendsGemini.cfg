SPECIFICATION Spec
CONSTANTS
    TextModels <- MCTextModels
    VisionModels <- MCVisionModels
    Readings <- MCReadings
    TextBudget = 1
    VisionBudget = 1
    LastDocument = 3
    MaxFaults = 0
CHECK_DEADLOCK FALSE
INVARIANTS
    ScansKeepTheirBudget
