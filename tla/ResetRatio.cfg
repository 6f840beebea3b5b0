SPECIFICATION Spec
CONSTANTS
    a1 = a1
    Agents = {a1}
    MaxHistoryPoints = 2
    MaxCount = 2
    MaxWork = 2
    MaxTime = 3
    MaxSteps = 1
INVARIANTS
    RatioIsAFraction
