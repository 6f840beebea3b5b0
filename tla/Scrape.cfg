SPECIFICATION FairSpec
CONSTANTS
    a1 = a1
    Agents = {a1}
    MaxHistoryPoints = 2
    MaxCount = 1
    MaxWork = 2
    MaxTime = 2
    MaxSteps = 1
INVARIANTS
    TypeOK
    HistoriesAreCoherent
PROPERTIES
    RatesNeverOverstate
    AbsentAgentIsForgotten
