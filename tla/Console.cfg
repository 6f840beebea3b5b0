SPECIFICATION SparseSpec
CHECK_DEADLOCK FALSE
CONSTANTS
    k1 = k1  k2 = k2  e1 = e1
    NoCred = NoCred  Nothing = Nothing  Waiting = Waiting  Refused = Refused  Throttled = Throttled
    Broken = Broken
    Creds = {k1, k2}
    Kept = {k1, NoCred}
    MaxCalls = 2
    Edits = {e1}
    Rotations <- OnlyK2
    MaxLogins = 1  MaxChanges = 1  MaxFailures = 1
    MaxMounts = 1  MaxPushes = 1
INVARIANTS
    TypeOK
    CredentiallessOnlyAfterRefusal
    SentAsConfirmed
PROPERTIES
    AnswersOfThisSession
    DraftIsKept
    RefusalIsShown
    FleetIsShown
    DialogCloses
