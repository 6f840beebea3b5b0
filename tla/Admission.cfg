SPECIFICATION FairSpec
CONSTANTS
    script = script
    operator = operator
    office = office
    t1 = t1
    t2 = t2
    u1 = u1
    u2 = u2
    p1 = p1
    p2 = p2
    NoValue = NoValue
    Callers = {script, operator}
    Keys = {office}
    KeyOf <- Addresses
    Credential <- Presented
    Tokens = {t1, t2}
    Users = {u1, u2}
    Passwords = {p1, p2}
    TokenFiles <- TokenContents
    BasicFiles <- BasicContents
    HasBasic = TRUE
    Max = 2
    Window = 2
    IdleWindows = 2
    MaxRotations = 2
INVARIANTS
    TypeOK
    AttemptsAreBounded
    ThrottledOnlyForFailures
    BurstIsBounded
PROPERTIES
    EvictionIsInvisible
    GoodCallersStayIn
    IdleKeysAreForgotten
