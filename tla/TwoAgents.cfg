SPECIFICATION UntimedSpec
CONSTANTS
    a1 = a1  a2 = a2  c1 = c1  c2 = c2  r1 = r1  r2 = r2  k1 = k1  k2 = k2
    NoHash = NoHash  Omitted = Omitted  NoConn = NoConn  NoIP = NoIP  BadBody = BadBody
    PeerIP <- OwnAddress
    Agents = {a1, a2}
    Conns = {c1, c2}
    Ports = {4001}
    Configs = {k1}
    Speaks <- Multiplexed
    Messages <- Heartbeats
    Requests = {r1, r2}
    PushUid <- EachToItsOwn
    PushBody <- FirstK1ThenBad
    StoreFails = TRUE
    MaxRestarts = 1
    StaleAfter = 1
    DisconnectedAfter = 2
INVARIANTS
    LastHeardIsRouted
    ConfigReachesOnlyItsAgent
    AnswersMatchEffects
