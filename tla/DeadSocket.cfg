SPECIFICATION Spec
CONSTANTS
    a1 = a1  a2 = a2  c1 = c1  c2 = c2  r1 = r1  r2 = r2  k1 = k1  k2 = k2
    NoHash = NoHash  Omitted = Omitted  NoConn = NoConn  NoIP = NoIP  BadBody = BadBody
    PeerIP <- OwnAddress
    Agents = {a1, a2}
    Conns = {c1}
    Ports = {4001}
    Configs = {k1}
    Speaks <- Multiplexed
    Messages <- Heartbeats
    Requests = {}
    PushUid <- AllToA1
    PushBody <- FirstK1
    StoreFails = FALSE
    MaxRestarts = 0
    StaleAfter = 1
    DisconnectedAfter = 2
INVARIANTS
    NoClosedConnRegistered
