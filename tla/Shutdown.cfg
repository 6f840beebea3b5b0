SPECIFICATION FairSpec
CONSTANTS
    u1 = u1  m1 = m1  r1 = r1  NoUid = NoUid  Sweeper = Sweeper
    Uids = {u1}
    Messages = {m1}
    Requests = {r1}
    Clients <- AllClients
    UidOf <- AllToU1
INVARIANTS
    TypeOK
    ReturnsTellTheTruth
    NoneRefusedAsBusy
    StoreOutlivesRequests
PROPERTIES
    ImplementsAtomicStore
    CallsReturn
    StopsInTheEnd
