SPECIFICATION FairSpec
CONSTANTS
    c1 = c1  c2 = c2  NoConn = NoConn
    Conns = {c1}
    Descs <- SomeDescs
    Healths <- SomeHealths
    Configs <- SomeConfigs
    Statuses <- SomeStatuses
    MaxInt64 = 7
    Second = 2
    MaxUnread = 2
    MaxChanges = 0  MaxDrops = 0  MaxLosses = 1
INVARIANT WriteRetried
