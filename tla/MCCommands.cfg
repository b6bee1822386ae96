CONSTANTS
    Users = {ann, root}
    ann = ann
    Admins = {root}
    Orders = {o1, o2}
    k1 = k1
    o1 = o1
    k2 = k2
    Keys = {k1, k2}
    NoKey = NoKey
    Baskets = {a}
    Empty = Empty
    Handlers = {h1, h2}
    Nobody = Nobody
    aLock = aLock
    AdvisoryKey <- OneLock
    Asked <- FewRequests
    MaxVersion = 3
SPECIFICATION FairSpec
INVARIANTS
    CommandsTypeOK
    OncePerKey
    SuccessesHappened
    RefusalsAreFinal
    CartVersionsUsedOnce
    NoCopyFails
PROPERTIES
    WaitersAreServed
    LedgerSpec
CHECK_DEADLOCK FALSE
