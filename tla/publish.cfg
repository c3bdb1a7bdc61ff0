SPECIFICATION Spec
CONSTANTS
    o1 = o1
    o2 = o2
    u1 = u1
    u2 = u2
    Ops = {o1, o2}
    OP_TTL = 3
    CLEANUP_INTERVAL = 2
    x1 = x1
    x2 = x2
    Handlers = {x1, x2}
    Body <- MCBody
    Loc <- MCLoc
    Infos <- MCInfos
INVARIANTS FreshOpsAreServed OldOpsAreRemoved PublishedWasAnnounced SuccessIsHonest
PROPERTY StoreDrains
