SPECIFICATION Spec
CONSTANTS
    DeregisterTimeout = 1
    ShutdownTimeout = 2
    Spaces = {s1, s2}
    QueueCapacity = 2
    MaxFetched = 2
    Putters = {p1, p2}
    Keys = {k1, k2}
    Versions = {v1, v2}
    Calls = {z1, z2}
    Apps = {b1, b2}
    MaxRestarts = 1
INVARIANTS SignedOffMeansGone ExitWaitsForClient ReportsAddUp LoneInfosArePresented OneConnectionPerApp HopefulCallsSucceed
PROPERTIES ListedAgain
CHECK_DEADLOCK FALSE
