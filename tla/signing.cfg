SPECIFICATION Spec
CONSTANTS
    Conns = {c1, c2}
    NoConn = NoConn
    Requests = {r1}
    NoRequest = NoRequest
    Capacity = 1
INVARIANTS PendingIsLive AnswerFindsRequest LeaverNeverDelivers
PROPERTIES RequestEnds CleanupEnds
CHECK_DEADLOCK FALSE
