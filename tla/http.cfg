SPECIFICATION HttpSpec
CONSTANTS
    Agents = {a1}
    Dnas = {d1}
    Caps = {"DhtWrite", "K2"}
    Tokens = {t1, t2}
    Callers = {w1, w2}
    Requests = {q1}
    NotAllowed = NotAllowed
    NoRow = NoRow
    NoToken = NoToken
    BadDna = BadDna
INVARIANTS OnlyLateSessionsOutliveRemoval RevokedIsRefused EntitledIsServed CopyIsCovered
PROPERTY RevokedTokensStayInvalid
SYMMETRY Symmetry
CHECK_DEADLOCK FALSE
