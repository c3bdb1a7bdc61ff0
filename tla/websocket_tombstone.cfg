SPECIFICATION Spec
CONSTANTS
    Dnas = {d1, d2}
    Agents = {a1}
    Conns = {c1}
    NoConn = NoConn
    NoCell = NoCell
    NoAgent = NoAgent
    AuthEnabled = FALSE
    KitsuneEnabled = TRUE
INVARIANT LeftIsNotAdvertised
CHECK_DEADLOCK FALSE
