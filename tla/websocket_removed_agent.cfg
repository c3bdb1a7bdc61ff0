SPECIFICATION Spec
CONSTANTS
    Dnas = {d1}
    Agents = {a1}
    Conns = {c1, c2}
    NoConn = NoConn
    NoCell = NoCell
    NoAgent = NoAgent
    AuthEnabled = TRUE
    KitsuneEnabled = FALSE
PROPERTY OnlyAllowedAgentsRegister
CHECK_DEADLOCK FALSE
