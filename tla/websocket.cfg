SPECIFICATION Spec
CONSTANTS
    Dnas = {d1}
    Agents = {a1, a2}
    Conns = {c1, c2}
    NoConn = NoConn
    NoCell = NoCell
    NoAgent = NoAgent
    AuthEnabled = FALSE
    KitsuneEnabled = TRUE
INVARIANTS RoutedToOwner NoAbandonedAgent SerialCallsAgree RegisteredIsJoinedUncontended
SYMMETRY Symmetry
CHECK_DEADLOCK FALSE
