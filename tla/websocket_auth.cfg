SPECIFICATION Spec
CONSTANTS
    Dnas = {d1}
    Agents = {a1, a2}
    Conns = {c1, c2}
    NoConn = NoConn
    NoCell = NoCell
    NoAgent = NoAgent
    AuthEnabled = TRUE
    KitsuneEnabled = FALSE
INVARIANTS RoutedToProvenAgent SenderLeakOnlyAfterReauth
SYMMETRY Symmetry
CHECK_DEADLOCK FALSE
