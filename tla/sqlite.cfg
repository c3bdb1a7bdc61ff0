SPECIFICATION Spec
CONSTANTS
    Agents = {a1, a2}
    Dnas = {d1, d2}
    Caps = {read}
    Tokens = {t1, t2, t3}
    NotAllowed = NotAllowed
    NoRow = NoRow
INVARIANTS SessionOfAllowedAgent DnaRowsHaveSessions
PROPERTIES ImplementsSessionStore
CHECK_DEADLOCK FALSE
SYMMETRY Symmetry
