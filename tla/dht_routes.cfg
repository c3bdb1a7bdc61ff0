SPECIFICATION Spec
CONSTANTS
    Creates = {c1, c2}
    MaxDeletes = 2
    c1 = c1
    c2 = c2
INVARIANTS UnservedEntryIsDead ServedEntryIsLive LinksMatchTheQuery
