SPECIFICATION AuditSpec
CONSTANTS
    Records = {r1, r2, r3}
    Capacity = 1
    Syncers = {s1, s2}
    Closers = {c1, c2}
INVARIANT NeverPanics
CHECK_DEADLOCK FALSE
