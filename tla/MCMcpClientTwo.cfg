CONSTANTS
    s1 = s1
    s2 = s2
    t1 = t1
    t2 = t2
    Nobody = Nobody
    Servers = {s1, s2}
    Tools = {t1, t2}
    Configured <- MCConfigured
    ToolsOf <- MCToolsOf
    Managers = {m1, m2}
    Users = {u1}
    Boot = m1
    MaxConns = 3
    MaxSends = 3
SPECIFICATION ClientSpec
INVARIANTS
    OpenIsReachable
CHECK_DEADLOCK FALSE
