\* Sessions, with the two SETs of a rotation as far apart as they are in the code.
CONSTANTS
    r1 = r1
    r2 = r2
    t1 = t1
    t2 = t2
    t3 = t3
    ip1 = ip1
    ip2 = ip2
    Null = Null
    Requests = {r1, r2}
    Tokens = {t1, t2, t3}
    Ips = {ip1, ip2}
    SessionTTL = 2
    GraceTTL = 1
    AccessTTL = 2
    LockTTL = 1
    CodeTTL = 1
    IpLimit = 2
    EmailLimit = 2
    CodeLimit = 2
    Second = 1
    MaxClock = 3
    Budgets <- MCBudgets
    GraceAtOnce = FALSE
    SerialChanges = TRUE
SPECIFICATION Spec
SYMMETRY Symmetric
\* The clock and the tokens are bounded, so a run may end.
CHECK_DEADLOCK FALSE
INVARIANTS
    TabsNeverRevoke
