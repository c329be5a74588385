\* Two requests at a time, three tokens.  Two ticks a second: keys live for one or two
\* seconds, and the clock goes on to the end of the first tokens.
CONSTANTS
    r1 = r1
    r2 = r2
    t1 = t1
    t2 = t2
    t3 = t3
    ip1 = ip1
    ip2 = ip2
    Null = Null
    Requests = {r1, r2}
    Tokens = {t1, t2, t3}
    Ips = {ip1, ip2}
    SessionTTL = 4
    GraceTTL = 2
    AccessTTL = 4
    LockTTL = 2
    CodeTTL = 2
    IpLimit = 2
    EmailLimit = 2
    CodeLimit = 2
    Second = 2
    MaxClock = 4
    Budgets <- MCBudgets
    GraceAtOnce = TRUE
    SerialChanges = TRUE
SPECIFICATION Spec
SYMMETRY Symmetric
\* The clock and the tokens are bounded, so a run may end.
CHECK_DEADLOCK FALSE
INVARIANTS
    TypeOK
    ExchangedOnce
    TabsNeverRevoke
    ReplayDetected
    RevokedStaysRevoked
    LogoutEndsAccess
    CountersExpire
