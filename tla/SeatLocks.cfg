\* Requests for two seats lock them in order, next to a sweep.
CONSTANTS
    r1 = r1
    r2 = r2
    w1 = w1
    b1 = b1
    b2 = b2
    u1 = u1
    u2 = u2
    Null = Null
    Bookings = {b1, b2}
    Users = {u1, u2}
    Requests = {r1, r2}
    Sweepers = {w1}
    Sellers = {}
    Seats = {1, 2}
    BookingMode = "unit_assigned"
    Capacities = {1}
    Prices = {0}
    HoldDuration = 0
    StartTime = 9
    MaxTickets = 2
    MaxPendingHolds = 1
    MaxClock = 0
    MaxIntents = 0
    RereadAtOnce = TRUE
    PayBeatsExpiry = FALSE
SPECIFICATION Spec
SYMMETRY Symmetric
\* The clock, the bookings and the intents are bounded, so a run may end.
CHECK_DEADLOCK FALSE
INVARIANTS
    NoDeadlock
    HoldsCapped
PROPERTIES
    ImplementsLedger
