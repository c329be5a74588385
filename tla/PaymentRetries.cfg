\* One booking, free or priced, whose payment is tried twice, up to the
\* event's start.
CONSTANTS
    r1 = r1
    r2 = r2
    w1 = w1
    b1 = b1
    b2 = b2
    u1 = u1
    u2 = u2
    Null = Null
    Bookings = {b1}
    Users = {u1}
    Requests = {r1, r2}
    Sweepers = {w1}
    Sellers = {}
    Seats = {1}
    BookingMode = "unit_assigned"
    Capacities = {1}
    Prices = {0, 1}
    HoldDuration = 0
    StartTime = 1
    MaxTickets = 1
    MaxPendingHolds = 5
    MaxClock = 1
    MaxIntents = 2
    RereadAtOnce = TRUE
    PayBeatsExpiry = FALSE
SPECIFICATION Spec
SYMMETRY Symmetric
\* The clock, the bookings and the intents are bounded, so a run may end.
CHECK_DEADLOCK FALSE
INVARIANTS
    PaidMeansConfirmed
    ConfirmedHasCharge
    AuditRefundIsReal
    MailOnce
