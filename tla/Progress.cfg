\* One booking, one request and a sweep, all fair.  What eventually happens does
\* not rest on RereadAtOnce, so the run is without it.
CONSTANTS
    r1 = r1
    r2 = r2
    w1 = w1
    b1 = b1
    b2 = b2
    u1 = u1
    Null = Null
    Bookings = {b1}
    Users = {u1}
    Requests = {r1}
    Sweepers = {w1}
    Sellers = {}
    Seats = {1}
    BookingMode = "unit_assigned"
    Capacities = {1}
    Prices = {1}
    HoldDuration = 0
    StartTime = 9
    MaxTickets = 1
    MaxPendingHolds = 5
    MaxClock = 1
    MaxIntents = 1
    RereadAtOnce = FALSE
    PayBeatsExpiry = FALSE
    MaxFailures = 2
SPECIFICATION FairSpec
\* The clock, the bookings and the intents are bounded, so a run may end.
CHECK_DEADLOCK FALSE
PROPERTIES
    ExpiredHoldEnds
    ChargeSettled
