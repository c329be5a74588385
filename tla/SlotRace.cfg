\* Two bookings compete for one place while holds expire and are swept, and requests
\* of the seller archive or delete the event.
CONSTANTS
    r1 = r1
    r2 = r2
    w1 = w1
    b1 = b1
    b2 = b2
    u1 = u1
    u2 = u2
    Null = Null
    Bookings = {b1, b2}
    Users = {u1}
    Requests = {r1, r2}
    Sweepers = {w1}
    Sellers = {r1, r2}
    Seats = {}
    BookingMode = "slot_capacity"
    Capacities = {1}
    Prices = {1}
    HoldDuration = 0
    StartTime = 9
    MaxTickets = 1
    MaxPendingHolds = 5
    MaxClock = 1
    MaxIntents = 1
    RereadAtOnce = TRUE
    PayBeatsExpiry = TRUE
SPECIFICATION Spec
SYMMETRY Symmetric
\* The clock, the bookings and the intents are bounded, so a run may end.
CHECK_DEADLOCK FALSE
INVARIANTS
    NeverOversold
    DeletedHasNoBookings
