\* One part at a time: two mails, again and again, and the one worker; two GETs of a key
\* and a commit; two requests on one event; two requests of an account to be.
CONSTANTS
    Jobs = {j1, j2}
    Unknown = {}
    Workers = {w1}
    MaxRetries = 1
    FaultBudgets <- MCFaults
    NoJob = NoJob
    Readers = {g1, g2}
    KeyKinds = {"list", "detail", "seats"}
    ServicesTtl = 1
    SeatsTtl = 2
    MutexTtl = 1
    MaxPolls = 2
    MaxCompute = 1
    MaxWrites = 1
    Missing = Missing
    Clients = {c1, c2}
    l1 = l1
    l2 = l2
    Locations = {l1, l2}
    TierNames = {t1}
    Codes = {s1}
    MaxCapacity = 2
    Times = {1, 2, 3}
    NewEvents <- MCEvents
    Agendas <- MCAgendas
    Unset = Unset
    v1 = v1
    v2 = v2
    e1 = e1
    e2 = e2
    Visitors = {v1, v2}
    Addresses = {e1, e2}
    TryLimit = 2
    CodeLife = 2
    ResendLife = 1
    MaxCodes = 2
    Plans <- MCPlans
    Nobody = Nobody
SPECIFICATION BackgroundSpec
\* Commits, writes of the event and codes are bounded, so a run may end.
CHECK_DEADLOCK FALSE
INVARIANTS
    BackgroundTypeOK
    NoJobVanishes
    MailedOnce
    FourAttempts
    StalenessBounded
    InvalidationReaches
    OneLeader
    DeletedLeavesNothing
    EventEndsAfterStart
    ReviewsStand
    CatalogueSound
    VerifiedByOwnCode
    GuessesBounded
PROPERTIES
    QueueDrains
    ReleasesOwn
    CacheConverges
    ReadersAnswered
