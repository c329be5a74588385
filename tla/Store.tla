------------------------------- MODULE Store -------------------------------
(***************************************************************************)
(* What the handlers of the ticketing API share: the PostgreSQL tables of  *)
(* app/database/model.py for one event (a row of services), the row locks  *)
(* of the transactions in flight, the clock, and the e-mail jobs enqueued. *)
(*                                                                         *)
(* A process is a request being handled (a worker thread with its own      *)
(* database session), a run of the hold sweeper, or a seller's request.    *)
(* Its pc names the step it takes next and req holds its local variables.  *)
(* Between two steps of a process anything may happen.  A step ends where  *)
(* the code waits: for a row lock, for Stripe, or for a commit after which *)
(* its locks are gone.                                                     *)
(***************************************************************************)
EXTENDS StripeGateway, FiniteSets

CONSTANTS Users,            \* customers
          Seats,            \* primary keys of inventory_items, which are ordered
          Requests,         \* customer and webhook requests in flight
          Sweepers,         \* workers that may run the sweeper
          Sellers,          \* seller requests in flight
          BookingMode,      \* services.booking_mode of the event
          Capacities,       \* values services.max_capacity may take
          Prices,           \* total amounts a booking may have; 0 is free
          HoldDuration,     \* HOLD_DURATION_MINUTES
          StartTime,        \* services.start_time
          MaxTickets,       \* MAX_TICKETS_PER_BOOKING
          MaxPendingHolds,  \* MAX_PENDING_HOLDS_PER_USER
          MaxClock,         \* bound on the clock
          RereadAtOnce,     \* no other transaction commits between the commit
                            \* at payments.py:187 and the read at :195
          PayBeatsExpiry    \* a /pay request that confirms does so before the
                            \* hold it found unexpired has run out

ASSUME ModeAssumption == BookingMode \in {"unit_assigned", "slot_capacity"}
ASSUME NumbersAssumption ==
    /\ Seats \subseteq Nat
    /\ Capacities \subseteq Nat
    /\ Prices \subseteq Nat
    /\ {HoldDuration, StartTime, MaxTickets, MaxPendingHolds, MaxClock} \subseteq Nat
    /\ {RereadAtOnce, PayBeatsExpiry} \subseteq BOOLEAN
ASSUME NullAssumption ==
    Null \notin Users \cup Requests \cup Sweepers \cup Sellers

Procs == Requests \cup Sweepers \cup Sellers

VARIABLES
    clock,
    service,        \* the event's row in services
    bookings,       \* bookings[b]: row b of bookings, with its booking_units
    seats,          \* seats[s]: inventory_items.status
    payments,       \* payments[b]: the payment row of booking b
    cancellations,  \* cancellations[b]: refund_amount of its row, or NoRow
    invoices,       \* the bookings whose payment has an invoice
    mails,          \* mails[kind][b]: e-mail jobs enqueued for booking b
    bookingLock, seatLock, userLock, serviceLock,   \* row lock owners, or Null
    pc, req

db    == <<service, bookings, seats, payments, cancellations, invoices>>
locks == <<bookingLock, seatLock, userLock, serviceLock>>
vars  == <<clock, db, mails, locks, pc, req, stripe>>

-----------------------------------------------------------------------------
BookingStatus == {"none", "pending", "confirmed", "cancelled"}
ItemStatus    == {"available", "reserved", "booked"}

\* "requires" is REQUIRES_PAYMENT_METHOD; REQUIRES_CONFIRMATION and PROCESSING
\* are read together with it and never assigned.
PaymentStatus == {"none", "requires", "succeeded", "failed", "canceled"}

Booking == [status   : BookingStatus,
            user     : Users \cup {Null},
            created  : Nat,
            quantity : Nat,
            units    : SUBSET Seats,
            total    : Nat]
NoBooking == [status |-> "none", user |-> Null, created |-> 0,
              quantity |-> 0, units |-> {}, total |-> 0]

Payment   == [status : PaymentStatus, intent : IntentIds]
NoPayment == [status |-> "none", intent |-> NoIntent]

Service == [state : {"active", "archived", "deleted"}, max_capacity : Nat]

NoRow     == -1
MailKinds == {"invoice", "cancellation"}

Labels == {"idle",
    "create_user", "create_seats", "create_slot", "create_insert",
    "pay_lock", "pay_retrieve", "pay_reread", "pay_retrieve_failed",
    "pay_create", "pay_store", "pay_confirm",
    "hook_lock", "hook_seats", "hook_service", "hook_confirm",
    "hook_refund", "hook_cancel",
    "cancel_lock", "cancel_refund", "cancel_intent", "cancel_commit",
    "sweep_next", "sweep_lock", "sweep_intent", "sweep_retrieve",
    "sweep_seats", "sweep_service", "sweep_confirm", "sweep_refund",
    "sweep_release",
    "update_commit", "delete_commit"}

\* Where a handler takes the rows of the seats in its want set
SeatLocking == {"create_seats", "pay_confirm", "hook_seats", "cancel_commit",
                "sweep_seats", "sweep_release"}

(***************************************************************************)
(* The locals of a handler: the booking it works on, the time it read when *)
(* it began, the row create_booking is about to insert, the intent and the *)
(* event of a webhook, the payment status it loaded, what it has settled   *)
(* with Stripe, the seats it still has to lock, the booking's seats that   *)
(* were RESERVED when they were loaded (a later SELECT ... FOR UPDATE does *)
(* not refresh objects the session holds), the sweeper's candidates, the   *)
(* max_capacity it loaded, and whether delete_service saw history.         *)
(***************************************************************************)
Req == [bk     : Bookings \cup {Null},
        now    : Nat,
        draft  : Booking,
        intent : IntentIds,
        event  : EventType \cup {"none"},
        seen   : PaymentStatus,
        settle : {"keep", "canceled", "refunded"},
        want   : SUBSET Seats,
        reserved : SUBSET Seats,
        todo   : SUBSET Bookings,
        cap    : Nat,
        hist   : BOOLEAN]

NoReq == [bk |-> Null, now |-> 0, draft |-> NoBooking, intent |-> NoIntent,
          event |-> "none", seen |-> "none", settle |-> "keep",
          want |-> {}, reserved |-> {}, todo |-> {}, cap |-> 0, hist |-> FALSE]

DbTypeOK ==
    /\ clock \in Nat
    /\ service \in Service
    /\ bookings \in [Bookings -> Booking]
    /\ seats \in [Seats -> ItemStatus]
    /\ payments \in [Bookings -> Payment]
    /\ cancellations \in [Bookings -> Nat \cup {NoRow}]
    /\ invoices \subseteq Bookings
    /\ mails \in [MailKinds -> [Bookings -> Nat]]

LocksTypeOK ==
    /\ bookingLock \in [Bookings -> Procs \cup {Null}]
    /\ seatLock \in [Seats -> Procs \cup {Null}]
    /\ userLock \in [Users -> Procs \cup {Null}]
    /\ serviceLock \in Procs \cup {Null}

ProcsTypeOK == /\ pc \in [Procs -> Labels]
               /\ req \in [Procs -> Req]

StoreTypeOK == DbTypeOK /\ LocksTypeOK /\ ProcsTypeOK

StoreInit ==
    /\ clock = 0
    /\ service \in [state : {"active"}, max_capacity : Capacities]
    /\ bookings = [b \in Bookings |-> NoBooking]
    /\ seats = [s \in Seats |-> "available"]
    /\ payments = [b \in Bookings |-> NoPayment]
    /\ cancellations = [b \in Bookings |-> NoRow]
    /\ invoices = {}
    /\ mails = [k \in MailKinds |-> [b \in Bookings |-> 0]]
    /\ bookingLock = [b \in Bookings |-> Null]
    /\ seatLock = [s \in Seats |-> Null]
    /\ userLock = [u \in Users |-> Null]
    /\ serviceLock = Null
    /\ pc = [p \in Procs |-> "idle"]
    /\ req = [p \in Procs |-> NoReq]

-----------------------------------------------------------------------------
(* Queries *)

Live(b)    == bookings[b].status \in {"pending", "confirmed"}
Pending(b) == bookings[b].status = "pending"

\* The seats of booking b that are RESERVED now
Reserved(b) == {s \in bookings[b].units : seats[s] = "reserved"}

\* created_at >= t - HOLD_DURATION: a hold that still counts at time t
Unexpired(b, t) == bookings[b].created + HoldDuration >= t

\* created_at <= t - HOLD_DURATION: a hold the sweeper may take at time t
Expired(b, t) == bookings[b].created + HoldDuration <= t

\* The bookings whose tickets count at time t: confirmed ones, unexpired pending
\* ones, and those of the set self
Counted(t, self) == {b \in Bookings : \/ bookings[b].status = "confirmed"
                                      \/ b \in self
                                      \/ Pending(b) /\ Unexpired(b, t)}

\* The sum of their quantities
Tickets(b)             == {b} \X (1..bookings[b].quantity)
ActiveTickets(t, self) == Cardinality(UNION {Tickets(b) : b \in Counted(t, self)})

PendingHolds(u, t) ==
    Cardinality({b \in Bookings : /\ bookings[b].user = u
                                  /\ Pending(b)
                                  /\ Unexpired(b, t)})

SetSeats(units, status) ==
    [s \in Seats |-> IF s \in units THEN status ELSE seats[s]]

\* The ORM writes a column only if the value assigned differs from the one it
\* loaded; otherwise the value in the table stays.
Written(loaded, new, current) == IF loaded = new THEN current ELSE new

-----------------------------------------------------------------------------
(* Steps of a process *)

Goto(p, label, r) == /\ pc' = [pc EXCEPT ![p] = label]
                     /\ req' = [req EXCEPT ![p] = r]

\* The end of a transaction, by commit or by rollback
Release(p) ==
    /\ bookingLock' = [b \in Bookings |-> IF bookingLock[b] = p THEN Null
                                                               ELSE bookingLock[b]]
    /\ seatLock' = [s \in Seats |-> IF seatLock[s] = p THEN Null ELSE seatLock[s]]
    /\ userLock' = [u \in Users |-> IF userLock[u] = p THEN Null ELSE userLock[u]]
    /\ serviceLock' = IF serviceLock = p THEN Null ELSE serviceLock

Finish(p) == Goto(p, "idle", NoReq) /\ Release(p)

Free(owner, p) == owner \in {Null, p}

LockBooking(p, b) == /\ Free(bookingLock[b], p)
                     /\ bookingLock' = [bookingLock EXCEPT ![b] = p]
                     /\ UNCHANGED <<seatLock, userLock, serviceLock>>

LockService(p) == /\ Free(serviceLock, p)
                  /\ serviceLock' = p
                  /\ UNCHANGED <<bookingLock, seatLock, userLock>>

\* Wrong variant: the rows are taken in any order.
LockSeatAnyOrder(p) ==
    /\ pc[p] \in SeatLocking
    /\ \E s \in req[p].want :
          /\ Free(seatLock[s], p)
          /\ seatLock' = [seatLock EXCEPT ![s] = p]
          /\ req' = [req EXCEPT ![p].want = @ \ {s}]
    /\ UNCHANGED <<clock, db, mails, bookingLock, userLock, serviceLock, pc, stripe>>

\* SELECT ... ORDER BY id FOR UPDATE, and the UPDATEs a flush emits in primary
\* key order, take the seat rows one by one, the smallest id first.
LockSeat(p) ==
    /\ pc[p] \in SeatLocking
    /\ \E s \in req[p].want :
          /\ \A t \in req[p].want : s <= t
          /\ Free(seatLock[s], p)
          /\ seatLock' = [seatLock EXCEPT ![s] = p]
          /\ req' = [req EXCEPT ![p].want = @ \ {s}]
    /\ UNCHANGED <<clock, db, mails, bookingLock, userLock, serviceLock, pc, stripe>>

\* The e-mail job that follows the commit.  What becomes of it is the matter of
\* the queue and the worker.
Enqueue(kind, b) == mails' = [mails EXCEPT ![kind][b] = @ + 1]

\* A process dies or an exception escapes its handler: its session is closed,
\* which rolls back what is not committed.
Crash(p) == /\ pc[p] # "idle"
            /\ Finish(p)
            /\ UNCHANGED <<clock, db, mails, stripe>>

Tick == /\ clock < MaxClock
        /\ clock' = clock + 1
        /\ UNCHANGED <<db, mails, locks, pc, req, stripe>>
=============================================================================
