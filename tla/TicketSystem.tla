---------------------------- MODULE TicketSystem ----------------------------
(***************************************************************************)
(* The booking and payment core of the API: customer requests, webhook     *)
(* deliveries, sweeps, seller requests and Stripe, interleaved, and what   *)
(* they are to guarantee together.                                         *)
(***************************************************************************)
EXTENDS Services

TypeOK == StoreTypeOK /\ StripeTypeOK

Init == StoreInit /\ StripeInit

Create(p) ==
    \/ \E u \in Users, q \in 0..MaxTickets, units \in SUBSET Seats, total \in Prices :
          BeginCreate(p, u, q, units, total)
    \/ CreateLockUser(p)
    \/ CreateSeats(p)
    \/ CreateSlot(p)
    \/ CreateInsert(p)

Pay(p) ==
    \/ \E b \in Bookings : BeginPay(p, b)
    \/ PayLock(p)
    \/ PayRetrieve(p)
    \/ PayReread(p)
    \/ PayRetrieveFailed(p)
    \/ PayConfirm(p)
    \/ PayCreate(p)
    \/ PayStore(p)

Webhook(p) ==
    \/ \E e \in events : BeginWebhook(p, e)
    \/ HookLock(p)
    \/ HookSeats(p)
    \/ HookService(p)
    \/ HookConfirm(p)
    \/ HookRefund(p)
    \/ HookCancel(p)

CancelBooking(p) ==
    \/ \E b \in Bookings : BeginCancel(p, b)
    \/ CancelLock(p)
    \/ CancelRefund(p)
    \/ CancelIntent(p)
    \/ CancelCommit(p)

Sweep(p) ==
    \/ BeginSweep(p)
    \/ SweepNext(p)
    \/ SweepEnd(p)
    \/ SweepLock(p)
    \/ SweepIntent(p)
    \/ SweepRetrieve(p)
    \/ SweepSeats(p)
    \/ SweepService(p)
    \/ SweepConfirm(p)
    \/ SweepRefund(p)
    \/ SweepRelease(p)
    \/ SweepItemError(p)

Seller(p) ==
    \/ \E cap \in Capacities : BeginUpdate(p, cap)
    \/ UpdateCommit(p)
    \/ BeginDelete(p)
    \/ DeleteCommit(p)

Stripe == /\ \E i \in Intents : Submit(i) \/ Settle(i) \/ Decline(i) \/ StripeCancels(i)
          /\ UNCHANGED <<clock, db, mails, locks, pc, req>>

Next ==
    \/ \E p \in Requests : Create(p) \/ Pay(p) \/ Webhook(p) \/ CancelBooking(p)
    \/ \E p \in Sweepers : Sweep(p)
    \/ \E p \in Sellers : Seller(p)
    \/ \E p \in Procs : LockSeat(p) \/ Crash(p)
    \/ Stripe
    \/ Tick

Spec == Init /\ [][Next]_vars

-----------------------------------------------------------------------------
(* Safety *)

SeatStatus(b) == IF Pending(b) THEN "reserved" ELSE "booked"

\* No seat belongs to two bookings that are pending or confirmed, whoever
\* created, paid, cancelled or swept them in between.
SeatSoldOnce ==
    \A b, c \in Bookings : b # c /\ Live(b) /\ Live(c) =>
        bookings[b].units \cap bookings[c].units = {}

\* The seats and the bookings agree: a seat is reserved or booked exactly if
\* one live booking has it, in the status that booking calls for.  Create, pay,
\* webhook, cancellation and sweep each write both tables.
SeatsMatchBookings ==
    /\ SeatSoldOnce
    /\ \A b \in Bookings : Live(b) =>
          \A s \in bookings[b].units : seats[s] = SeatStatus(b)
    /\ \A s \in Seats : seats[s] # "available" =>
          \E b \in Bookings : Live(b) /\ s \in bookings[b].units

\* A cancelled booking stays cancelled and a confirmed one can only be
\* cancelled, whatever order webhook, sweep, pay and cancel commit in.
BookingNeverRevives ==
    [][\A b \in Bookings :
          /\ bookings[b].status = "cancelled" => bookings'[b].status = "cancelled"
          /\ bookings[b].status = "confirmed" =>
                bookings'[b].status \in {"confirmed", "cancelled"}]_bookings

\* No booking with a price is confirmed before Stripe has charged the customer
\* for it, although pay, webhook and sweeper all confirm.
ConfirmedHasCharge ==
    \A b \in Bookings : bookings[b].status = "confirmed" /\ bookings[b].total > 0 =>
        \E i \in Intents : intents[i].booking = b /\ intents[i].status = "succeeded"

\* A payment row that says SUCCEEDED belongs to a confirmed booking and has an
\* invoice: late events, sweeps and retries never leave it behind a booking
\* that was cancelled.
PaidMeansConfirmed ==
    \A b \in Bookings : payments[b].status = "succeeded" =>
        bookings[b].status = "confirmed" /\ b \in invoices

\* The automatic refund of a reserved-seat booking is final: no later delivery
\* of the event, pay request or sweep confirms what was refunded.
AutoRefundIsFinal ==
    \A i \in Intents : intents[i].refund = "auto" =>
        bookings[intents[i].booking].status = "cancelled"

\* An audit row that states a refund is backed by one at Stripe, in spite of
\* refund calls that fail, time out or are repeated.
AuditRefundIsReal ==
    \A b \in Bookings : cancellations[b] > 0 =>
        \E i \in Intents : intents[i].booking = b /\ intents[i].refund # "none"

\* Duplicate events, reconciling requests and sweeps together send at most one
\* invoice and one cancellation e-mail for a booking.
MailOnce == \A b \in Bookings, k \in MailKinds : mails[k][b] <= 1

\* No user has more active holds than allowed, however many requests race.
HoldsCapped == \A u \in Users : PendingHolds(u, clock) <= MaxPendingHolds

\* However many customers book, pay and are swept at once, the tickets confirmed
\* or held never exceed the event's capacity.
NeverOversold == ActiveTickets(clock, {}) <= service.max_capacity

\* No booking ever refers to an event that was deleted.
DeletedHasNoBookings ==
    service.state = "deleted" => \A b \in Bookings : bookings[b].status = "none"

\* p cannot take its next step before q ends its transaction.
Blocks(p, q) ==
    \/ /\ pc[p] = "create_user"
       /\ userLock[req[p].draft.user] = q
    \/ /\ pc[p] \in {"pay_lock", "hook_lock", "cancel_lock", "sweep_lock"}
       /\ bookingLock[req[p].bk] = q
    \/ /\ pc[p] \in {"create_slot", "hook_service", "sweep_service", "update_commit"}
       /\ serviceLock = q
    \/ /\ pc[p] \in SeatLocking
       /\ \E s \in req[p].want : /\ \A t \in req[p].want : s <= t
                                 /\ seatLock[s] = q

\* No processes wait for each other in a circle of row locks.
NoDeadlock ==
    \A S \in (SUBSET Procs) \ {{}} : \E p \in S : \A q \in S \ {p} : ~Blocks(p, q)

-----------------------------------------------------------------------------
(* What the row locks protect while a handler waits for Stripe or for a lock *)

\* Labels past the check, under the booking's lock, that the booking is pending,
\* that it is live, and that it is not confirmed
PendingLabels == {"pay_retrieve", "pay_retrieve_failed", "pay_confirm",
                  "hook_seats", "hook_service", "hook_confirm",
                  "sweep_intent", "sweep_retrieve", "sweep_seats", "sweep_service",
                  "sweep_confirm", "sweep_refund", "sweep_release"}
LiveLabels    == {"cancel_refund", "cancel_intent", "cancel_commit"}
RefundLabels  == {"hook_refund", "hook_cancel"}

\* Labels at which the seats loaded as RESERVED still matter
ReservedLabels == {"hook_seats", "hook_service", "hook_confirm", "hook_refund",
                   "hook_cancel", "sweep_seats"}

\* p has its booking locked, the row is still what p found it to be, and the
\* seats of a pending one that p loaded as RESERVED are all of its seats.
BookingProtected(p) ==
    LET b == req[p].bk IN
    /\ pc[p] \in PendingLabels \cup LiveLabels \cup RefundLabels => bookingLock[b] = p
    /\ pc[p] \in PendingLabels => Pending(b)
    /\ pc[p] \in LiveLabels => Live(b)
    /\ pc[p] \in RefundLabels => bookings[b].status \in {"pending", "cancelled"}
    /\ pc[p] \in ReservedLabels /\ Pending(b) => req[p].reserved = bookings[b].units

\* The seats p has locked for the booking it is creating are its own, and stay
\* available once they have been checked.
DraftProtected(p) ==
    LET draft == req[p].draft IN
    /\ pc[p] \in {"create_user", "create_seats", "create_slot", "create_insert"} =>
          /\ draft.status = "pending"
          /\ ~UnitMode => draft.units = {}
    /\ pc[p] = "create_slot" => ~UnitMode
    /\ pc[p] = "create_seats" => \A s \in draft.units \ req[p].want : seatLock[s] = p
    /\ pc[p] = "create_insert" =>
          \A s \in draft.units : seatLock[s] = p /\ seats[s] = "available"

\* What a handler checked under a row lock still holds when it acts on it, many
\* steps of other handlers and calls of Stripe later.
LocksProtect ==
    \A p \in Procs : BookingProtected(p) /\ DraftProtected(p)

-----------------------------------------------------------------------------
(* What a document, a comment or a docstring says, and a run refutes *)

\* "Zero Double-Billing" (README.md:145): a booking is charged at most once,
\* refunds apart.
NoDoubleBilling ==
    \A i, j \in Intents :
        /\ i # j
        /\ intents[i].booking # Null /\ intents[i].booking = intents[j].booking
        /\ intents[i].status = "succeeded" /\ intents[i].refund = "none"
        => intents[j].status # "succeeded" \/ intents[j].refund # "none"

\* "DO NOT confirm! Initiate auto-refund" (payments.py:446): what has been
\* refunded automatically is not confirmed.
RefundedNotConfirmed ==
    \A b \in Bookings : bookings[b].status = "confirmed" /\ bookings[b].total > 0 =>
        \E i \in Intents : intents[i].booking = b /\ intents[i].refund # "auto"

-----------------------------------------------------------------------------
(* The abstract view of reserved seating *)

Holder == [s \in Seats |->
             IF seats[s] = "available" THEN Null
             ELSE CHOOSE b \in Bookings : Live(b) /\ s \in bookings[b].units]

Ledger == INSTANCE SeatLedger WITH
              Nobody <- Null,
              holder <- Holder,
              sold   <- {b \in Bookings : bookings[b].status = "confirmed"},
              gone   <- {b \in Bookings : bookings[b].status = "cancelled"}

\* All the handlers together do to the seats only what a box office may do.
ImplementsLedger == Ledger!Spec
=============================================================================
