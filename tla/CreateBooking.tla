--------------------------- MODULE CreateBooking ---------------------------
(***************************************************************************)
(* POST /bookings: create_booking of app/routers/bookings.py.  It takes    *)
(* the time first, serialises the holds of one user on the user's row,     *)
(* reads the service without a lock, and then either locks the requested   *)
(* seats or locks the service row and counts the tickets taken.            *)
(***************************************************************************)
EXTENDS Store

UnitMode == BookingMode = "unit_assigned"

\* now = datetime.now() and the checks on the request itself.  The row to be
\* inserted is drafted from the request; a rejected request changes nothing.
BeginCreate(p, u, q, units, total) ==
    /\ pc[p] = "idle"
    /\ q <= MaxTickets
    /\ IF UnitMode THEN units # {} /\ Cardinality(units) = q
                   ELSE units = {} /\ q > 0
    /\ Goto(p, "create_user",
            [NoReq EXCEPT !.now = clock,
                          !.draft = [NoBooking EXCEPT !.status = "pending",
                                                      !.user = u,
                                                      !.quantity = q,
                                                      !.units = units,
                                                      !.total = total]])
    /\ UNCHANGED <<clock, db, mails, locks, stripe>>

\* Wrong variant: the holds are counted without the lock on the user's row.
CreateCountUser(p) ==
    LET r == req[p] IN
    /\ pc[p] = "create_user"
    /\ IF PendingHolds(r.draft.user, r.now) >= MaxPendingHolds
       THEN Finish(p)
       ELSE /\ UNCHANGED locks
            /\ Goto(p, IF UnitMode THEN "create_seats" ELSE "create_slot",
                    [r EXCEPT !.draft.created = clock,
                              !.want = r.draft.units,
                              !.cap = service.max_capacity])
    /\ UNCHANGED <<clock, db, mails, stripe>>

\* The user row is locked and the user's holds are counted; then the service
\* is read.  created_at is PostgreSQL's now(), the start of this transaction:
\* after the time the handler read, not after the lock is granted.
CreateLockUser(p) ==
    LET r == req[p] IN
    /\ pc[p] = "create_user"
    /\ Free(userLock[r.draft.user], p)
    /\ IF \/ PendingHolds(r.draft.user, r.now) >= MaxPendingHolds
          \/ service.state # "active"
          \/ r.now >= StartTime
       THEN Finish(p)
       ELSE /\ userLock' = [userLock EXCEPT ![r.draft.user] = p]
            /\ UNCHANGED <<bookingLock, seatLock, serviceLock>>
            /\ \E t \in r.now..clock :
                 Goto(p, IF UnitMode THEN "create_seats" ELSE "create_slot",
                      [r EXCEPT !.draft.created = t,
                                !.want = r.draft.units,
                                !.cap = service.max_capacity])
    /\ UNCHANGED <<clock, db, mails, stripe>>

\* Wrong variant: the seats are locked but their status is not looked at.
CreateSeatsUnchecked(p) ==
    /\ pc[p] = "create_seats"
    /\ req[p].want = {}
    /\ Goto(p, "create_insert", req[p])
    /\ UNCHANGED <<clock, db, mails, locks, stripe>>

\* Every seat is locked: refuse if one is not available.
CreateSeats(p) ==
    /\ pc[p] = "create_seats"
    /\ req[p].want = {}
    /\ IF \A s \in req[p].draft.units : seats[s] = "available"
       THEN Goto(p, "create_insert", req[p]) /\ UNCHANGED locks
       ELSE Finish(p)
    /\ UNCHANGED <<clock, db, mails, stripe>>

\* Wrong variant: the tickets are counted without the lock on the service row.
CreateSlotUnlocked(p) ==
    /\ pc[p] = "create_slot"
    /\ IF ActiveTickets(req[p].now, {}) + req[p].draft.quantity <= req[p].cap
       THEN Goto(p, "create_insert", req[p]) /\ UNCHANGED locks
       ELSE Finish(p)
    /\ UNCHANGED <<clock, db, mails, stripe>>

\* The service row is locked and the tickets are counted: with the time read at
\* the start, against the capacity that was loaded before the lock.
CreateSlot(p) ==
    LET r == req[p] IN
    /\ pc[p] = "create_slot"
    /\ Free(serviceLock, p)
    /\ IF ActiveTickets(r.now, {}) + r.draft.quantity <= r.cap
       THEN Goto(p, "create_insert", r) /\ LockService(p)
       ELSE Finish(p)
    /\ UNCHANGED <<clock, db, mails, stripe>>

\* The booking is inserted under an id that was never used, its seats become
\* RESERVED, and the transaction commits.  The foreign key fails if the service
\* is gone; that the ids are used up is a bound of the model.
CreateInsert(p) ==
    LET unused == {b \in Bookings : bookings[b].status = "none"} IN
    /\ pc[p] = "create_insert"
    /\ \/ /\ service.state # "deleted"
          /\ \E b \in unused : bookings' = [bookings EXCEPT ![b] = req[p].draft]
          /\ seats' = SetSeats(req[p].draft.units, "reserved")
          /\ UNCHANGED <<service, payments, cancellations, invoices>>
       \/ /\ service.state = "deleted" \/ unused = {}
          /\ UNCHANGED db
    /\ Finish(p)
    /\ UNCHANGED <<clock, mails, stripe>>
=============================================================================
