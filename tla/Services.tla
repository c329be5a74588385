------------------------------ MODULE Services ------------------------------
(***************************************************************************)
(* The seller's changes to an event that bookings depend on, from          *)
(* app/routers/services.py: update_service as far as max_capacity is       *)
(* concerned, and delete_service.  Both read and check without a lock and  *)
(* write later.                                                            *)
(***************************************************************************)
EXTENDS Sweeper

\* The new capacity is checked against the tickets active now.
BeginUpdate(p, cap) ==
    /\ pc[p] = "idle"
    /\ service.state = "active"
    /\ ~UnitMode
    /\ cap >= 1
    /\ cap >= ActiveTickets(clock, {})
    /\ Goto(p, "update_commit", [NoReq EXCEPT !.cap = cap])
    /\ UNCHANGED <<clock, db, mails, locks, stripe>>

\* The UPDATE waits for the row lock that create_booking and the webhook take.
UpdateCommit(p) ==
    /\ pc[p] = "update_commit"
    /\ Free(serviceLock, p)
    /\ service' = IF service.state = "deleted" THEN service
                  ELSE [service EXCEPT !.max_capacity = req[p].cap]
    /\ Finish(p)
    /\ UNCHANGED <<clock, bookings, seats, payments, cancellations, invoices,
                   mails, stripe>>

\* No active booking may exist; a booking history decides how to delete.
BeginDelete(p) ==
    /\ pc[p] = "idle"
    /\ service.state = "active"
    /\ ~ \E b \in Bookings : Live(b)
    /\ Goto(p, "delete_commit",
            [NoReq EXCEPT !.hist = \E b \in Bookings : bookings[b].status # "none"])
    /\ UNCHANGED <<clock, db, mails, locks, stripe>>

\* Wrong variant: the row is deleted although a booking has come in between.
DeleteCommitAnyway(p) ==
    /\ pc[p] = "delete_commit"
    /\ Free(serviceLock, p)
    /\ service' = [service EXCEPT !.state = IF req[p].hist THEN "archived" ELSE "deleted"]
    /\ Finish(p)
    /\ UNCHANGED <<clock, bookings, seats, payments, cancellations, invoices,
                   mails, stripe>>

\* With a history the event is archived.  Without one the row and its seats are
\* deleted, unless a booking has come in between: its foreign key forbids it.
DeleteCommit(p) ==
    LET booked == \E b \in Bookings : bookings[b].status # "none" IN
    /\ pc[p] = "delete_commit"
    /\ Free(serviceLock, p)
    /\ req[p].hist \/ \A s \in Seats : Free(seatLock[s], p)
    /\ service' = CASE service.state = "deleted" -> service
                    [] req[p].hist -> [service EXCEPT !.state = "archived"]
                    [] ~req[p].hist /\ ~booked -> [service EXCEPT !.state = "deleted"]
                    [] OTHER -> service
    /\ Finish(p)
    /\ UNCHANGED <<clock, bookings, seats, payments, cancellations, invoices,
                   mails, stripe>>
=============================================================================
