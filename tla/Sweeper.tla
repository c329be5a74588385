------------------------------ MODULE Sweeper ------------------------------
(***************************************************************************)
(* released_expired_holds of app/core/tasks.py, run every minute by each   *)
(* worker that gets the leader lock.  One session serves the whole sweep:  *)
(* a `continue` before a commit keeps the locks taken so far, a commit or  *)
(* a rollback gives up all of them.                                        *)
(***************************************************************************)
EXTENDS Payments

BeginSweep(p) ==
    LET candidates == {b \in Bookings : Pending(b) /\ Expired(b, clock)} IN
    /\ pc[p] = "idle"
    /\ candidates # {}
    /\ Goto(p, "sweep_next", [NoReq EXCEPT !.now = clock, !.todo = candidates])
    /\ UNCHANGED <<clock, db, mails, locks, stripe>>

\* Back to the head of the loop
NextCandidate(p) ==
    Goto(p, "sweep_next", [NoReq EXCEPT !.now = req[p].now, !.todo = req[p].todo])

\* `continue`: the transaction stays open
Skip(p) == NextCandidate(p) /\ UNCHANGED locks

\* The candidates come in the order the query returned them, which is any.
SweepNext(p) ==
    /\ pc[p] = "sweep_next"
    /\ \E b \in req[p].todo :
         Goto(p, "sweep_lock", [req[p] EXCEPT !.bk = b, !.todo = @ \ {b}])
    /\ UNCHANGED <<clock, db, mails, locks, stripe>>

SweepEnd(p) == /\ pc[p] = "sweep_next"
               /\ req[p].todo = {}
               /\ Finish(p)
               /\ UNCHANGED <<clock, db, mails, stripe>>

\* Wrong variant: the candidate is released without being checked again.
SweepLockUnchecked(p) ==
    /\ pc[p] = "sweep_lock"
    /\ LockBooking(p, req[p].bk)
    /\ Goto(p, "sweep_release", [req[p] EXCEPT !.want = bookings[req[p].bk].units])
    /\ UNCHANGED <<clock, db, mails, stripe>>

\* The booking is locked and checked again against the threshold of this sweep.
SweepLock(p) ==
    LET b == req[p].bk
        pay == payments[b]
        hasIntent == /\ pay.intent \notin {NoIntent, FreeIntent}
                     /\ pay.status # "canceled"
        skip == \/ ~Pending(b)
                \/ ~Expired(b, req[p].now)
                \/ hasIntent /\ pay.status = "succeeded"
    IN
    /\ pc[p] = "sweep_lock"
    /\ LockBooking(p, b)
    /\ IF skip THEN NextCandidate(p)
       ELSE Goto(p, IF hasIntent THEN "sweep_intent" ELSE "sweep_release",
                 [req[p] EXCEPT !.intent = pay.intent,
                                !.want = bookings[b].units])
    /\ UNCHANGED <<clock, db, mails, stripe>>

\* PaymentIntent.cancel: done; refused, so ask for the status; or an exception,
\* Stripe having acted or not, which leaves the booking for the next sweep.
SweepIntent(p) ==
    LET i == req[p].intent IN
    /\ pc[p] = "sweep_intent"
    /\ \/ /\ Cancelable(i)
          /\ intents' = Canceled(i)
          /\ \/ /\ Goto(p, "sweep_release", [req[p] EXCEPT !.settle = "canceled"])
                /\ UNCHANGED locks
             \/ Skip(p)
       \/ /\ ~Cancelable(i)
          /\ Goto(p, "sweep_retrieve", req[p])
          /\ UNCHANGED <<intents, locks>>
       \/ Skip(p) /\ UNCHANGED intents
    /\ UNCHANGED <<clock, db, mails, events>>

\* Wrong variant: an intent that is canceled already is not released.
SweepRetrievePaidOnly(p) ==
    /\ pc[p] = "sweep_retrieve"
    /\ IF intents[req[p].intent].status = "succeeded"
       THEN /\ Goto(p, "sweep_seats", [req[p] EXCEPT !.cap = service.max_capacity,
                                                     !.reserved = Reserved(req[p].bk)])
            /\ UNCHANGED locks
       ELSE Skip(p)
    /\ UNCHANGED <<clock, db, mails, stripe>>

\* What PaymentIntent.retrieve says of an intent that would not be canceled
SweepRetrieve(p) ==
    LET status == intents[req[p].intent].status IN
    /\ pc[p] = "sweep_retrieve"
    /\ \/ /\ status = "canceled"
          /\ Goto(p, "sweep_release", [req[p] EXCEPT !.settle = "canceled"])
          /\ UNCHANGED locks
       \/ /\ status = "succeeded"
          /\ Goto(p, IF UnitMode THEN "sweep_seats" ELSE "sweep_service",
                  [req[p] EXCEPT !.cap = service.max_capacity,
                                 !.reserved = Reserved(req[p].bk)])
          /\ UNCHANGED locks
       \/ Skip(p)
    /\ UNCHANGED <<clock, db, mails, stripe>>

SweepSeats(p) ==
    /\ pc[p] = "sweep_seats"
    /\ req[p].want = {}
    /\ Goto(p, IF bookings[req[p].bk].units \subseteq req[p].reserved
               THEN "sweep_confirm" ELSE "sweep_refund", req[p])
    /\ UNCHANGED <<clock, db, mails, locks, stripe>>

SweepService(p) ==
    /\ pc[p] = "sweep_service"
    /\ LockService(p)
    /\ Goto(p, IF ActiveTickets(clock, {req[p].bk}) <= req[p].cap
               THEN "sweep_confirm" ELSE "sweep_refund", req[p])
    /\ UNCHANGED <<clock, db, mails, stripe>>

SweepConfirm(p) == /\ pc[p] = "sweep_confirm"
                   /\ Confirm(p, req[p].bk)
                   /\ Release(p)
                   /\ NextCandidate(p)

\* Refund.create under auto_refund_<pi>; a failure rolls back and goes on
SweepRefund(p) ==
    LET i == req[p].intent IN
    /\ pc[p] = "sweep_refund"
    /\ \/ /\ Refundable(i, "auto")
          /\ intents' = Refunded(i, "auto")
          /\ \/ /\ Goto(p, "sweep_release", [req[p] EXCEPT !.settle = "refunded"])
                /\ UNCHANGED locks
             \/ Release(p) /\ NextCandidate(p)
       \/ Release(p) /\ NextCandidate(p) /\ UNCHANGED intents
    /\ UNCHANGED <<clock, db, mails, events>>

\* Booking CANCELLED and its seats AVAILABLE; an audit row only for a refund
\* and only if there is none
SweepRelease(p) ==
    LET b == req[p].bk IN
    /\ pc[p] = "sweep_release"
    /\ Cancel(p, b, SetSeats(bookings[b].units, "available"),
              IF req[p].settle = "keep" THEN payments[b].status ELSE "canceled",
              IF req[p].settle = "refunded" /\ cancellations[b] = NoRow
              THEN bookings[b].total ELSE NoRow)
    /\ Release(p)
    /\ NextCandidate(p)
    /\ UNCHANGED mails

\* An exception while one candidate is handled (a deadlock that PostgreSQL
\* breaks, a lost connection): roll back and go on with the next.
SweepItemError(p) ==
    /\ pc[p] \in {"sweep_lock", "sweep_intent", "sweep_retrieve", "sweep_seats",
                  "sweep_service", "sweep_confirm", "sweep_refund", "sweep_release"}
    /\ Release(p)
    /\ NextCandidate(p)
    /\ UNCHANGED <<clock, db, mails, stripe>>
=============================================================================
