------------------------------ MODULE Payments ------------------------------
(***************************************************************************)
(* app/routers/payments.py: POST /bookings/{id}/pay, the Stripe webhook    *)
(* and POST /bookings/{id}/cancel.  All three lock the booking row; the    *)
(* calls of the Stripe API are made while it is locked, each a step of its *)
(* own, and may fail before or after Stripe has acted on them.             *)
(***************************************************************************)
EXTENDS CreateBooking

\* confirm_booking_and_invoice: payment SUCCEEDED, booking CONFIRMED, its seats
\* BOOKED, an invoice unless there is one, the commit, and the invoice e-mail.
\* A free booking gets its payment row in the same transaction.
Confirm(p, b) ==
    /\ req[p].want = {}
    /\ bookings' = [bookings EXCEPT ![b].status = "confirmed"]
    /\ seats' = SetSeats(bookings[b].units, "booked")
    /\ payments' = [payments EXCEPT ![b] =
                      [status |-> "succeeded",
                       intent |-> IF @.status = "none" THEN FreeIntent ELSE @.intent]]
    /\ invoices' = invoices \cup {b}
    /\ Enqueue("invoice", b)
    /\ UNCHANGED <<clock, service, cancellations, stripe>>

\* The booking becomes CANCELLED, its seats take the status freed says, and a
\* cancellation row is written when refund is an amount.
Cancel(p, b, freed, pay, refund) ==
    /\ req[p].want = {}
    /\ bookings' = [bookings EXCEPT ![b].status = "cancelled"]
    /\ seats' = freed
    /\ payments' = [payments EXCEPT ![b].status = pay]
    /\ cancellations' = IF refund = NoRow THEN cancellations
                        ELSE [cancellations EXCEPT ![b] = refund]
    /\ UNCHANGED <<clock, service, invoices, stripe>>

PayStatus(b, status) == payments' = [payments EXCEPT ![b].status = status]

OnlyPayments == UNCHANGED <<clock, service, bookings, seats, cancellations,
                            invoices, mails, stripe>>

-----------------------------------------------------------------------------
(* POST /bookings/{id}/pay *)

\* A request for a booking that is over is refused below; none is started.
BeginPay(p, b) ==
    /\ pc[p] = "idle"
    /\ Pending(b)
    /\ Goto(p, "pay_lock", [NoReq EXCEPT !.now = clock, !.bk = b])
    /\ UNCHANGED <<clock, db, mails, locks, stripe>>

\* Wrong variant: the booking is locked but not checked again.
PayLockUnchecked(p) ==
    LET b == req[p].bk IN
    /\ pc[p] = "pay_lock"
    /\ LockBooking(p, b)
    /\ Goto(p, IF payments[b].status = "requires" THEN "pay_retrieve" ELSE "pay_create",
            [req[p] EXCEPT !.seen = payments[b].status,
                           !.intent = payments[b].intent,
                           !.want = bookings[b].units])
    /\ UNCHANGED <<clock, db, mails, stripe>>

\* The booking is locked and checked, and the payment row is read.  The hold is
\* measured against the time read before the lock was waited for.
PayLock(p) ==
    LET b == req[p].bk
        pay == payments[b]
        next == CASE pay.status = "requires" -> "pay_retrieve"
                  [] pay.status = "failed"   -> "pay_retrieve_failed"
                  [] OTHER -> IF bookings[b].total = 0 THEN "pay_confirm"
                                                       ELSE "pay_create"
    IN
    /\ pc[p] = "pay_lock"
    /\ Free(bookingLock[b], p)
    /\ \/ /\ \/ ~Pending(b)
             \/ ~Unexpired(b, req[p].now)
             \/ pay.status = "succeeded"
          /\ Finish(p)
       \/ /\ Pending(b)
          /\ Unexpired(b, req[p].now)
          /\ pay.status # "succeeded"
          /\ LockBooking(p, b)
          /\ Goto(p, next, [req[p] EXCEPT !.seen = pay.status,
                                          !.intent = pay.intent,
                                          !.want = bookings[b].units])
    /\ UNCHANGED <<clock, db, mails, stripe>>

\* The intent turned out canceled: the payment is marked so and committed,
\* which gives up the booking lock; the handler goes on without it.
PayGiveUpIntent(p, label) ==
    LET b == req[p].bk IN
    /\ intents[req[p].intent].status = "canceled"
    /\ PayStatus(b, "canceled")
    /\ Release(p)
    /\ Goto(p, label, [req[p] EXCEPT !.seen = "canceled"])
    /\ OnlyPayments

\* Wrong variant: an intent that is still processing counts as paid.
PayRetrieveEarly(p) ==
    /\ pc[p] = "pay_retrieve"
    /\ intents[req[p].intent].status \in {"processing", "succeeded"}
    /\ Goto(p, "pay_confirm", req[p])
    /\ UNCHANGED <<clock, db, mails, locks, stripe>>

\* PaymentIntent.retrieve of an active payment: reconcile if it succeeded,
\* return it if it is open (or cannot be retrieved), give it up if canceled.
PayRetrieve(p) ==
    /\ pc[p] = "pay_retrieve"
    /\ \/ /\ intents[req[p].intent].status = "succeeded"
          /\ Goto(p, "pay_confirm", req[p])
          /\ UNCHANGED <<clock, db, mails, locks, stripe>>
       \/ /\ Finish(p)
          /\ UNCHANGED <<clock, db, mails, stripe>>
       \/ PayGiveUpIntent(p, "pay_reread")

\* The payment row as it is read after the commit of PayGiveUpIntent: at once
\* means that it is still what p has committed.
Reread(p) == IF RereadAtOnce THEN [status |-> "canceled", intent |-> req[p].intent]
                             ELSE payments[req[p].bk]

\* existing_payment.status is read again, now without the booking lock
PayReread(p) ==
    LET pay == Reread(p) IN
    /\ pc[p] = "pay_reread"
    /\ Goto(p, IF pay.status = "failed" THEN "pay_retrieve_failed" ELSE "pay_create",
            [req[p] EXCEPT !.seen = pay.status, !.intent = pay.intent])
    /\ UNCHANGED <<clock, db, mails, locks, stripe>>

\* PaymentIntent.retrieve of a failed payment: an open intent is taken up
\* again; one that is processing, or cannot be retrieved, is left behind.
PayRetrieveFailed(p) ==
    LET i == req[p].intent IN
    /\ pc[p] = "pay_retrieve_failed"
    /\ \/ /\ intents[i].status = "succeeded"
          /\ Goto(p, "pay_confirm", req[p])
          /\ UNCHANGED <<clock, db, mails, locks, stripe>>
       \/ /\ intents[i].status = "open"
          /\ PayStatus(req[p].bk, "requires")
          /\ Finish(p)
          /\ OnlyPayments
       \/ PayGiveUpIntent(p, "pay_create")
       \/ /\ Goto(p, "pay_create", req[p])
          /\ UNCHANGED <<clock, db, mails, locks, stripe>>

\* Neither the hold nor, for slot_capacity, the service is looked at again.
PayConfirm(p) ==
    /\ pc[p] = "pay_confirm"
    /\ PayBeatsExpiry => Unexpired(req[p].bk, clock)
    /\ Confirm(p, req[p].bk)
    /\ Finish(p)

\* PaymentIntent.create, under the booking's own key if there is no payment row
\* and under a fresh attempt key otherwise.
PayCreate(p) ==
    LET b == req[p].bk
        first == req[p].seen = "none"
    IN
    /\ pc[p] = "pay_create"
    /\ \/ \E i \in Intents :
            /\ Creatable(b, first, i)
            /\ intents' = Created(b, first, i)
            /\ \/ /\ Goto(p, "pay_store", [req[p] EXCEPT !.intent = i])
                  /\ UNCHANGED locks
               \/ Finish(p)
       \/ Finish(p) /\ UNCHANGED intents
    /\ UNCHANGED <<clock, db, mails, events>>

\* The payment row is inserted or overwritten and the client_secret returned.
PayStore(p) ==
    LET b == req[p].bk IN
    /\ pc[p] = "pay_store"
    /\ payments' = [payments EXCEPT ![b] =
                      [status |-> Written(req[p].seen, "requires", @.status),
                       intent |-> req[p].intent]]
    /\ intents' = Issued(req[p].intent)
    /\ Finish(p)
    /\ UNCHANGED <<clock, service, bookings, seats, cancellations, invoices,
                   mails, events>>

-----------------------------------------------------------------------------
(* POST /webhook/stripe *)

\* The payment is found by the intent's id, before any lock; an intent that no
\* payment row names is acknowledged and forgotten.
BeginWebhook(p, e) ==
    /\ pc[p] = "idle"
    /\ \E b \in Bookings :
          /\ payments[b].intent = e.intent
          /\ Goto(p, "hook_lock", [NoReq EXCEPT !.bk = b,
                                                !.intent = e.intent,
                                                !.event = e.type])
    /\ UNCHANGED <<clock, db, mails, locks, stripe>>

\* Wrong variant: the status Stripe reports is stored as it is.
HookFailedRaw(p) == /\ PayStatus(req[p].bk, "open")
                    /\ Finish(p)

HookFailed(p) ==
    LET b == req[p].bk IN
    /\ payments' = IF payments[b].status \in {"succeeded", "canceled"} THEN payments
                   ELSE [payments EXCEPT ![b].status = "failed"]
    /\ Finish(p)

\* Wrong variant: the booking is read without FOR UPDATE.
HookSucceededUnlocked(p) ==
    LET b == req[p].bk IN
    /\ UNCHANGED <<locks, payments>>
    /\ Goto(p, IF ~Pending(b) THEN "hook_refund" ELSE "hook_seats",
            [req[p] EXCEPT !.seen = payments[b].status,
                           !.want = IF Pending(b) THEN bookings[b].units ELSE {},
                           !.reserved = Reserved(b)])

\* Wrong variant: the event of a booking that is over is acknowledged only.
HookSucceededNoRefund(p) ==
    LET b == req[p].bk IN
    /\ UNCHANGED payments
    /\ IF Pending(b)
       THEN /\ LockBooking(p, b)
            /\ Goto(p, "hook_seats", [req[p] EXCEPT !.seen = payments[b].status,
                                                    !.want = bookings[b].units,
                                                    !.reserved = Reserved(b)])
       ELSE Finish(p)

HookSucceeded(p) ==
    LET b == req[p].bk
        status == payments[b].status
        confirmed == bookings[b].status = "confirmed"
        done == \/ status = "succeeded"
                \/ status = "canceled" /\ cancellations[b] > 0
        next == IF ~Pending(b) THEN "hook_refund"
                ELSE IF UnitMode THEN "hook_seats" ELSE "hook_service"
    IN
    \/ /\ confirmed
       /\ PayStatus(b, "succeeded")
       /\ Finish(p)
    \/ /\ ~confirmed /\ done
       /\ Finish(p)
       /\ UNCHANGED payments
    \/ /\ ~confirmed /\ ~done
       /\ LockBooking(p, b)
       /\ Goto(p, next, [req[p] EXCEPT
                           !.seen = status,
                           !.cap = service.max_capacity,
                           !.want = IF Pending(b) THEN bookings[b].units ELSE {},
                           !.reserved = Reserved(b)])
       /\ UNCHANGED payments

\* The booking is locked, the payment is read again under that lock, and the
\* event is handled by its type.
HookLock(p) ==
    /\ pc[p] = "hook_lock"
    /\ Free(bookingLock[req[p].bk], p)
    /\ IF req[p].event = "failed" THEN HookFailed(p) ELSE HookSucceeded(p)
    /\ OnlyPayments

\* Wrong variant: the seats are compared with the status they are about to get.
HookSeatsBooked(p) ==
    /\ pc[p] = "hook_seats"
    /\ req[p].want = {}
    /\ Goto(p, IF \A s \in bookings[req[p].bk].units : seats[s] = "booked"
               THEN "hook_confirm" ELSE "hook_refund", req[p])
    /\ UNCHANGED <<clock, db, mails, locks, stripe>>

\* check_and_lock_unit_assigned: confirm if every seat was RESERVED
HookSeats(p) ==
    /\ pc[p] = "hook_seats"
    /\ req[p].want = {}
    /\ Goto(p, IF bookings[req[p].bk].units \subseteq req[p].reserved
               THEN "hook_confirm" ELSE "hook_refund", req[p])
    /\ UNCHANGED <<clock, db, mails, locks, stripe>>

\* check_and_lock_slot_capacity: confirm if the tickets fit, this booking's
\* included, with the capacity loaded before the service row was locked
HookService(p) ==
    /\ pc[p] = "hook_service"
    /\ LockService(p)
    /\ Goto(p, IF ActiveTickets(clock, {req[p].bk}) <= req[p].cap
               THEN "hook_confirm" ELSE "hook_refund", req[p])
    /\ UNCHANGED <<clock, db, mails, stripe>>

HookConfirm(p) == /\ pc[p] = "hook_confirm"
                  /\ Confirm(p, req[p].bk)
                  /\ Finish(p)

\* Refund.create under auto_refund_<pi>; if it fails the webhook answers 500
\* and Stripe delivers the event again
HookRefund(p) ==
    LET i == req[p].intent IN
    /\ pc[p] = "hook_refund"
    /\ \/ /\ Refundable(i, "auto")
          /\ intents' = Refunded(i, "auto")
          /\ \/ /\ Goto(p, "hook_cancel", [req[p] EXCEPT !.settle = "refunded"])
                /\ UNCHANGED locks
             \/ Finish(p)
       \/ Finish(p) /\ UNCHANGED intents
    /\ UNCHANGED <<clock, db, mails, events>>

\* Wrong variant: the seats are released whoever holds them now.
HookCancelAnySeats(p) ==
    LET b == req[p].bk IN
    /\ pc[p] = "hook_cancel"
    /\ Cancel(p, b, SetSeats(bookings[b].units, "available"), "canceled", bookings[b].total)
    /\ Finish(p)
    /\ UNCHANGED mails

\* The refund is recorded: seats only if this booking was pending and only
\* those RESERVED, a cancellation row only if there is none
HookCancel(p) ==
    LET b == req[p].bk
        mine == IF Pending(b) THEN req[p].reserved ELSE {}
    IN
    /\ pc[p] = "hook_cancel"
    /\ Cancel(p, b, SetSeats(mine, "available"),
              Written(req[p].seen, "canceled", payments[b].status),
              IF cancellations[b] = NoRow THEN bookings[b].total ELSE NoRow)
    /\ Finish(p)
    /\ UNCHANGED mails

-----------------------------------------------------------------------------
(* POST /bookings/{id}/cancel *)

BeginCancel(p, b) ==
    /\ pc[p] = "idle"
    /\ Live(b)
    /\ Goto(p, "cancel_lock", [NoReq EXCEPT !.now = clock, !.bk = b])
    /\ UNCHANGED <<clock, db, mails, locks, stripe>>

\* A confirmed booking whose payment succeeded is refunded, a free one without
\* Stripe; the intent of a pending one is canceled unless the payment is over.
CancelLock(p) ==
    LET b == req[p].bk
        pay == payments[b]
        paid == bookings[b].status = "confirmed" /\ pay.status = "succeeded"
        charged == paid /\ bookings[b].total > 0 /\ pay.intent # FreeIntent
        pendingIntent == Pending(b) /\ pay.status \in {"requires", "failed"}
                                    /\ pay.intent # FreeIntent
    IN
    /\ pc[p] = "cancel_lock"
    /\ Free(bookingLock[b], p)
    /\ \/ /\ ~Live(b) \/ req[p].now >= StartTime
          /\ Finish(p)
       \/ /\ Live(b) /\ req[p].now < StartTime
          /\ LockBooking(p, b)
          /\ Goto(p, CASE charged       -> "cancel_refund"
                       [] pendingIntent -> "cancel_intent"
                       [] OTHER         -> "cancel_commit",
                  [req[p] EXCEPT !.intent = pay.intent,
                                 !.want = bookings[b].units,
                                 !.settle = IF paid THEN "refunded" ELSE "keep"])
    /\ UNCHANGED <<clock, db, mails, stripe>>

\* Wrong variant: the cancellation goes on although the refund failed.
CancelRefundIgnored(p) ==
    /\ pc[p] = "cancel_refund"
    /\ Goto(p, "cancel_commit", req[p])
    /\ UNCHANGED <<clock, db, mails, locks, stripe>>

\* Refund.create under refund_booking_<id>; a failure is a 502, nothing kept
CancelRefund(p) ==
    LET i == req[p].intent IN
    /\ pc[p] = "cancel_refund"
    /\ \/ /\ Refundable(i, "cancel")
          /\ intents' = Refunded(i, "cancel")
          /\ \/ /\ Goto(p, "cancel_commit", req[p])
                /\ UNCHANGED locks
             \/ Finish(p)
       \/ Finish(p) /\ UNCHANGED intents
    /\ UNCHANGED <<clock, db, mails, events>>

\* PaymentIntent.cancel of a pending booking's intent; a failure is logged and
\* the booking is cancelled all the same
CancelIntent(p) ==
    LET i == req[p].intent IN
    /\ pc[p] = "cancel_intent"
    /\ \/ /\ Cancelable(i)
          /\ intents' = Canceled(i)
          /\ \E settle \in {"canceled", "keep"} :
               Goto(p, "cancel_commit", [req[p] EXCEPT !.settle = settle])
       \/ /\ Goto(p, "cancel_commit", req[p])
          /\ UNCHANGED intents
    /\ UNCHANGED <<clock, db, mails, locks, events>>

\* Wrong variant: the payment row keeps its status.
CancelCommitPaid(p) ==
    LET b == req[p].bk IN
    /\ pc[p] = "cancel_commit"
    /\ Cancel(p, b, SetSeats(bookings[b].units, "available"), payments[b].status,
              IF req[p].settle = "refunded" THEN bookings[b].total ELSE 0)
    /\ Finish(p)
    /\ Enqueue("cancellation", b)

\* Booking CANCELLED, all its seats AVAILABLE, the audit row, the commit, and
\* the cancellation e-mail
CancelCommit(p) ==
    LET b == req[p].bk IN
    /\ pc[p] = "cancel_commit"
    /\ Cancel(p, b, SetSeats(bookings[b].units, "available"),
              IF req[p].settle = "keep" THEN payments[b].status ELSE "canceled",
              IF req[p].settle = "refunded" THEN bookings[b].total ELSE 0)
    /\ Finish(p)
    /\ Enqueue("cancellation", b)
=============================================================================
