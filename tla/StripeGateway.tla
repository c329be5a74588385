--------------------------- MODULE StripeGateway ---------------------------
(***************************************************************************)
(* The payment gateway as the routers and the sweeper use it: the          *)
(* PaymentIntents Stripe keeps, what a call of its API may do to them, and *)
(* the webhook events it delivers.  Stripe is not part of this repository: *)
(* this module is modelled from the calls in app/routers/payments.py and   *)
(* app/core/tasks.py and from the statuses that they compare with.         *)
(***************************************************************************)
EXTENDS Integers

CONSTANTS Bookings,     \* the booking ids that can appear in intent metadata
          Null,         \* "nothing" wherever a row or a process may be absent
          MaxIntents    \* bound on the PaymentIntents that Stripe creates

ASSUME MaxIntentsAssumption == MaxIntents \in Nat
ASSUME NullIsNoBooking == Null \notin Bookings

VARIABLES
    intents,    \* intents[i]: the PaymentIntent i on Stripe's side
    events      \* the webhook events Stripe has emitted; delivered at least
                \* once, in any order, so none is ever removed

stripe == <<intents, events>>

Intents    == 1..MaxIntents
NoIntent   == 0         \* the payment row names no intent
FreeIntent == -1        \* the "free_booking_<id>" pseudo intent
IntentIds  == Intents \cup {NoIntent, FreeIntent}

\* "open" stands for requires_payment_method, requires_confirmation and
\* requires_action, which the code never tells apart.
IntentStatus == {"none", "open", "processing", "succeeded", "canceled"}

\* Under which idempotency key a refund of the intent exists: auto_refund_<pi>
\* (webhook and sweeper) or refund_booking_<id> (cancellation).
RefundKeys == {"none", "auto", "cancel"}

Intent == [status  : IntentStatus,
           booking : Bookings \cup {Null},
           first   : BOOLEAN,    \* created under the key booking_<id>
           issued  : BOOLEAN,    \* the customer holds its client_secret
           refund  : RefundKeys]

NoSuchIntent == [status |-> "none", booking |-> Null, first |-> FALSE,
                 issued |-> FALSE, refund |-> "none"]

EventType == {"succeeded", "failed"}
Event == [intent : Intents, type : EventType]

StripeTypeOK == /\ intents \in [Intents -> Intent]
                /\ events \subseteq Event

StripeInit == /\ intents = [i \in Intents |-> NoSuchIntent]
              /\ events = {}

(***************************************************************************)
(* PaymentIntent.create under the key booking_<b> (first) or under a fresh *)
(* attempt key.  A key that Stripe knows returns the intent it made then.  *)
(***************************************************************************)
Creatable(b, first, i) ==
    \/ first /\ intents[i].booking = b /\ intents[i].first
    \/ /\ intents[i].status = "none"
       /\ \A j \in 1..(i - 1) : intents[j].status # "none"
       /\ first => \A j \in Intents : ~(intents[j].booking = b /\ intents[j].first)

Created(b, first, i) ==
    IF intents[i].status # "none" THEN intents
    ELSE [intents EXCEPT ![i] = [NoSuchIntent EXCEPT !.status = "open",
                                                     !.booking = b,
                                                     !.first = first]]

Issued(i) == [intents EXCEPT ![i].issued = TRUE]

\* PaymentIntent.cancel refuses an intent that is not open.
Cancelable(i) == intents[i].status = "open"
Canceled(i)   == [intents EXCEPT ![i].status = "canceled"]

\* Refund.create refunds the whole amount of a paid intent once; repeating it
\* under the same idempotency key answers as the first call did.
Refundable(i, key) == /\ intents[i].status = "succeeded"
                      /\ intents[i].refund \in {"none", key}
Refunded(i, key)   == [intents EXCEPT ![i].refund = key]

(***************************************************************************)
(* What happens at Stripe by itself: the customer submits a card for an    *)
(* intent whose client_secret they hold, the charge settles or is          *)
(* declined, and Stripe may cancel an open intent of its own accord.       *)
(***************************************************************************)
Submit(i) == /\ intents[i].status = "open"
             /\ intents[i].issued
             /\ intents' = [intents EXCEPT ![i].status = "processing"]
             /\ UNCHANGED events

Settle(i) == /\ intents[i].status = "processing"
             /\ intents' = [intents EXCEPT ![i].status = "succeeded"]
             /\ events' = events \cup {[intent |-> i, type |-> "succeeded"]}

Decline(i) == /\ intents[i].status = "processing"
              /\ intents' = [intents EXCEPT ![i].status = "open"]
              /\ events' = events \cup {[intent |-> i, type |-> "failed"]}

StripeCancels(i) == /\ Cancelable(i)
                    /\ intents' = Canceled(i)
                    /\ UNCHANGED events
=============================================================================
