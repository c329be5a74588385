--------------------------- MODULE TicketLiveness ---------------------------
(***************************************************************************)
(* What must eventually happen: holds that run out are given back, and     *)
(* money that Stripe took ends in a confirmed booking or in a refund.      *)
(* Processes may die and calls of Stripe or Redis may fail at any step,    *)
(* but only finitely often; how often is a bound of the model.             *)
(*                                                                         *)
(* Here a sweep needs the leader lock of run_hold_sweeper_loop.  The other *)
(* runs let every sweeper sweep whenever it likes: no safety property      *)
(* rests on the lock.                                                      *)
(***************************************************************************)
EXTENDS TicketSystem

CONSTANT MaxFailures    \* bound on the failures of one behaviour

ASSUME MaxFailuresAssumption == MaxFailures \in Nat

VARIABLES
    failures,
    led         \* lock:hold_sweeper_leader exists

\* Stripe would do what p is about to ask of it.
StripeWould(p) ==
    LET i == req[p].intent IN
    CASE pc[p] = "pay_create" -> \E j \in Intents : intents[j].status = "none"
      [] pc[p] \in {"hook_refund", "sweep_refund"} -> Refundable(i, "auto")
      [] pc[p] = "cancel_refund" -> Refundable(i, "cancel")
      [] pc[p] = "sweep_retrieve" -> intents[i].status \in {"canceled", "succeeded"}
      [] OTHER -> pc[p] = "sweep_intent"

\* A step in which something goes wrong: an exception, or a call of Stripe that
\* ends in its error path although Stripe would have done it.
Failure(p) == \/ SweepItemError(p)
              \/ StripeWould(p) /\ pc'[p] \in {"idle", "sweep_next"}

Step(p) == \/ /\ p \in Requests
              /\ Create(p) \/ Pay(p) \/ Webhook(p) \/ CancelBooking(p)
           \/ p \in Sweepers /\ pc[p] # "idle" /\ Sweep(p)
           \/ p \in Sellers /\ Seller(p)
           \/ LockSeat(p)

\* p goes on with what it is doing, and nothing fails.
Works(p) == /\ pc[p] # "idle"
            /\ Step(p)
            /\ ~Failure(p)
            /\ UNCHANGED <<failures, led>>

Fails(p) == /\ failures < MaxFailures
            /\ (Step(p) /\ Failure(p)) \/ Crash(p)
            /\ failures' = failures + 1 /\ UNCHANGED led

Begins(p) == pc[p] = "idle" /\ Step(p) /\ UNCHANGED <<failures, led>>

\* SET NX EX 50 comes before a sweep; its reply may be lost, and then nobody leads.
\* Nothing releases the lock: not the end of the sweep, and not a crash.
SweepBegins(p) == /\ ~led /\ led' = TRUE
                  /\ BeginSweep(p)
                  /\ UNCHANGED failures

ElectionLost == /\ ~led /\ led' = TRUE
                /\ failures < MaxFailures /\ failures' = failures + 1
                /\ UNCHANGED vars

\* Wrong variant: SET NX without EX, deleted at the end of the sweep
LeaseEndsWithSweep == /\ led /\ led' = FALSE
                      /\ \E p \in Sweepers : SweepEnd(p)
                      /\ UNCHANGED failures

\* The lock expires, whether or not its owner's sweep has ended.
LeaseEnds == led /\ led' = FALSE /\ UNCHANGED <<vars, failures>>

World == (Stripe \/ Tick) /\ UNCHANGED <<failures, led>>

LiveInit == Init /\ failures = 0 /\ led = FALSE
LiveNext == \/ \E p \in Procs : Works(p) \/ Fails(p) \/ Begins(p)
            \/ \E p \in Sweepers : SweepBegins(p)
            \/ ElectionLost \/ LeaseEnds \/ World
liveVars == <<vars, failures, led>>

Delivers(e)         == \E p \in Requests : /\ e \in events
                                           /\ BeginWebhook(p, e)
                                           /\ UNCHANGED <<failures, led>>
StripeDecides(i)    == /\ Settle(i) \/ Decline(i)
                       /\ UNCHANGED <<clock, db, mails, locks, pc, req, failures, led>>

(***************************************************************************)
(* A process that can go on does, and row locks are granted fairly.  Every *)
(* minute the sweepers ask for the leader lock, which lives for 50 seconds *)
(* (run_hold_sweeper_loop catches every exception): some sweeper gets it   *)
(* again and again, though one of them may always be too late.  Stripe     *)
(* delivers an event again until it is answered with 200, and charges or   *)
(* declines a submitted card.  Time passes.  Nothing is assumed of         *)
(* customers and sellers.                                                  *)
(***************************************************************************)
FairSpec ==
    /\ LiveInit /\ [][LiveNext]_liveVars
    /\ \A p \in Procs : SF_liveVars(Works(p))
    /\ SF_liveVars(\E p \in Sweepers : SweepBegins(p))
    /\ WF_liveVars(LeaseEnds)
    /\ \A e \in Event : SF_liveVars(Delivers(e))
    /\ \A i \in Intents : WF_liveVars(StripeDecides(i))
    /\ WF_liveVars(Tick /\ UNCHANGED <<failures, led>>)

\* The customer does not submit a card over and over for ever.
CardsRest == <>[](\A i \in Intents : intents[i].status # "processing")

\* A hold that has run out does not stay: it is released, or confirmed if it
\* turns out to have been paid, in spite of gateway failures, crashes and
\* requests that hold the booking's lock.
ExpiredHoldEnds ==
    CardsRest =>
        \A b \in Bookings :
            (Pending(b) /\ Expired(b, clock)) ~> ~(Pending(b) /\ Expired(b, clock))

\* Money taken for an intent that the booking's payment row goes on naming does
\* not stay without effect: the booking is confirmed or the charge refunded,
\* through duplicated and late events, failing refunds and crashes.  Events of an
\* intent that /pay has replaced in the row find no payment.
ChargeSettled ==
    \A b \in Bookings, i \in Intents :
        (payments[b].intent = i /\ intents[i].status = "succeeded")
            ~> \/ bookings[b].status = "confirmed"
               \/ intents[i].refund # "none"
               \/ payments[b].intent # i
=============================================================================
