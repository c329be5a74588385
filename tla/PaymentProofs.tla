---------------------------- MODULE PaymentProofs ----------------------------
(***************************************************************************)
(* Money and mail: what a confirmed booking, a refund on record and a      *)
(* payment row that says SUCCEEDED stand for, and how many e-mails a       *)
(* booking causes.                                                         *)
(***************************************************************************)
EXTENDS SeatProofs

-----------------------------------------------------------------------------
(* What intents, payment rows and handlers know of each other *)

\* Intent i was made for booking b; it was charged; it was refunded.
IsFor(i, b)   == i \in Intents /\ intents[i].booking = b
Charged(i, b) == IsFor(i, b) /\ intents[i].status = "succeeded"
Repaid(i, b)  == IsFor(i, b) /\ intents[i].refund # "none"

\* What Stripe keeps: every intent is made for a booking, only a charged one is
\* refunded, and an event that reports a charge tells the truth.
IntentsSound == \A i \in Intents :
                   /\ intents[i].booking \in Bookings <=> intents[i].status # "none"
                   /\ intents[i].refund # "none" => intents[i].status = "succeeded"
EventsSound == \A e \in events : e.type = "succeeded" => intents[e.intent].status = "succeeded"

\* A payment row names no other booking's intent, has one while it waits for
\* a charge, and has the pseudo intent only if the booking is free.
RowSound(b) ==
    LET pay == payments[b] IN
    /\ pay.intent \in Intents => intents[pay.intent].booking = b
    /\ pay.status = "none" <=> pay.intent = NoIntent
    /\ pay.status \in {"requires", "failed"} => pay.intent \in Intents
    /\ pay.intent = FreeIntent => bookings[b].total = 0

\* Labels at which the intent a handler holds is charged, at which the payment
\* row names an intent, and at which the one held is of the booking
ChargedLabels == {"hook_seats", "hook_service", "hook_confirm", "hook_refund", "hook_cancel",
                  "sweep_seats", "sweep_service", "sweep_confirm", "sweep_refund"}
RowLabels     == ChargedLabels \cup {"pay_retrieve", "pay_retrieve_failed", "hook_lock",
                                     "cancel_refund", "cancel_intent",
                                     "sweep_intent", "sweep_retrieve"}
IntentLabels  == RowLabels \cup {"pay_store"}

\* Labels at which something is settled with Stripe, and at which it is then
\* written down
RecordLabels  == {"hook_cancel", "cancel_commit", "sweep_release"}
SettledLabels == RecordLabels \cup {"cancel_refund"}

\* What a handler at label with the locals r may rely on, lock or no lock
Sound(label, r) ==
    /\ label \in IntentLabels => IsFor(r.intent, r.bk)
    /\ label \in RowLabels => payments[r.bk].intent \in Intents
    /\ label \in ChargedLabels => Charged(r.intent, r.bk)
    /\ label = "hook_lock" => r.event = "failed" \/ Charged(r.intent, r.bk)
    /\ label = "pay_confirm" => \/ bookings[r.bk].total = 0
                                \/ Charged(r.intent, r.bk) /\ payments[r.bk].intent \in Intents
    /\ r.settle # "keep" => label \in SettledLabels /\ payments[r.bk].status # "none"
    /\ label \in RecordLabels /\ r.settle = "refunded" =>
          bookings[r.bk].total = 0 \/ Repaid(r.intent, r.bk)
    /\ label = "hook_cancel" => Repaid(r.intent, r.bk)
    /\ label = "pay_reread" => payments[r.bk].status # "none"
    /\ label \in {"pay_create", "pay_store"} /\ r.seen # "none" => payments[r.bk].status # "none"
    /\ label \in CreateLabels => r.draft.status = "pending"

PayInv == /\ IntentsSound
          /\ EventsSound
          /\ \A b \in Bookings : RowSound(b)
          /\ \A p \in Procs : Sound(pc[p], req[p])

LEMMA IntentIdsApart ==
    /\ NoIntent \notin Intents /\ FreeIntent \notin Intents /\ NoIntent # FreeIntent
    /\ \A i \in IntentIds : i \notin {NoIntent, FreeIntent} => i \in Intents
BY MaxIntentsAssumption DEF NoIntent, FreeIntent, Intents, IntentIds

-----------------------------------------------------------------------------
(* What is once true of an intent or a row stays true *)

IntentsGrow ==
    \A i \in Intents : intents[i].booking \in Bookings =>
        /\ intents'[i].booking = intents[i].booking
        /\ intents[i].status = "succeeded" => intents'[i].status = "succeeded"
        /\ intents[i].refund # "none" => intents'[i].refund # "none"

RowsGrow ==
    \A b \in Bookings :
        /\ payments[b].intent \in Intents => payments'[b].intent \in Intents
        /\ payments[b].status # "none" => payments'[b].status # "none"
        /\ Exists(b) => bookings'[b].total = bookings[b].total

\* What every step does
PayKept == PayInv' /\ IntentsGrow /\ RowsGrow

\* A handler that is at work on an existing booking can still rely on what it
\* could rely on before.
LEMMA SoundStays ==
    ASSUME IntentsGrow, RowsGrow, NEW label, NEW r, Sound(label, r),
           label \in Targeted => r.bk \in Bookings /\ Exists(r.bk)
    PROVE  Sound(label, r)'
<1>1. /\ IntentLabels \subseteq Targeted /\ RowLabels \subseteq Targeted
      /\ ChargedLabels \subseteq Targeted /\ RecordLabels \subseteq Targeted
      /\ SettledLabels \subseteq Targeted
      /\ {"pay_confirm", "pay_reread", "pay_create", "pay_store", "hook_lock", "hook_cancel"}
            \subseteq Targeted
  BY DEF IntentLabels, RowLabels, ChargedLabels, SettledLabels, RecordLabels, Targeted, Labels
<1>2. CASE label \in Targeted
  <2>1. /\ \A i \in Intents : IsFor(i, r.bk) =>
              /\ IsFor(i, r.bk)'
              /\ Charged(i, r.bk) => Charged(i, r.bk)'
              /\ Repaid(i, r.bk) => Repaid(i, r.bk)'
        /\ payments[r.bk].intent \in Intents => payments'[r.bk].intent \in Intents
        /\ payments[r.bk].status # "none" => payments'[r.bk].status # "none"
        /\ bookings'[r.bk].total = bookings[r.bk].total
    BY <1>2 DEF IntentsGrow, RowsGrow, IsFor, Charged, Repaid
  <2>2. \A i : /\ IsFor(i, r.bk) => IsFor(i, r.bk)'
               /\ Charged(i, r.bk) => Charged(i, r.bk)'
               /\ Repaid(i, r.bk) => Repaid(i, r.bk)'
    BY <2>1 DEF IsFor, Charged, Repaid
  <2> QED
    BY <2>1, <2>2 DEF Sound
<1>3. CASE label \notin Targeted
  BY <1>1, <1>3 DEF Sound
<1> QED
  BY <1>2, <1>3

\* The kinds of step: p goes to label with the locals r.
LEMMA PayStep ==
    ASSUME TypeInv, RowsExist, PayInv, NEW p \in Procs, NEW label, NEW r, Goto(p, label, r),
           IntentsGrow, RowsGrow, IntentsSound', EventsSound', \A b \in Bookings : RowSound(b)',
           Sound(label, r)'
    PROVE  PayKept
<1>1. /\ pc'[p] = label /\ req'[p] = r
      /\ \A q \in Procs \ {p} : pc'[q] = pc[q] /\ req'[q] = req[q]
  BY GotoKeeps
<1>2. ASSUME NEW q \in Procs \ {p} PROVE Sound(pc[q], req[q])'
  <2>1. Sound(pc[q], req[q])
    BY DEF PayInv
  <2>2. pc[q] \in Targeted => req[q].bk \in Bookings /\ Exists(req[q].bk)
    BY TargetRows
  <2> DEFINE l == pc[q]
             s == req[q]
  <2>3. \A m, t : Sound(m, t) /\ (m \in Targeted => t.bk \in Bookings /\ Exists(t.bk))
                     => Sound(m, t)'
    BY SoundStays
  <2> QED
    BY <1>1, <2>1, <2>2, <2>3 DEF Sound
<1>3. Sound(pc[p], req[p])'
  BY <1>1 DEF Sound
<1> QED
  BY <1>2, <1>3 DEF PayInv, PayKept

LEMMA SameRowsGrow == ASSUME UNCHANGED <<bookings, payments>> PROVE RowsGrow
BY DEF RowsGrow

LEMMA SameStripeGrows ==
    ASSUME IntentsSound, EventsSound, UNCHANGED stripe
    PROVE  IntentsGrow /\ IntentsSound' /\ EventsSound'
BY DEF stripe, IntentsGrow, IntentsSound, EventsSound

\* A step that writes none of bookings, payments and Stripe's tables
LEMMA QuietStep ==
    ASSUME TypeInv, RowsExist, PayInv, NEW p \in Procs, NEW label, NEW r, Goto(p, label, r),
           UNCHANGED <<bookings, payments, stripe>>, Sound(label, r)
    PROVE  PayKept
<1>1. Sound(label, r)'
  BY DEF Sound, IsFor, Charged, Repaid, stripe
<1>2. \A b \in Bookings : RowSound(b)'
  BY DEF PayInv, RowSound, stripe
<1> QED
  BY <1>1, <1>2, SameRowsGrow, SameStripeGrows, PayStep DEF PayInv

\* A step that calls Stripe and writes neither bookings nor payments
LEMMA CallStep ==
    ASSUME TypeInv, RowsExist, PayInv, NEW p \in Procs, NEW label, NEW r, Goto(p, label, r),
           UNCHANGED <<bookings, payments>>, IntentsGrow, IntentsSound', EventsSound',
           Sound(label, r)'
    PROVE  PayKept
<1>1. ASSUME NEW b \in Bookings PROVE RowSound(b)'
  BY DEF PayInv, RowSound, IntentsGrow
<1> QED
  BY <1>1, SameRowsGrow, PayStep

\* A step that writes bookings or payments and does not call Stripe
LEMMA RowStep ==
    ASSUME TypeInv, RowsExist, PayInv, NEW p \in Procs, NEW label, NEW r, Goto(p, label, r),
           UNCHANGED stripe, RowsGrow, \A b \in Bookings : RowSound(b)', Sound(label, r)'
    PROVE  PayKept
BY SameStripeGrows, PayStep DEF PayInv

\* Labels at which nothing is relied on
FreeLabels == {"idle", "pay_lock", "cancel_lock", "sweep_next", "sweep_lock",
               "update_commit", "delete_commit"}

LEMMA FreeSound ==
    ASSUME NEW label \in FreeLabels, NEW r, r.settle = "keep"
    PROVE  Sound(label, r) /\ Sound(label, r)'
BY DEF FreeLabels, Sound, IntentLabels, RowLabels, ChargedLabels, RecordLabels, SettledLabels,
       CreateLabels

LEMMA FinishIsFree == ASSUME NEW p, Finish(p)
                      PROVE  Goto(p, "idle", NoReq) /\ Sound("idle", NoReq) /\ Sound("idle", NoReq)'
BY FreeSound DEF Finish, FreeLabels, NoReq

LEMMA NextIsFree ==
    ASSUME NEW p, NextCandidate(p)
    PROVE  \E r : Goto(p, "sweep_next", r) /\ Sound("sweep_next", r) /\ Sound("sweep_next", r)'
<1> DEFINE r == [NoReq EXCEPT !.now = req[p].now, !.todo = req[p].todo]
<1>1. r.settle = "keep" /\ Goto(p, "sweep_next", r)
  BY DEF NoReq, NextCandidate
<1> HIDE DEF r
<1> QED
  BY <1>1, FreeSound DEF FreeLabels

LEMMA QuietFinishes ==
    ASSUME TypeInv, RowsExist, PayInv, NEW p \in Procs, Finish(p) \/ NextCandidate(p),
           UNCHANGED <<bookings, payments, stripe>>
    PROVE  PayKept
BY FinishIsFree, NextIsFree, QuietStep

LEMMA CallFinishes ==
    ASSUME TypeInv, RowsExist, PayInv, NEW p \in Procs, Finish(p) \/ NextCandidate(p),
           UNCHANGED <<bookings, payments>>, IntentsGrow, IntentsSound', EventsSound'
    PROVE  PayKept
BY FinishIsFree, NextIsFree, CallStep

LEMMA RowFinishes ==
    ASSUME TypeInv, RowsExist, PayInv, NEW p \in Procs, Finish(p) \/ NextCandidate(p),
           UNCHANGED stripe, RowsGrow, \A b \in Bookings : RowSound(b)'
    PROVE  PayKept
BY FinishIsFree, NextIsFree, RowStep

-----------------------------------------------------------------------------
(* Calls of Stripe, and what happens there by itself *)

WithStatus(i, status) == [intents EXCEPT ![i].status = status]

LEMMA StatusGrows ==
    ASSUME StripeTypeOK, IntentsSound, EventsSound, NEW i \in Intents, NEW status,
           intents[i].status \in {"open", "processing"}, status # "none",
           intents' = WithStatus(i, status),
           \A e \in events' \ events :
              e.type = "succeeded" => e.intent = i /\ status = "succeeded"
    PROVE  IntentsGrow /\ IntentsSound' /\ EventsSound'
<1>1. /\ intents'[i].status = status
      /\ intents'[i].booking = intents[i].booking /\ intents'[i].refund = intents[i].refund
      /\ \A j \in Intents \ {i} : intents'[j] = intents[j]
  BY DEF StripeTypeOK, Intent, WithStatus
<1>2. EventsSound'
  BY <1>1 DEF EventsSound, StripeTypeOK, Event
<1> QED
  BY <1>1, <1>2 DEF IntentsGrow, IntentsSound

LEMMA CanceledGrows ==
    ASSUME StripeTypeOK, IntentsSound, EventsSound, NEW i \in Intents, Cancelable(i),
           intents' = Canceled(i), UNCHANGED events
    PROVE  IntentsGrow /\ IntentsSound' /\ EventsSound'
<1>1. /\ intents[i].status \in {"open", "processing"}
      /\ intents' = WithStatus(i, "canceled")
      /\ events' \ events = {}
  BY DEF Cancelable, Canceled, WithStatus
<1> QED
  BY <1>1, StatusGrows

LEMMA RefundedGrows ==
    ASSUME StripeTypeOK, IntentsSound, EventsSound, NEW i \in Intents,
           NEW key \in {"auto", "cancel"}, Refundable(i, key), intents' = Refunded(i, key),
           UNCHANGED events
    PROVE  /\ IntentsGrow /\ IntentsSound' /\ EventsSound'
           /\ intents'[i].refund = key /\ intents'[i].booking = intents[i].booking
           /\ intents'[i].status = "succeeded"
<1>1. /\ intents'[i].refund = key /\ intents[i].status = "succeeded"
      /\ intents'[i].booking = intents[i].booking /\ intents'[i].status = intents[i].status
      /\ \A j \in Intents \ {i} : intents'[j] = intents[j]
  BY DEF Refundable, Refunded, StripeTypeOK, Intent
<1>2. EventsSound'
  BY <1>1 DEF EventsSound, StripeTypeOK, Event
<1> QED
  BY <1>1, <1>2 DEF IntentsGrow, IntentsSound

LEMMA IssuedGrows ==
    ASSUME StripeTypeOK, IntentsSound, EventsSound, NEW i \in Intents, intents' = Issued(i),
           UNCHANGED events
    PROVE  IntentsGrow /\ IntentsSound' /\ EventsSound'
<1>1. /\ intents'[i].refund = intents[i].refund
      /\ intents'[i].booking = intents[i].booking /\ intents'[i].status = intents[i].status
      /\ \A j \in Intents \ {i} : intents'[j] = intents[j]
  BY DEF Issued, StripeTypeOK, Intent
<1>2. EventsSound'
  BY <1>1 DEF EventsSound, StripeTypeOK, Event
<1> QED
  BY <1>1, <1>2 DEF IntentsGrow, IntentsSound

LEMMA CreatedGrows ==
    ASSUME StripeTypeOK, IntentsSound, EventsSound, NEW b \in Bookings, NEW first,
           NEW i \in Intents, Creatable(b, first, i), intents' = Created(b, first, i),
           UNCHANGED events
    PROVE  IntentsGrow /\ IntentsSound' /\ EventsSound' /\ intents'[i].booking = b
<1>1. CASE intents[i].status # "none"
  <2>1. UNCHANGED stripe /\ intents[i].booking = b
    BY <1>1 DEF Creatable, Created, stripe
  <2> QED
    BY <2>1, SameStripeGrows DEF stripe
<1>2. CASE intents[i].status = "none"
  <2>1. /\ intents'[i].refund = "none"
        /\ intents'[i].booking = b /\ intents'[i].status = "open"
        /\ \A j \in Intents \ {i} : intents'[j] = intents[j]
    BY <1>2 DEF Created, StripeTypeOK, NoSuchIntent
  <2>2. intents[i].booking \notin Bookings /\ intents[i].refund = "none"
    BY <1>2 DEF IntentsSound
  <2>3. EventsSound'
    BY <1>2, <2>1 DEF EventsSound, StripeTypeOK, Event
  <2> QED
    BY <2>1, <2>2, <2>3 DEF IntentsGrow, IntentsSound
<1> QED
  BY <1>1, <1>2

LEMMA StripeKeepsPay ==
    ASSUME TypeInv, RowsExist, PayInv, Stripe
    PROVE  PayKept
<1>1. /\ IntentsGrow /\ IntentsSound' /\ EventsSound'
  <2>1. PICK i \in Intents : Submit(i) \/ Settle(i) \/ Decline(i) \/ StripeCancels(i)
    BY DEF Stripe
  <2>2. PICK status \in {"processing", "succeeded", "open", "canceled"} :
          /\ status # "none"
          /\ intents' = WithStatus(i, status)
          /\ \A e \in events' \ events :
               e.type = "succeeded" => e.intent = i /\ status = "succeeded"
    BY <2>1 DEF Submit, Settle, Decline, StripeCancels, Canceled, WithStatus
  <2>3. intents[i].status \in {"open", "processing"}
    BY <2>1 DEF Submit, Settle, Decline, StripeCancels, Cancelable
  <2>4. StripeTypeOK /\ IntentsSound /\ EventsSound
    BY DEF PayInv, TypeInv
  <2> QED
    BY <2>2, <2>3, <2>4, StatusGrows
<1>2. UNCHANGED <<bookings, payments, pc, req>> /\ RowsGrow
  BY SameRowsGrow DEF Stripe, db
<1>3. ASSUME NEW b \in Bookings PROVE RowSound(b)'
  BY <1>1, <1>2 DEF PayInv, RowSound, IntentsGrow
<1>4. ASSUME NEW p \in Procs PROVE Sound(pc[p], req[p])'
  <2>1. Sound(pc[p], req[p])
    BY DEF PayInv
  <2>2. pc[p] \in Targeted => req[p].bk \in Bookings /\ Exists(req[p].bk)
    BY TargetRows
  <2>3. \A m, t : Sound(m, t) /\ (m \in Targeted => t.bk \in Bookings /\ Exists(t.bk))
                     => Sound(m, t)'
    BY <1>1, <1>2, SoundStays
  <2> QED
    BY <1>2, <2>1, <2>2, <2>3 DEF Sound
<1> QED
  BY <1>1, <1>2, <1>3, <1>4 DEF PayInv, PayKept

-----------------------------------------------------------------------------
(* Writes to bookings and payments *)

\* A row that names an intent of Stripe is there.
LEMMA NamedRow ==
    ASSUME PayInv, NEW b \in Bookings, payments[b].intent \in Intents
    PROVE  payments[b].status # "none"
BY IntentIdsApart DEF PayInv, RowSound

LEMMA StatusRow ==
    ASSUME TypeInv, PayInv, UNCHANGED <<bookings, stripe>>, NEW b \in Bookings,
           NEW status \in {"requires", "failed", "succeeded", "canceled"},
           PayStatus(b, status), payments[b].intent \in Intents
    PROVE  RowsGrow /\ \A c \in Bookings : RowSound(c)'
<1>1. /\ payments'[b].status = status /\ payments'[b].intent = payments[b].intent
      /\ \A c \in Bookings \ {b} : payments'[c] = payments[c]
  BY DEF PayStatus, TypeInv, DbTypeOK, Payment
<1>2. payments[b].status # "none"
  BY NamedRow
<1>3. RowsGrow
  BY <1>1, <1>2 DEF RowsGrow
<1>4. ASSUME NEW c \in Bookings PROVE RowSound(c)'
  <2>1. RowSound(c)
    BY DEF PayInv
  <2> QED
    BY <1>1, <1>2, <2>1 DEF RowSound, stripe
<1> QED
  BY <1>3, <1>4

LEMMA ConfirmRow ==
    ASSUME TypeInv, PayInv, NEW p, NEW b \in Bookings, Confirm(p, b),
           bookings[b].total = 0 \/ payments[b].intent \in Intents
    PROVE  UNCHANGED stripe /\ RowsGrow /\ \A c \in Bookings : RowSound(c)'
<1>1. /\ payments'[b].status = "succeeded"
      /\ payments'[b].intent = IF payments[b].status = "none" THEN FreeIntent
                                                              ELSE payments[b].intent
      /\ \A c \in Bookings \ {b} : payments'[c] = payments[c]
      /\ \A c \in Bookings : bookings'[c].total = bookings[c].total
      /\ UNCHANGED stripe
  BY DEF Confirm, TypeInv, DbTypeOK, Booking
<1>2. RowSound(b)
  BY DEF PayInv
<1>3. RowsGrow
  BY <1>1, <1>2, IntentIdsApart DEF RowsGrow, RowSound
<1>4. ASSUME NEW c \in Bookings PROVE RowSound(c)'
  <2>1. RowSound(c)
    BY DEF PayInv
  <2>2. CASE c = b
    BY <1>1, <2>1, <2>2, IntentIdsApart, NamedRow DEF RowSound, stripe
  <2>3. CASE c # b
    BY <1>1, <2>1, <2>3 DEF RowSound, stripe
  <2> QED
    BY <2>2, <2>3
<1> QED
  BY <1>1, <1>3, <1>4

LEMMA CancelRow ==
    ASSUME TypeInv, PayInv, NEW p, NEW b \in Bookings, NEW freed, NEW pay, NEW refund,
           Cancel(p, b, freed, pay, refund),
           pay = payments[b].status \/ (pay = "canceled" /\ payments[b].status # "none")
    PROVE  UNCHANGED stripe /\ RowsGrow /\ \A c \in Bookings : RowSound(c)'
<1>1. /\ payments'[b].status = pay /\ payments'[b].intent = payments[b].intent
      /\ \A c \in Bookings \ {b} : payments'[c] = payments[c]
      /\ \A c \in Bookings : bookings'[c].total = bookings[c].total
      /\ UNCHANGED stripe
  BY DEF Cancel, TypeInv, DbTypeOK, Booking, Payment
<1>2. RowsGrow
  BY <1>1 DEF RowsGrow
<1>3. ASSUME NEW c \in Bookings PROVE RowSound(c)'
  <2>1. RowSound(c)
    BY DEF PayInv
  <2> QED
    BY <1>1, <2>1 DEF RowSound, stripe
<1> QED
  BY <1>1, <1>2, <1>3

-----------------------------------------------------------------------------
(* Every handler keeps PayInv *)

LEMMA CreateKeepsPay ==
    ASSUME TypeInv, RowsExist, PayInv, NEW p \in Procs, Create(p)
    PROVE  PayKept
<1>s. Sound(pc[p], req[p]) /\ req[p] \in Req
  BY LocalTypes DEF PayInv, TypeInv
<1>l. /\ CreateLabels \cap IntentLabels = {} /\ CreateLabels \cap SettledLabels = {}
      /\ RowLabels \subseteq IntentLabels /\ ChargedLabels \subseteq IntentLabels
      /\ RecordLabels \subseteq SettledLabels
      /\ CreateLabels \cap {"hook_lock", "hook_cancel", "pay_confirm", "pay_reread", "pay_create",
                           "pay_store"} = {}
  BY DEF CreateLabels, IntentLabels, RowLabels, ChargedLabels, SettledLabels, RecordLabels
<1>c. ASSUME NEW label \in CreateLabels, NEW r, r.settle = "keep", r.draft.status = "pending"
      PROVE  Sound(label, r)
  BY <1>c, <1>l DEF Sound
<1>q. ASSUME UNCHANGED <<clock, db, mails, stripe>>
      PROVE  UNCHANGED <<bookings, payments, stripe>>
  BY <1>q DEF db
<1>1. ASSUME NEW u \in Users, NEW q \in 0..MaxTickets, NEW units \in SUBSET Seats,
             NEW total \in Prices, BeginCreate(p, u, q, units, total)
      PROVE  PayKept
  <2> DEFINE draft == [NoBooking EXCEPT !.status = "pending", !.user = u,
                         !.quantity = q, !.units = units, !.total = total]
             r == [NoReq EXCEPT !.now = clock, !.draft = draft]
  <2>1. Goto(p, "create_user", r) /\ UNCHANGED <<clock, db, mails, stripe>>
    BY <1>1 DEF BeginCreate
  <2>2. draft.status = "pending"
    BY DEF NoBooking
  <2> HIDE DEF draft
  <2>3. r.settle = "keep" /\ r.draft.status = "pending"
    BY <2>2 DEF NoReq
  <2> HIDE DEF r
  <2> QED
    BY <1>c, <1>q, <2>1, <2>3, QuietStep DEF CreateLabels
<1>2. CASE CreateLockUser(p)
  <2>1. UNCHANGED <<bookings, payments, stripe>> /\ pc[p] \in CreateLabels
    BY <1>2, <1>q DEF CreateLockUser, CreateLabels
  <2>2. ASSUME NEW t, NEW label \in {"create_seats", "create_slot"},
               Goto(p, label, [req[p] EXCEPT !.draft.created = t,
                                             !.want = req[p].draft.units,
                                             !.cap = service.max_capacity])
        PROVE  PayKept
    <3> DEFINE r == [req[p] EXCEPT !.draft.created = t,
                                   !.want = req[p].draft.units,
                                   !.cap = service.max_capacity]
    <3>1. r.settle = req[p].settle /\ r.draft.status = req[p].draft.status
      BY <1>s DEF Req, Booking
    <3>2. req[p].settle = "keep" /\ req[p].draft.status = "pending"
      BY <1>s, <1>l, <2>1 DEF Sound
    <3>3. Goto(p, label, r) /\ label \in CreateLabels
      BY <2>2 DEF CreateLabels
    <3> HIDE DEF r
    <3> QED
      BY <1>c, <2>1, <3>1, <3>2, <3>3, QuietStep
  <2> QED
    BY <1>2, <2>1, <2>2, QuietFinishes DEF CreateLockUser
<1>3. CASE CreateSeats(p) \/ CreateSlot(p)
  <2>1. UNCHANGED <<bookings, payments, stripe>> /\ pc[p] \in CreateLabels
    BY <1>3, <1>q DEF CreateSeats, CreateSlot, CreateLabels
  <2>2. Finish(p) \/ Goto(p, "create_insert", req[p])
    BY <1>3 DEF CreateSeats, CreateSlot
  <2>3. req[p].settle = "keep" /\ req[p].draft.status = "pending"
    BY <1>s, <1>l, <2>1 DEF Sound
  <2> QED
    BY <1>c, <2>1, <2>2, <2>3, QuietFinishes, QuietStep DEF CreateLabels
\* The booking inserted had no row that a payment or a handler could refer to.
<1>4. CASE CreateInsert(p)
  <2>1. UNCHANGED <<payments, stripe>> /\ Finish(p)
    BY <1>4 DEF CreateInsert, db
  <2>2. \A c \in Bookings : Exists(c) => bookings'[c] = bookings[c]
    BY <1>4 DEF CreateInsert, db, Exists, TypeInv, DbTypeOK
  <2>3. ASSUME NEW c \in Bookings PROVE RowSound(c)'
    <3>1. RowSound(c) /\ (payments[c].intent # NoIntent => Exists(c))
      BY DEF PayInv, RowsExist
    <3> QED
      BY <2>1, <2>2, <3>1, IntentIdsApart DEF RowSound, stripe
  <2>4. RowsGrow
    BY <2>1, <2>2 DEF RowsGrow
  <2> QED
    BY <2>1, <2>3, <2>4, RowFinishes
<1> QED
  BY <1>1, <1>2, <1>3, <1>4 DEF Create

LEMMA PayKeepsPay ==
    ASSUME TypeInv, RowsExist, PayInv, NEW p \in Procs, Pay(p)
    PROVE  PayKept
<1>s. Sound(pc[p], req[p]) /\ req[p] \in Req /\ StripeTypeOK /\ IntentsSound /\ EventsSound
  BY LocalTypes DEF PayInv, TypeInv
<1>b. pc[p] \in Targeted => req[p].bk \in Bookings /\ RowSound(req[p].bk)
  BY TargetRows DEF PayInv
<1>l. /\ {"pay_lock", "pay_retrieve", "pay_reread", "pay_retrieve_failed", "pay_confirm",
          "pay_create", "pay_store"} \subseteq Targeted \ (SettledLabels \cup ChargedLabels)
      /\ {"pay_lock", "pay_retrieve", "pay_reread", "pay_retrieve_failed", "pay_confirm",
          "pay_create", "pay_store"} \cap (RecordLabels \cup CreateLabels) = {}
  BY DEF Labels, Targeted, SettledLabels, ChargedLabels, RecordLabels, CreateLabels
<1>k. pc[p] \in Targeted \ SettledLabels => req[p].settle = "keep"
  BY <1>s DEF Sound
<1>q. ASSUME UNCHANGED db, UNCHANGED stripe PROVE UNCHANGED <<bookings, payments, stripe>>
  BY <1>q DEF db
<1>r. /\ "pay_create" \notin IntentLabels /\ "pay_create" \notin RowLabels
      /\ "pay_reread" \notin IntentLabels /\ "pay_reread" \notin RowLabels
      /\ {"pay_retrieve", "pay_retrieve_failed"} \subseteq RowLabels
      /\ {"pay_retrieve", "pay_retrieve_failed", "pay_store"} \subseteq IntentLabels
      /\ "pay_confirm" \notin IntentLabels /\ "pay_store" \notin RowLabels
  BY DEF RowLabels, IntentLabels, ChargedLabels
<1>c. ASSUME NEW r, r.settle = "keep", r.seen # "none" => payments[r.bk].status # "none"
      PROVE  Sound("pay_create", r)
  BY <1>c, <1>l, <1>r DEF Sound
<1>1. ASSUME NEW b \in Bookings, BeginPay(p, b) PROVE PayKept
  <2> DEFINE r == [NoReq EXCEPT !.now = clock, !.bk = b]
  <2>1. Goto(p, "pay_lock", r) /\ r.settle = "keep"
    BY <1>1 DEF BeginPay, NoReq
  <2> HIDE DEF r
  <2> QED
    BY <1>1, <1>q, <2>1, FreeSound, QuietStep DEF BeginPay, FreeLabels
<1>2. CASE PayLock(p)
  <2> DEFINE b == req[p].bk
             r == [req[p] EXCEPT !.seen = payments[b].status,
                                 !.intent = payments[b].intent,
                                 !.want = bookings[b].units]
  <2>1. /\ r.settle = "keep" /\ r.intent = payments[b].intent /\ r.bk = b
        /\ r.seen = payments[b].status
        /\ RowSound(b) /\ b \in Bookings
    BY <1>2, <1>s, <1>b, <1>k, <1>l DEF PayLock, Req
  <2>2. UNCHANGED <<bookings, payments, stripe>>
    BY <1>2, <1>q DEF PayLock
  <2>3. \/ Finish(p)
        \/ \E label \in {"pay_retrieve", "pay_retrieve_failed"} :
              payments[b].status \in {"requires", "failed"} /\ Goto(p, label, r)
        \/ bookings[b].total = 0 /\ Goto(p, "pay_confirm", r)
        \/ Goto(p, "pay_create", r)
    BY <1>2 DEF PayLock
  <2> HIDE DEF r
  <2>4. ASSUME NEW label \in {"pay_retrieve", "pay_retrieve_failed"}, Goto(p, label, r),
               payments[b].status \in {"requires", "failed"}
        PROVE  PayKept
    <3>1. payments[b].intent \in Intents /\ intents[payments[b].intent].booking = b
      BY <2>1, <2>4 DEF RowSound
    <3>2. Sound(label, r)
      BY <1>l, <2>1, <3>1, <2>4 DEF Sound, IsFor
    <3> QED
      BY <2>2, <2>4, <3>2, QuietStep
  <2>5. CASE bookings[b].total = 0 /\ Goto(p, "pay_confirm", r)
    <3>1. Sound("pay_confirm", r)
      BY <1>l, <1>r, <2>1, <2>5 DEF Sound, RowLabels, IntentLabels
    <3> QED
      BY <2>2, <2>5, <3>1, QuietStep
  <2>6. CASE Goto(p, "pay_create", r)
    BY <1>c, <2>1, <2>2, <2>6, QuietStep
  <2> QED
    BY <2>2, <2>3, <2>4, <2>5, <2>6, QuietFinishes
<1>3. ASSUME NEW label \in {"pay_create", "pay_reread"}, PayGiveUpIntent(p, label),
             pc[p] \in {"pay_retrieve", "pay_retrieve_failed"}
      PROVE  PayKept
  <2>1. PICK r : Goto(p, label, r) /\ r.settle = "keep" /\ r.bk = req[p].bk
    BY <1>s, <1>l, <1>k, <1>3 DEF PayGiveUpIntent, Req
  <2>2. req[p].bk \in Bookings /\ payments[req[p].bk].intent \in Intents
    BY <1>3, <1>s, <1>b, <1>l, <1>r DEF Sound
  <2>3. UNCHANGED <<bookings, stripe>> /\ PayStatus(req[p].bk, "canceled")
    BY <1>3 DEF PayGiveUpIntent, OnlyPayments
  <2>4. RowsGrow /\ \A c \in Bookings : RowSound(c)'
    BY <2>2, <2>3, StatusRow
  <2>5. payments'[r.bk].status # "none"
    BY <2>1, <2>2, <2>4, NamedRow DEF RowsGrow
  <2>6. Sound("pay_create", r)' /\ Sound("pay_reread", r)'
    BY <1>l, <1>r, <2>1, <2>5 DEF Sound
  <2> QED
    BY <1>3, <2>1, <2>3, <2>4, <2>6, RowStep
<1>4. ASSUME pc[p] \in {"pay_retrieve", "pay_retrieve_failed"},
             UNCHANGED <<bookings, payments, stripe>>,
             \/ Goto(p, "pay_create", req[p])
             \/ Goto(p, "pay_confirm", req[p]) /\ intents[req[p].intent].status = "succeeded"
      PROVE  PayKept
  <2>1. req[p].settle = "keep" /\ IsFor(req[p].intent, req[p].bk)
        /\ payments[req[p].bk].intent \in Intents
    BY <1>s, <1>k, <1>l, <1>r, <1>4 DEF Sound
  <2>2. Sound("pay_create", req[p])
    <3>1. payments[req[p].bk].status # "none"
      BY <1>b, <1>l, <1>4, <2>1, NamedRow
    <3> QED
      BY <1>c, <2>1, <3>1
  <2>3. intents[req[p].intent].status = "succeeded" => Sound("pay_confirm", req[p])
    BY <1>l, <1>r, <2>1 DEF Sound, Charged, RowLabels, IntentLabels
  <2> QED
    BY <1>4, <2>2, <2>3, QuietStep
<1>5. CASE PayRetrieve(p)
  <2>1. CASE Finish(p) /\ UNCHANGED <<clock, db, mails, stripe>>
    BY <1>q, <2>1, QuietFinishes
  <2> QED
    BY <1>3, <1>4, <1>5, <1>q, <2>1 DEF PayRetrieve
<1>6. CASE PayReread(p)
  <2> DEFINE b == req[p].bk
             r == [req[p] EXCEPT !.seen = Reread(p).status, !.intent = Reread(p).intent]
  <2>1. /\ r.settle = "keep" /\ r.intent = Reread(p).intent /\ r.bk = b
        /\ RowSound(b) /\ b \in Bookings /\ payments[b].status # "none"
    BY <1>6, <1>s, <1>b, <1>k, <1>l DEF PayReread, Req, Sound
  <2>2. UNCHANGED <<bookings, payments, stripe>>
    BY <1>6, <1>q DEF PayReread
  <2>3. \/ Reread(p).status = "failed" /\ Goto(p, "pay_retrieve_failed", r)
        \/ Goto(p, "pay_create", r)
    BY <1>6 DEF PayReread
  <2> HIDE DEF r
  <2>4. Reread(p).status = "failed" => Sound("pay_retrieve_failed", r)
    <3>1. ASSUME Reread(p).status = "failed"
          PROVE  /\ r.intent = payments[b].intent
                 /\ payments[b].intent \in Intents /\ intents[payments[b].intent].booking = b
      BY <2>1, <3>1 DEF RowSound, Reread
    <3> QED
      BY <1>l, <2>1, <3>1 DEF Sound, IsFor
  <2>5. Sound("pay_create", r)
    BY <1>c, <2>1
  <2> QED
    BY <2>2, <2>3, <2>4, <2>5, QuietStep
<1>7. CASE PayRetrieveFailed(p)
  <2>1. CASE PayStatus(req[p].bk, "requires") /\ Finish(p) /\ OnlyPayments
    <3>1. req[p].bk \in Bookings /\ payments[req[p].bk].intent \in Intents
      BY <1>7, <1>s, <1>b, <1>l, <1>r DEF Sound, PayRetrieveFailed
    <3>2. RowsGrow /\ \A c \in Bookings : RowSound(c)'
      BY <2>1, <3>1, StatusRow DEF OnlyPayments
    <3> QED
      BY <2>1, <3>2, RowFinishes DEF OnlyPayments
  <2> QED
    BY <1>3, <1>4, <1>7, <1>q, <2>1 DEF PayRetrieveFailed
<1>8. CASE PayConfirm(p)
  <2>1. /\ req[p].bk \in Bookings
        /\ bookings[req[p].bk].total = 0 \/ payments[req[p].bk].intent \in Intents
    BY <1>8, <1>s, <1>b, <1>l DEF Sound, PayConfirm
  <2>2. UNCHANGED stripe /\ RowsGrow /\ \A c \in Bookings : RowSound(c)'
    BY <1>8, <2>1, ConfirmRow DEF PayConfirm
  <2> QED
    BY <1>8, <2>2, RowFinishes DEF PayConfirm
<1>9. CASE PayCreate(p)
  <2>1. req[p].bk \in Bookings /\ req[p].settle = "keep" /\ UNCHANGED <<bookings, payments, events>>
    BY <1>9, <1>b, <1>k, <1>l DEF PayCreate, db
  <2>2. CASE Finish(p) /\ UNCHANGED intents
    BY <2>1, <2>2, QuietFinishes DEF stripe
  <2>3. ASSUME NEW i \in Intents, NEW first, Creatable(req[p].bk, first, i),
               intents' = Created(req[p].bk, first, i),
               \/ Goto(p, "pay_store", [req[p] EXCEPT !.intent = i])
               \/ Finish(p)
        PROVE  PayKept
    <3>1. IntentsGrow /\ IntentsSound' /\ EventsSound' /\ intents'[i].booking = req[p].bk
      BY <1>s, <2>1, <2>3, CreatedGrows
    <3>2. CASE Finish(p)
      BY <2>1, <3>1, <3>2, CallFinishes
    <3>3. CASE Goto(p, "pay_store", [req[p] EXCEPT !.intent = i])
      <4>1. PICK r : /\ Goto(p, "pay_store", r)
                     /\ r.intent = i /\ r.settle = "keep"
                     /\ r.bk = req[p].bk /\ r.seen = req[p].seen
        BY <1>s, <2>1, <3>3 DEF Req
      <4>2. IsFor(r.intent, r.bk)'
        BY <3>1, <4>1 DEF IsFor
      <4>4. r.seen # "none" => payments'[r.bk].status # "none"
        BY <1>9, <1>s, <2>1, <4>1 DEF Sound, PayCreate
      <4>3. Sound("pay_store", r)'
        BY <1>l, <1>r, <4>1, <4>2, <4>4 DEF Sound
      <4> QED
        BY <2>1, <3>1, <4>1, <4>3, CallStep
    <3> QED
      BY <2>3, <3>2, <3>3
  <2> QED
    BY <1>9, <2>2, <2>3 DEF PayCreate
<1>10. CASE PayStore(p)
  <2>1. req[p].bk \in Bookings /\ IsFor(req[p].intent, req[p].bk) /\ RowSound(req[p].bk)
    BY <1>10, <1>s, <1>b, <1>l, <1>r DEF Sound, PayStore
  <2> DEFINE b == req[p].bk
             i == req[p].intent
  <2>2. /\ payments'[b].intent = i
        /\ payments'[b].status = Written(req[p].seen, "requires", payments[b].status)
        /\ \A c \in Bookings \ {b} : payments'[c] = payments[c]
        /\ intents' = Issued(i) /\ UNCHANGED <<bookings, events>> /\ Finish(p)
    BY <1>10, <2>1 DEF PayStore, TypeInv, DbTypeOK
  <2>3. i \in Intents
    BY <2>1 DEF IsFor
  <2>4. /\ IntentsGrow /\ IntentsSound' /\ EventsSound'
        /\ i \in Intents /\ intents'[i].booking = b
    <3>1. IntentsGrow /\ IntentsSound' /\ EventsSound'
      BY <1>s, <2>2, <2>3, IssuedGrows
    <3> QED
      BY <2>1, <3>1 DEF IsFor, IntentsGrow
  \* A row loaded as REQUIRES_PAYMENT_METHOD is there still.
  <2>5. payments'[b].status # "none"
    BY <1>10, <1>s, <2>2 DEF Sound, PayStore, Written
  <2>6. RowsGrow
    BY <2>2, <2>3, <2>5 DEF RowsGrow
  <2>7. ASSUME NEW c \in Bookings PROVE RowSound(c)'
    <3>1. RowSound(c)
      BY DEF PayInv
    <3>2. CASE c = b
      BY <2>2, <2>4, <2>5, <3>2, IntentIdsApart DEF RowSound
    <3>3. CASE c # b
      BY <2>2, <2>4, <3>1, <3>3 DEF RowSound, IntentsGrow
    <3> QED
      BY <3>2, <3>3
  <2> QED
    BY <2>2, <2>4, <2>6, <2>7, FinishIsFree, PayStep
<1> QED
  BY <1>1, <1>2, <1>5, <1>6, <1>7, <1>8, <1>9, <1>10 DEF Pay

LEMMA WebhookKeepsPay ==
    ASSUME TypeInv, RowsExist, PayInv, NEW p \in Procs, Webhook(p)
    PROVE  PayKept
<1>s. Sound(pc[p], req[p]) /\ req[p] \in Req /\ StripeTypeOK /\ IntentsSound /\ EventsSound
  BY LocalTypes DEF PayInv, TypeInv
<1>b. pc[p] \in Targeted => req[p].bk \in Bookings
  BY TargetRows
<1> DEFINE Hook == {"hook_seats", "hook_service", "hook_confirm", "hook_refund"}
<1>l. /\ Hook \cup {"hook_lock", "hook_cancel"} \subseteq Targeted
      /\ Hook \cup {"hook_lock"} \subseteq RowLabels \ (SettledLabels \cup CreateLabels)
      /\ Hook \subseteq ChargedLabels /\ "hook_lock" \notin ChargedLabels
      /\ RowLabels \subseteq IntentLabels
      /\ "hook_cancel" \in ChargedLabels \cap RecordLabels
      /\ ChargedLabels \subseteq RowLabels /\ RecordLabels \subseteq SettledLabels
      /\ Hook \cap {"hook_lock", "hook_cancel", "pay_confirm", "pay_create", "pay_store"} = {}
      /\ "hook_cancel" \notin CreateLabels
  BY DEF Labels, Targeted, RowLabels, ChargedLabels, IntentLabels, SettledLabels, RecordLabels,
         CreateLabels
\* The intent is charged at every label past the reading of the event.
<1>h. ASSUME NEW label \in Hook, NEW r, r.settle = "keep", payments[r.bk].intent \in Intents,
             Charged(r.intent, r.bk)
      PROVE  Sound(label, r)
  BY <1>h, <1>l DEF Sound, Charged
<1> HIDE DEF Hook
<1>i. pc[p] \in Hook =>
         /\ req[p].settle = "keep" /\ Charged(req[p].intent, req[p].bk)
         /\ payments[req[p].bk].intent \in Intents
  BY <1>s, <1>l DEF Sound
<1>1. ASSUME NEW e \in events, BeginWebhook(p, e) PROVE PayKept
  <2>1. PICK b \in Bookings :
          /\ payments[b].intent = e.intent
          /\ Goto(p, "hook_lock", [NoReq EXCEPT !.bk = b, !.intent = e.intent,
                                                !.event = e.type])
    BY <1>1 DEF BeginWebhook
  <2> DEFINE r == [NoReq EXCEPT !.bk = b, !.intent = e.intent, !.event = e.type]
  <2>2. /\ Goto(p, "hook_lock", r) /\ r.bk = b /\ r.intent = e.intent
        /\ r.event = e.type /\ r.settle = "keep"
    BY <2>1 DEF NoReq
  <2> HIDE DEF r
  <2>3. e.intent \in Intents /\ e.type \in {"succeeded", "failed"}
    BY <1>s DEF StripeTypeOK, Event, EventType
  <2>4. IsFor(e.intent, b) /\ (e.type = "failed" \/ Charged(e.intent, b))
    BY <1>s, <2>1, <2>3 DEF PayInv, RowSound, IsFor, Charged, EventsSound
  <2>5. Sound("hook_lock", r)
    BY <1>l, <2>1, <2>2, <2>3, <2>4 DEF Sound
  <2>6. UNCHANGED <<bookings, payments, stripe>>
    BY <1>1 DEF BeginWebhook, db
  <2> QED
    BY <2>2, <2>5, <2>6, QuietStep
<1>2. CASE HookLock(p)
  <2> DEFINE b == req[p].bk
  <2>1. /\ UNCHANGED <<bookings, stripe>> /\ b \in Bookings /\ payments[b].intent \in Intents
        /\ req[p].settle = "keep"
        /\ req[p].event = "failed" \/ Charged(req[p].intent, b)
    BY <1>2, <1>s, <1>b, <1>l DEF HookLock, OnlyPayments, Sound
  <2>2. CASE Finish(p) /\ UNCHANGED payments
    BY <2>1, <2>2, QuietFinishes
  <2>3. ASSUME Finish(p), NEW status \in {"failed", "succeeded"}, PayStatus(b, status)
        PROVE  PayKept
    <3>1. RowsGrow /\ \A c \in Bookings : RowSound(c)'
      BY <2>1, <2>3, StatusRow
    <3> QED
      BY <2>1, <2>3, <3>1, RowFinishes
  <2>4. ASSUME NEW label \in Hook, req[p].event # "failed", UNCHANGED payments,
               Goto(p, label, [req[p] EXCEPT
                                 !.seen = payments[b].status,
                                 !.cap = service.max_capacity,
                                 !.want = IF Pending(b) THEN bookings[b].units ELSE {},
                                 !.reserved = Reserved(b)])
        PROVE  PayKept
    <3> DEFINE r == [req[p] EXCEPT !.seen = payments[b].status,
                                   !.cap = service.max_capacity,
                                   !.want = IF Pending(b) THEN bookings[b].units ELSE {},
                                   !.reserved = Reserved(b)]
    <3>1. r.bk = b /\ r.intent = req[p].intent /\ r.settle = "keep" /\ Goto(p, label, r)
      BY <1>s, <2>1, <2>4 DEF Req
    <3> HIDE DEF r
    <3>2. Sound(label, r)
      BY <1>h, <2>1, <2>4, <3>1
    <3> QED
      BY <2>1, <2>4, <3>1, <3>2, QuietStep
  <2>5. CASE req[p].event = "failed"
    BY <1>2, <2>2, <2>3, <2>5 DEF HookLock, HookFailed, PayStatus
  <2>6. CASE req[p].event # "failed"
    <3>1. HookSucceeded(p)
      BY <1>2, <2>6 DEF HookLock
    <3>2. {"hook_refund", "hook_seats", "hook_service"} \subseteq Hook
      BY DEF Hook
    <3> QED
      BY <2>2, <2>3, <2>4, <2>6, <3>1, <3>2 DEF HookSucceeded
  <2> QED
    BY <2>5, <2>6
<1>3. CASE HookSeats(p) \/ HookService(p)
  <2>1. pc[p] \in Hook /\ UNCHANGED <<bookings, payments, stripe>>
    BY <1>3 DEF HookSeats, HookService, Hook, db
  <2>2. PICK label \in {"hook_confirm", "hook_refund"} : Goto(p, label, req[p])
    BY <1>3 DEF HookSeats, HookService
  <2>3. Sound(label, req[p])
    BY <1>h, <1>i, <2>1 DEF Hook
  <2> QED
    BY <2>1, <2>2, <2>3, QuietStep
<1>4. CASE HookConfirm(p)
  <2>1. req[p].bk \in Bookings /\ payments[req[p].bk].intent \in Intents
    BY <1>4, <1>b, <1>i, <1>l DEF HookConfirm, Hook
  <2>2. UNCHANGED stripe /\ RowsGrow /\ \A c \in Bookings : RowSound(c)'
    BY <1>4, <2>1, ConfirmRow DEF HookConfirm
  <2> QED
    BY <1>4, <2>2, RowFinishes DEF HookConfirm
<1>5. CASE HookRefund(p)
  <2>1. /\ req[p].bk \in Bookings /\ Charged(req[p].intent, req[p].bk)
        /\ payments[req[p].bk].intent \in Intents
    BY <1>5, <1>b, <1>i, <1>l DEF HookRefund, Hook
  <2>2. UNCHANGED <<bookings, payments, events>> /\ req[p].intent \in Intents
    BY <1>5, <2>1 DEF HookRefund, db, Charged, IsFor
  <2>3. CASE Finish(p) /\ UNCHANGED intents
    BY <2>2, <2>3, QuietFinishes DEF stripe
  <2>4. ASSUME Refundable(req[p].intent, "auto"), intents' = Refunded(req[p].intent, "auto"),
               Finish(p) \/ Goto(p, "hook_cancel", [req[p] EXCEPT !.settle = "refunded"])
        PROVE  PayKept
    <3>1. /\ IntentsGrow /\ IntentsSound' /\ EventsSound'
          /\ intents'[req[p].intent].refund = "auto"
          /\ intents'[req[p].intent].booking = intents[req[p].intent].booking
          /\ intents'[req[p].intent].status = "succeeded"
      BY <1>s, <2>2, <2>4, RefundedGrows
    <3>2. CASE Finish(p)
      BY <2>2, <3>1, <3>2, CallFinishes
    <3>3. CASE Goto(p, "hook_cancel", [req[p] EXCEPT !.settle = "refunded"])
      <4>1. PICK r : /\ Goto(p, "hook_cancel", r)
                     /\ r.intent = req[p].intent /\ r.settle = "refunded" /\ r.bk = req[p].bk
        BY <1>s, <3>3 DEF Req
      <4>2. Charged(r.intent, r.bk)' /\ Repaid(r.intent, r.bk)' /\ IsFor(r.intent, r.bk)'
        BY <2>1, <3>1, <4>1 DEF IsFor, Charged, Repaid
      <4>3. payments'[r.bk].intent \in Intents /\ payments'[r.bk].status # "none"
        BY <2>1, <2>2, <4>1, NamedRow
      <4>4. Sound("hook_cancel", r)'
        BY <1>l, <4>2, <4>3 DEF Sound
      <4> QED
        BY <2>2, <3>1, <4>1, <4>4, CallStep
    <3> QED
      BY <2>4, <3>2, <3>3
  <2> QED
    BY <1>5, <2>3, <2>4 DEF HookRefund
<1>6. CASE HookCancel(p)
  <2> DEFINE b == req[p].bk
  <2>1. b \in Bookings /\ payments[b].status # "none"
    BY <1>6, <1>s, <1>b, <1>l, NamedRow DEF HookCancel, Sound
  <2>2. PICK freed, refund :
           Cancel(p, b, freed, Written(req[p].seen, "canceled", payments[b].status), refund)
    BY <1>6 DEF HookCancel
  <2>3. UNCHANGED stripe /\ RowsGrow /\ \A c \in Bookings : RowSound(c)'
    BY <2>1, <2>2, CancelRow DEF Written
  <2> QED
    BY <1>6, <2>3, RowFinishes DEF HookCancel
<1> QED
  BY <1>1, <1>2, <1>3, <1>4, <1>5, <1>6 DEF Webhook

LEMMA CancelKeepsPay ==
    ASSUME TypeInv, RowsExist, PayInv, NEW p \in Procs, CancelBooking(p)
    PROVE  PayKept
<1>s. Sound(pc[p], req[p]) /\ req[p] \in Req /\ StripeTypeOK /\ IntentsSound /\ EventsSound
  BY LocalTypes DEF PayInv, TypeInv
<1>b. pc[p] \in Targeted => req[p].bk \in Bookings /\ RowSound(req[p].bk)
  BY TargetRows DEF PayInv
<1>l. /\ {"cancel_lock", "cancel_refund", "cancel_intent", "cancel_commit"} \subseteq Targeted
      /\ {"cancel_refund", "cancel_intent"} \subseteq RowLabels
      /\ RowLabels \subseteq IntentLabels
      /\ {"cancel_lock", "cancel_commit"} \cap IntentLabels = {}
      /\ {"cancel_refund", "cancel_intent", "cancel_commit"} \cap
            (ChargedLabels \cup CreateLabels
                \cup {"hook_lock", "hook_cancel", "pay_confirm", "pay_create", "pay_store"}) = {}
      /\ {"cancel_refund", "cancel_commit"} \subseteq SettledLabels
      /\ {"cancel_lock", "cancel_intent"} \cap SettledLabels = {}
      /\ {"cancel_refund", "cancel_intent"} \cap RecordLabels = {}
      /\ "cancel_commit" \in RecordLabels
  BY DEF Labels, Targeted, RowLabels, ChargedLabels, IntentLabels, SettledLabels, RecordLabels,
         CreateLabels
<1>1. ASSUME NEW b \in Bookings, BeginCancel(p, b) PROVE PayKept
  <2> DEFINE r == [NoReq EXCEPT !.now = clock, !.bk = b]
  <2>1. Goto(p, "cancel_lock", r) /\ r.settle = "keep"
    BY <1>1 DEF BeginCancel, NoReq
  <2> HIDE DEF r
  <2>2. UNCHANGED <<bookings, payments, stripe>>
    BY <1>1 DEF BeginCancel, db
  <2> QED
    BY <2>1, <2>2, FreeSound, QuietStep DEF FreeLabels
<1>2. CASE CancelLock(p)
  <2> DEFINE b == req[p].bk
             pay == payments[b]
             paid == bookings[b].status = "confirmed" /\ pay.status = "succeeded"
             charged == paid /\ bookings[b].total > 0 /\ pay.intent # FreeIntent
             pendingIntent == Pending(b) /\ pay.status \in {"requires", "failed"}
                                         /\ pay.intent # FreeIntent
             r == [req[p] EXCEPT !.intent = pay.intent, !.want = bookings[b].units,
                                 !.settle = IF paid THEN "refunded" ELSE "keep"]
  <2>1. /\ UNCHANGED <<bookings, payments, stripe>>
        /\ b \in Bookings /\ RowSound(b)
    BY <1>2, <1>b, <1>l DEF CancelLock, db
  <2>2. \/ Finish(p)
        \/ charged /\ Goto(p, "cancel_refund", r)
        \/ ~charged /\ pendingIntent /\ Goto(p, "cancel_intent", r)
        \/ ~charged /\ Goto(p, "cancel_commit", r)
    BY <1>2 DEF CancelLock
  <2>3. r.bk = b /\ r.intent = pay.intent /\ r.settle = IF paid THEN "refunded" ELSE "keep"
    BY <1>s DEF Req
  <2>4. bookings[b].total \in Nat /\ pay.intent \in IntentIds
    BY <2>1, RowTypes DEF TypeInv
  <2> HIDE DEF r
  <2>5. charged => Sound("cancel_refund", r)
    <3>1. charged => pay.intent \in Intents /\ IsFor(pay.intent, b) /\ pay.status # "none"
      BY <2>1, <2>4, IntentIdsApart DEF RowSound, IsFor
    <3> QED
      BY <1>l, <2>3, <3>1 DEF Sound
  <2>6. pendingIntent => Sound("cancel_intent", r)
    <3>1. pendingIntent => /\ pay.intent \in Intents /\ IsFor(pay.intent, b) /\ ~paid
      BY <2>1 DEF RowSound, IsFor
    <3> QED
      BY <1>l, <2>3, <3>1 DEF Sound
  <2>7. ~charged => Sound("cancel_commit", r)
    <3>1. ~charged /\ paid => bookings[b].total = 0
      BY <2>1, <2>4 DEF RowSound
    <3>2. paid => pay.status # "none"
      OBVIOUS
    <3> HIDE DEF charged, pendingIntent
    <3> QED
      BY <1>l, <2>3, <3>1, <3>2 DEF Sound
  <2> HIDE DEF charged, pendingIntent
  <2> QED
    BY <2>1, <2>2, <2>5, <2>6, <2>7, QuietStep, QuietFinishes
<1>3. CASE CancelRefund(p)
  <2>1. /\ req[p].bk \in Bookings /\ IsFor(req[p].intent, req[p].bk)
        /\ payments[req[p].bk].status # "none"
    BY <1>3, <1>s, <1>b, <1>l, NamedRow DEF CancelRefund, Sound
  <2>2. UNCHANGED <<bookings, payments, events>> /\ req[p].intent \in Intents
    BY <1>3, <2>1 DEF CancelRefund, db, IsFor
  <2>3. CASE Finish(p) /\ UNCHANGED intents
    BY <2>2, <2>3, QuietFinishes DEF stripe
  <2>4. ASSUME Refundable(req[p].intent, "cancel"), intents' = Refunded(req[p].intent, "cancel"),
               Finish(p) \/ Goto(p, "cancel_commit", req[p])
        PROVE  PayKept
    <3>1. /\ IntentsGrow /\ IntentsSound' /\ EventsSound'
          /\ intents'[req[p].intent].refund = "cancel"
          /\ intents'[req[p].intent].booking = intents[req[p].intent].booking
      BY <1>s, <2>2, <2>4, RefundedGrows
    <3>2. CASE Finish(p)
      BY <2>2, <3>1, <3>2, CallFinishes
    <3>3. CASE Goto(p, "cancel_commit", req[p])
      <4>1. PICK r : r = req[p]
        OBVIOUS
      <4>2. Repaid(r.intent, r.bk)' /\ payments'[r.bk].status # "none"
        BY <2>1, <2>2, <3>1, <4>1 DEF IsFor, Repaid
      <4>3. Sound("cancel_commit", r)'
        BY <1>l, <4>2 DEF Sound
      <4> QED
        BY <2>2, <3>1, <3>3, <4>1, <4>3, CallStep
    <3> QED
      BY <2>4, <3>2, <3>3
  <2> QED
    BY <1>3, <2>3, <2>4 DEF CancelRefund
<1>4. CASE CancelIntent(p)
  <2>1. /\ req[p].bk \in Bookings /\ payments[req[p].bk].status # "none"
        /\ req[p].intent \in Intents /\ req[p].settle = "keep"
    BY <1>4, <1>s, <1>b, <1>l, NamedRow DEF CancelIntent, Sound, IsFor
  <2>2. UNCHANGED <<bookings, payments, events>>
    BY <1>4 DEF CancelIntent, db
  <2>3. IntentsGrow /\ IntentsSound' /\ EventsSound'
    <3>1. UNCHANGED intents => UNCHANGED stripe
      BY <2>2 DEF stripe
    <3> QED
      BY <1>4, <1>s, <2>1, <2>2, <3>1, CanceledGrows, SameStripeGrows DEF CancelIntent
  <2>4. \A settle : [req[p] EXCEPT !.settle = settle].settle = settle
                    /\ [req[p] EXCEPT !.settle = settle].bk = req[p].bk
    BY <1>s DEF Req
  <2>5. PICK r : /\ Goto(p, "cancel_commit", r) /\ r.bk = req[p].bk
                 /\ r.settle \in {"canceled", "keep"}
    BY <1>4, <2>1, <2>4 DEF CancelIntent
  <2>6. payments'[r.bk].status # "none"
    BY <2>1, <2>2, <2>5
  <2>7. Sound("cancel_commit", r)'
    BY <1>l, <2>5, <2>6 DEF Sound
  <2> QED
    BY <2>2, <2>3, <2>5, <2>7, CallStep
<1>5. CASE CancelCommit(p)
  <2> DEFINE b == req[p].bk
             pay == IF req[p].settle = "keep" THEN payments[b].status ELSE "canceled"
  <2>1. b \in Bookings /\ (req[p].settle # "keep" => payments[b].status # "none")
    BY <1>5, <1>s, <1>b, <1>l DEF CancelCommit, Sound
  <2>2. PICK freed, refund : Cancel(p, b, freed, pay, refund)
    BY <1>5 DEF CancelCommit
  <2>4. pay = payments[b].status \/ (pay = "canceled" /\ payments[b].status # "none")
    <3>1. CASE req[p].settle = "keep"
      BY <3>1
    <3>2. CASE req[p].settle # "keep"
      BY <2>1, <3>2
    <3> QED
      BY <3>1, <3>2
  <2> HIDE DEF pay
  <2>3. UNCHANGED stripe /\ RowsGrow /\ \A c \in Bookings : RowSound(c)'
    BY <2>1, <2>2, <2>4, CancelRow
  <2> QED
    BY <1>5, <2>3, RowFinishes DEF CancelCommit
<1> QED
  BY <1>1, <1>2, <1>3, <1>4, <1>5 DEF CancelBooking

LEMMA SweepKeepsPay ==
    ASSUME TypeInv, RowsExist, PayInv, NEW p \in Procs, Sweep(p)
    PROVE  PayKept
<1>s. Sound(pc[p], req[p]) /\ req[p] \in Req /\ StripeTypeOK /\ IntentsSound /\ EventsSound
  BY LocalTypes DEF PayInv, TypeInv
<1>b. pc[p] \in Targeted => req[p].bk \in Bookings /\ RowSound(req[p].bk)
  BY TargetRows DEF PayInv
<1> DEFINE Ask == {"sweep_intent", "sweep_retrieve"}
           Paid == {"sweep_seats", "sweep_service", "sweep_confirm", "sweep_refund"}
<1>l. /\ Ask \cup Paid \cup {"sweep_lock", "sweep_release"} \subseteq Targeted
      /\ Ask \cup Paid \subseteq RowLabels \ SettledLabels
      /\ Paid \subseteq ChargedLabels /\ Ask \cap ChargedLabels = {}
      /\ RowLabels \subseteq IntentLabels /\ RecordLabels \subseteq SettledLabels
      /\ {"sweep_lock", "sweep_next", "sweep_release"} \cap IntentLabels = {}
      /\ ChargedLabels \subseteq RowLabels
      /\ {"sweep_lock", "sweep_next"} \cap SettledLabels = {}
      /\ "sweep_release" \in RecordLabels
      /\ (Ask \cup Paid \cup {"sweep_release"}) \cap
            (CreateLabels \cup {"hook_lock", "hook_cancel", "pay_confirm", "pay_create", "pay_store"}) = {}
  BY DEF Labels, Targeted, RowLabels, ChargedLabels, IntentLabels, SettledLabels, RecordLabels,
         CreateLabels
<1>a. ASSUME NEW label \in Ask, NEW r, r.settle = "keep", payments[r.bk].intent \in Intents,
             IsFor(r.intent, r.bk)
      PROVE  Sound(label, r)
  BY <1>a, <1>l DEF Sound
<1>c. ASSUME NEW label \in Paid, NEW r, r.settle = "keep", payments[r.bk].intent \in Intents,
             Charged(r.intent, r.bk)
      PROVE  Sound(label, r)
  BY <1>c, <1>l DEF Sound, Charged
\* Before the candidate is released, its payment has a row or nothing is settled.
<1>r. ASSUME NEW r, r.settle # "keep" => payments[r.bk].status # "none",
             r.settle = "refunded" => Repaid(r.intent, r.bk)
      PROVE  Sound("sweep_release", r)
  BY <1>r, <1>l DEF Sound
<1>i. pc[p] \in Ask \cup Paid =>
         /\ req[p].settle = "keep" /\ IsFor(req[p].intent, req[p].bk)
         /\ payments[req[p].bk].intent \in Intents /\ payments[req[p].bk].status # "none"
         /\ req[p].bk \in Bookings
  <2>1. pc[p] \in Ask \cup Paid =>
         /\ req[p].settle = "keep" /\ IsFor(req[p].intent, req[p].bk)
         /\ payments[req[p].bk].intent \in Intents
         /\ req[p].bk \in Bookings
    BY <1>s, <1>b, <1>l DEF Sound
  <2> QED
    BY <2>1, NamedRow
<1>p. pc[p] \in Paid => Charged(req[p].intent, req[p].bk)
  BY <1>s, <1>l DEF Sound
<1> HIDE DEF Ask, Paid
<1>1. CASE BeginSweep(p)
  <2> DEFINE candidates == {b \in Bookings : Pending(b) /\ Expired(b, clock)}
             r == [NoReq EXCEPT !.now = clock, !.todo = candidates]
  <2>1. Goto(p, "sweep_next", r) /\ r.settle = "keep"
    BY <1>1 DEF BeginSweep, NoReq
  <2>2. UNCHANGED <<bookings, payments, stripe>>
    BY <1>1 DEF BeginSweep, db
  <2> HIDE DEF r
  <2> QED
    BY <2>1, <2>2, FreeSound, QuietStep DEF FreeLabels
<1>2. CASE SweepNext(p)
  <2>1. PICK b \in req[p].todo :
          Goto(p, "sweep_lock", [req[p] EXCEPT !.bk = b, !.todo = @ \ {b}])
    BY <1>2 DEF SweepNext
  <2> DEFINE r == [req[p] EXCEPT !.bk = b, !.todo = @ \ {b}]
  <2>2. Goto(p, "sweep_lock", r) /\ r.settle = "keep"
    BY <1>2, <1>s, <1>l, <2>1 DEF Req, Sound, SweepNext
  <2>3. UNCHANGED <<bookings, payments, stripe>>
    BY <1>2 DEF SweepNext, db
  <2> HIDE DEF r
  <2> QED
    BY <2>2, <2>3, FreeSound, QuietStep DEF FreeLabels
<1>3. CASE SweepEnd(p) \/ SweepItemError(p)
  <2>1. UNCHANGED <<bookings, payments, stripe>> /\ (Finish(p) \/ NextCandidate(p))
    BY <1>3 DEF SweepEnd, SweepItemError, db
  <2> QED
    BY <2>1, QuietFinishes
<1>4. CASE SweepLock(p)
  <2> DEFINE b == req[p].bk
             pay == payments[b]
             hasIntent == /\ pay.intent \notin {NoIntent, FreeIntent}
                          /\ pay.status # "canceled"
             r == [req[p] EXCEPT !.intent = pay.intent, !.want = bookings[b].units]
  <2>1. /\ UNCHANGED <<bookings, payments, stripe>>
        /\ b \in Bookings /\ RowSound(b) /\ req[p].settle = "keep"
    BY <1>4, <1>s, <1>b, <1>l DEF SweepLock, db, Sound
  <2>2. \/ NextCandidate(p)
        \/ hasIntent /\ Goto(p, "sweep_intent", r)
        \/ Goto(p, "sweep_release", r)
    BY <1>4 DEF SweepLock
  <2>3. r.bk = b /\ r.intent = pay.intent /\ r.settle = "keep"
    BY <1>s, <2>1 DEF Req
  <2>4. hasIntent => pay.intent \in Intents /\ IsFor(pay.intent, b)
    <3>1. pay.intent \in IntentIds
      BY <2>1, RowTypes DEF TypeInv
    <3> QED
      BY <2>1, <3>1, IntentIdsApart DEF RowSound, IsFor
  <2> HIDE DEF r, hasIntent
  <2>5. hasIntent => Sound("sweep_intent", r)
    BY <1>a, <2>3, <2>4 DEF Ask
  <2>6. Sound("sweep_release", r)
    BY <1>r, <2>3
  <2> QED
    BY <2>1, <2>2, <2>5, <2>6, QuietStep, QuietFinishes
<1>5. CASE SweepIntent(p)
  <2>1. pc[p] \in Ask /\ UNCHANGED <<bookings, payments, events>>
    BY <1>5 DEF SweepIntent, Ask, db
  <2>2. req[p].intent \in Intents
    BY <1>i, <2>1 DEF IsFor
  <2>3. IntentsGrow /\ IntentsSound' /\ EventsSound'
    <3>1. UNCHANGED intents => UNCHANGED stripe
      BY <2>1 DEF stripe
    <3> QED
      BY <1>5, <1>s, <2>1, <2>2, <3>1, CanceledGrows, SameStripeGrows DEF SweepIntent
  <2>4. CASE NextCandidate(p)
    BY <2>1, <2>3, <2>4, CallFinishes
  <2>5. CASE Goto(p, "sweep_retrieve", req[p]) /\ UNCHANGED intents
    <3>1. Sound("sweep_retrieve", req[p])
      BY <1>a, <1>i, <2>1 DEF Ask
    <3> QED
      BY <2>1, <2>5, <3>1, QuietStep DEF stripe
  <2>6. CASE Goto(p, "sweep_release", [req[p] EXCEPT !.settle = "canceled"])
    <3>1. PICK r : Goto(p, "sweep_release", r) /\ r.bk = req[p].bk /\ r.settle = "canceled"
      BY <1>s, <2>6 DEF Req
    <3>2. payments'[r.bk].status # "none"
      BY <1>i, <2>1, <3>1
    <3>3. Sound("sweep_release", r)'
      BY <1>l, <3>1, <3>2 DEF Sound
    <3> QED
      BY <2>1, <2>3, <3>1, <3>3, CallStep
  <2> QED
    BY <1>5, <2>4, <2>5, <2>6 DEF SweepIntent, Skip
<1>6. CASE SweepRetrieve(p)
  <2> DEFINE s == [req[p] EXCEPT !.cap = service.max_capacity,
                                 !.reserved = Reserved(req[p].bk)]
             c == [req[p] EXCEPT !.settle = "canceled"]
  <2>1. pc[p] \in Ask /\ UNCHANGED <<bookings, payments, stripe>>
    BY <1>6 DEF SweepRetrieve, Ask, db
  <2>2. /\ s.bk = req[p].bk /\ s.intent = req[p].intent /\ s.settle = "keep"
        /\ c.bk = req[p].bk /\ c.settle = "canceled"
    BY <1>s, <1>i, <2>1 DEF Req
  <2>3. \/ NextCandidate(p)
        \/ Goto(p, "sweep_release", c)
        \/ /\ intents[req[p].intent].status = "succeeded"
           /\ \E label \in {"sweep_seats", "sweep_service"} : Goto(p, label, s)
    BY <1>6 DEF SweepRetrieve, Skip
  <2> HIDE DEF s, c
  <2>4. Sound("sweep_release", c)
    BY <1>r, <1>i, <2>1, <2>2
  <2>5. intents[req[p].intent].status = "succeeded" =>
           Sound("sweep_seats", s) /\ Sound("sweep_service", s)
    BY <1>c, <1>i, <2>1, <2>2 DEF Charged, Paid
  <2> QED
    BY <2>1, <2>3, <2>4, <2>5, QuietStep, QuietFinishes
<1>7. CASE SweepSeats(p) \/ SweepService(p)
  <2>1. pc[p] \in Paid /\ UNCHANGED <<bookings, payments, stripe>>
    BY <1>7 DEF SweepSeats, SweepService, Paid, db
  <2>2. PICK label \in {"sweep_confirm", "sweep_refund"} : Goto(p, label, req[p])
    BY <1>7 DEF SweepSeats, SweepService
  <2>3. Sound(label, req[p])
    BY <1>c, <1>i, <1>p, <2>1 DEF Paid
  <2> QED
    BY <2>1, <2>2, <2>3, QuietStep
<1>8. CASE SweepConfirm(p)
  <2>1. req[p].bk \in Bookings /\ payments[req[p].bk].intent \in Intents
    BY <1>8, <1>i DEF SweepConfirm, Paid
  <2>2. UNCHANGED stripe /\ RowsGrow /\ \A c \in Bookings : RowSound(c)'
    BY <1>8, <2>1, ConfirmRow DEF SweepConfirm
  <2> QED
    BY <1>8, <2>2, RowFinishes DEF SweepConfirm
<1>9. CASE SweepRefund(p)
  <2>1. pc[p] \in Paid /\ UNCHANGED <<bookings, payments, events>>
    BY <1>9 DEF SweepRefund, Paid, db
  <2>2. req[p].intent \in Intents
    BY <1>i, <2>1 DEF IsFor
  <2>3. CASE NextCandidate(p) /\ UNCHANGED intents
    BY <2>1, <2>3, QuietFinishes DEF stripe
  <2>4. ASSUME Refundable(req[p].intent, "auto"), intents' = Refunded(req[p].intent, "auto"),
               \/ NextCandidate(p)
               \/ Goto(p, "sweep_release", [req[p] EXCEPT !.settle = "refunded"])
        PROVE  PayKept
    <3>1. /\ IntentsGrow /\ IntentsSound' /\ EventsSound'
          /\ intents'[req[p].intent].refund = "auto"
          /\ intents'[req[p].intent].booking = intents[req[p].intent].booking
      BY <1>s, <2>1, <2>2, <2>4, RefundedGrows
    <3>2. CASE NextCandidate(p)
      BY <2>1, <3>1, <3>2, CallFinishes
    <3>3. CASE Goto(p, "sweep_release", [req[p] EXCEPT !.settle = "refunded"])
      <4>1. PICK r : /\ Goto(p, "sweep_release", r)
                     /\ r.intent = req[p].intent /\ r.bk = req[p].bk
        BY <1>s, <3>3 DEF Req
      <4>2. Repaid(r.intent, r.bk)' /\ payments'[r.bk].status # "none"
        BY <1>i, <2>1, <3>1, <4>1 DEF IsFor, Repaid
      <4>3. Sound("sweep_release", r)'
        BY <1>l, <4>2 DEF Sound
      <4> QED
        BY <2>1, <3>1, <4>1, <4>3, CallStep
    <3> QED
      BY <2>4, <3>2, <3>3
  <2> QED
    BY <1>9, <2>3, <2>4 DEF SweepRefund
<1>10. CASE SweepRelease(p)
  <2> DEFINE b == req[p].bk
             pay == IF req[p].settle = "keep" THEN payments[b].status ELSE "canceled"
  <2>1. b \in Bookings /\ (req[p].settle # "keep" => payments[b].status # "none")
    BY <1>10, <1>s, <1>b, <1>l DEF SweepRelease, Sound
  <2>2. PICK freed, refund : Cancel(p, b, freed, pay, refund)
    BY <1>10 DEF SweepRelease
  <2>3. pay = payments[b].status \/ (pay = "canceled" /\ payments[b].status # "none")
    <3>1. CASE req[p].settle = "keep"
      BY <3>1
    <3>2. CASE req[p].settle # "keep"
      BY <2>1, <3>2
    <3> QED
      BY <3>1, <3>2
  <2> HIDE DEF pay
  <2>4. UNCHANGED stripe /\ RowsGrow /\ \A c \in Bookings : RowSound(c)'
    BY <2>1, <2>2, <2>3, CancelRow
  <2> QED
    BY <1>10, <2>4, RowFinishes DEF SweepRelease
<1> QED
  BY <1>1, <1>2, <1>3, <1>4, <1>5, <1>6, <1>7, <1>8, <1>9, <1>10 DEF Sweep

LEMMA SellerKeepsPay ==
    ASSUME TypeInv, RowsExist, PayInv, NEW p \in Procs, Seller(p)
    PROVE  PayKept
<1>1. UNCHANGED <<bookings, payments, stripe>>
  BY DEF Seller, BeginUpdate, UpdateCommit, BeginDelete, DeleteCommit, db
<1>2. \/ Finish(p)
      \/ \E cap : Goto(p, "update_commit", [NoReq EXCEPT !.cap = cap])
      \/ \E hist : Goto(p, "delete_commit", [NoReq EXCEPT !.hist = hist])
  BY DEF Seller, BeginUpdate, UpdateCommit, BeginDelete, DeleteCommit
<1>3. \A x : [NoReq EXCEPT !.cap = x].settle = "keep" /\ [NoReq EXCEPT !.hist = x].settle = "keep"
  BY DEF NoReq
<1> QED
  BY <1>1, <1>2, <1>3, FreeSound, QuietStep, QuietFinishes DEF FreeLabels

LEMMA LockSeatKeepsPay ==
    ASSUME TypeInv, RowsExist, PayInv, NEW p \in Procs, LockSeat(p)
    PROVE  PayKept
<1>1. PICK s : req' = [req EXCEPT ![p].want = @ \ {s}]
  BY DEF LockSeat
<1> DEFINE r == [req[p] EXCEPT !.want = @ \ {s}]
<1>2. /\ r.bk = req[p].bk /\ r.intent = req[p].intent /\ r.settle = req[p].settle
      /\ r.event = req[p].event /\ r.seen = req[p].seen /\ r.draft = req[p].draft
  BY LocalTypes DEF TypeInv, Req
<1>3. Goto(p, pc[p], r) /\ UNCHANGED <<bookings, payments, stripe>>
  BY <1>1 DEF LockSeat, Goto, db, TypeInv, LocalsOK, ProcsTypeOK
<1> HIDE DEF r
<1>4. Sound(pc[p], r)
  BY <1>2 DEF PayInv, Sound
<1> QED
  BY <1>3, <1>4, QuietStep

LEMMA PayInvNext == TypeInv /\ RowsExist /\ PayInv /\ [Next]_vars => PayKept
<1> SUFFICES ASSUME TypeInv, RowsExist, PayInv, [Next]_vars PROVE PayKept
  OBVIOUS
<1> USE DEF Procs
<1>1. ASSUME NEW p \in Requests, Create(p) \/ Pay(p) \/ Webhook(p) \/ CancelBooking(p)
      PROVE  PayKept
  BY <1>1, CreateKeepsPay, PayKeepsPay, WebhookKeepsPay, CancelKeepsPay
<1>2. ASSUME NEW p \in Sweepers, Sweep(p) PROVE PayKept
  BY <1>2, SweepKeepsPay
<1>3. ASSUME NEW p \in Sellers, Seller(p) PROVE PayKept
  BY <1>3, SellerKeepsPay
<1>4. ASSUME NEW p \in Procs, LockSeat(p) PROVE PayKept
  BY <1>4, LockSeatKeepsPay
<1>5. ASSUME NEW p \in Procs, Crash(p) PROVE PayKept
  BY <1>5, QuietFinishes DEF Crash, db
<1>6. CASE Stripe
  BY <1>6, StripeKeepsPay
<1>7. CASE Tick \/ UNCHANGED vars
  <2>1. UNCHANGED <<bookings, payments, stripe, pc, req>>
    BY <1>7 DEF Tick, vars, db
  <2>2. PayInv'
    BY <2>1 DEF stripe, PayInv, IntentsSound, EventsSound, RowSound, Sound, IsFor, Charged, Repaid
  <2> QED
    BY <2>1, <2>2, SameRowsGrow, SameStripeGrows DEF PayInv, PayKept
<1> QED
  BY <1>1, <1>2, <1>3, <1>4, <1>5, <1>6, <1>7 DEF Next

LEMMA PayInvInit == Init => PayInv
<1> SUFFICES ASSUME Init PROVE PayInv
  OBVIOUS
<1>1. /\ \A b \in Bookings : payments[b] = NoPayment
      /\ \A p \in Procs : pc[p] = "idle" /\ req[p] = NoReq
      /\ \A i \in Intents : intents[i] = NoSuchIntent
      /\ events = {}
  BY DEF Init, StoreInit, StripeInit
<1>2. IntentsSound /\ EventsSound
  BY <1>1, NullIsNoBooking DEF IntentsSound, EventsSound, NoSuchIntent
<1>3. ASSUME NEW b \in Bookings PROVE RowSound(b)
  <2>1. payments[b].status = "none" /\ payments[b].intent = NoIntent
    BY <1>1 DEF NoPayment
  <2> QED
    BY <2>1, IntentIdsApart DEF RowSound
<1>4. Sound("idle", NoReq)
  BY FreeSound DEF FreeLabels, NoReq
<1> QED
  BY <1>1, <1>2, <1>3, <1>4 DEF PayInv

LEMMA PayInvHolds == Spec => []PayInv
<1>1. TypeInv /\ RowsExist /\ PayInv /\ [Next]_vars => PayInv'
  BY PayInvNext DEF PayKept
<1> QED
  BY <1>1, PayInvInit, TypeInvHolds, RowsExistHolds, PTL DEF Spec

-----------------------------------------------------------------------------
(* Who writes bookings, cancellations, invoices and mails *)

\* What create_booking does to the rows
LEMMA InsertWrites ==
    ASSUME TypeInv, PayInv, NEW p \in Procs, CreateInsert(p)
    PROVE  /\ \A c \in Bookings : \/ bookings'[c] = bookings[c]
                                  \/ /\ bookings[c].status = "none"
                                     /\ bookings'[c] = req[p].draft
                                     /\ req[p].draft.status = "pending"
           /\ UNCHANGED <<payments, cancellations, invoices, mails, stripe>>
<1>1. req[p].draft.status = "pending"
  BY DEF PayInv, Sound, CreateInsert, CreateLabels
<1> QED
  BY <1>1 DEF CreateInsert, db, TypeInv, DbTypeOK

\* A booking that is confirmed now was so before, is free, or is charged.
LEMMA ConfirmedFrom ==
    ASSUME TypeInv, RowsExist, PayInv, [Next]_vars, NEW c \in Bookings,
           bookings'[c].status = "confirmed"
    PROVE  /\ bookings'[c].total = bookings[c].total
           /\ \/ bookings[c].status = "confirmed"
              \/ bookings[c].total = 0
              \/ \E i \in Intents : Charged(i, c)
<1>1. CASE UNCHANGED <<bookings, seats, cancellations, invoices, mails>>
  BY <1>1
<1>2. ASSUME NEW p \in Procs, CreateInsert(p)
      PROVE  bookings'[c] = bookings[c]
  BY <1>2, InsertWrites
<1>3. ASSUME NEW p \in Procs, pc[p] \in ConfirmLabels, Confirm(p, req[p].bk)
      PROVE  /\ bookings'[c].total = bookings[c].total
             /\ \/ bookings[c].status = "confirmed"
                \/ bookings[c].total = 0
                \/ \E i \in Intents : Charged(i, c)
  <2>1. req[p].bk \in Bookings
    BY <1>3, TargetRows DEF ConfirmLabels, Targeted, Labels
  <2>2. CASE c = req[p].bk
    <3>1. bookings[c].total = 0 \/ Charged(req[p].intent, c)
      BY <1>3, <2>2 DEF PayInv, Sound, ConfirmLabels, ChargedLabels
    <3> QED
      BY <1>3, <2>1, <2>2, <3>1, ConfirmWrites DEF Charged, IsFor
  <2>3. CASE c # req[p].bk
    BY <1>3, <2>1, <2>3, ConfirmWrites
  <2> QED
    BY <2>2, <2>3
<1>4. ASSUME NEW p \in Procs, HookCancel(p) \/ CancelCommit(p) \/ SweepRelease(p)
      PROVE  bookings'[c] = bookings[c]
  <2>1. req[p].bk \in Bookings
    BY <1>4, TargetRows DEF HookCancel, CancelCommit, SweepRelease, Targeted, Labels
  <2>2. \E freed, pay, refund : Cancel(p, req[p].bk, freed, pay, refund)
    BY <1>4 DEF HookCancel, CancelCommit, SweepRelease
  <2> QED
    BY <2>1, <2>2, CancelWrites
<1> QED
  BY <1>1, <1>2, <1>3, <1>4, WritersOfNext

\* A booking that has a price is confirmed only after Stripe has charged the
\* customer for it, whichever of pay, webhook and sweeper confirms it.
THEOREM ConfirmedIsCharged == Spec => []ConfirmedHasCharge
<1>1. Init => ConfirmedHasCharge
  BY DEF Init, StoreInit, NoBooking, ConfirmedHasCharge
<1>2. TypeInv /\ RowsExist /\ PayInv /\ ConfirmedHasCharge /\ [Next]_vars => ConfirmedHasCharge'
  <2> SUFFICES ASSUME TypeInv, RowsExist, PayInv, ConfirmedHasCharge, [Next]_vars,
                      NEW c \in Bookings, bookings'[c].status = "confirmed",
                      bookings'[c].total > 0
               PROVE  \E i \in Intents : intents'[i].booking = c /\ intents'[i].status = "succeeded"
    BY DEF ConfirmedHasCharge
  <2>1. bookings[c].total > 0 /\ bookings[c].total # 0
    BY ConfirmedFrom, RowTypes DEF TypeInv
  <2>2. PICK i \in Intents : intents[i].booking = c /\ intents[i].status = "succeeded"
    BY <2>1, ConfirmedFrom DEF ConfirmedHasCharge, Charged, IsFor
  <2> QED
    BY <2>2, PayInvNext DEF PayKept, IntentsGrow
<1> QED
  BY <1>1, <1>2, TypeInvHolds, RowsExistHolds, PayInvHolds, PTL DEF Spec

\* A refund that is on record now was so before or is one at Stripe.
LEMMA AuditFrom ==
    ASSUME TypeInv, RowsExist, PayInv, [Next]_vars, NEW c \in Bookings, cancellations'[c] > 0
    PROVE  cancellations[c] > 0 \/ \E i \in Intents : Repaid(i, c)
<1>1. CASE UNCHANGED <<bookings, seats, cancellations, invoices, mails>>
  BY <1>1
<1>2. ASSUME NEW p \in Procs, CreateInsert(p) PROVE cancellations'[c] = cancellations[c]
  BY <1>2, InsertWrites
<1>3. ASSUME NEW p \in Procs, pc[p] \in ConfirmLabels, Confirm(p, req[p].bk)
      PROVE  cancellations'[c] = cancellations[c]
  BY <1>3 DEF Confirm
<1>4. ASSUME NEW p \in Procs, HookCancel(p) \/ CancelCommit(p) \/ SweepRelease(p)
      PROVE  cancellations[c] > 0 \/ \E i \in Intents : Repaid(i, c)
  <2> DEFINE b == req[p].bk
  <2>1. b \in Bookings /\ pc[p] \in RecordLabels /\ Sound(pc[p], req[p])
    BY <1>4, TargetRows DEF HookCancel, CancelCommit, SweepRelease, Targeted, Labels,
                            RecordLabels, PayInv
  <2>2. PICK freed, pay, refund :
           /\ Cancel(p, b, freed, pay, refund)
           /\ \/ refund \in {0, NoRow}
              \/ /\ refund = bookings[b].total
                 /\ pc[p] = "hook_cancel" \/ req[p].settle = "refunded"
    BY <1>4 DEF HookCancel, CancelCommit, SweepRelease
  <2>3. CASE cancellations'[c] # cancellations[c]
    <3>1. /\ c = b
          /\ \/ cancellations'[c] \in {0, NoRow}
             \/ /\ cancellations'[c] = bookings[b].total
                /\ pc[p] = "hook_cancel" \/ req[p].settle = "refunded"
      <4>1. \A x \in Bookings : cancellations'[x] = cancellations[x]
                                  \/ (x = b /\ cancellations'[x] = refund)
        BY <2>1, <2>2, CancelWrites
      <4> QED
        BY <2>2, <2>3, <4>1
    <3>2. bookings[b].total # 0 /\ (pc[p] = "hook_cancel" \/ req[p].settle = "refunded")
      BY <3>1 DEF NoRow
    <3>3. Repaid(req[p].intent, b)
      BY <2>1, <3>2 DEF Sound
    <3> QED
      BY <3>1, <3>3 DEF Repaid, IsFor
  <2> QED
    BY <2>3
<1> QED
  BY <1>1, <1>2, <1>3, <1>4, WritersOfNext

\* A refund that the audit table states is one at Stripe, although refund calls
\* fail, time out and are repeated.
THEOREM AuditIsReal == Spec => []AuditRefundIsReal
<1>1. Init => AuditRefundIsReal
  BY DEF Init, StoreInit, NoRow, AuditRefundIsReal
<1>2. TypeInv /\ RowsExist /\ PayInv /\ AuditRefundIsReal /\ [Next]_vars => AuditRefundIsReal'
  <2> SUFFICES ASSUME TypeInv, RowsExist, PayInv, AuditRefundIsReal, [Next]_vars,
                      NEW c \in Bookings, cancellations'[c] > 0
               PROVE  \E i \in Intents : intents'[i].booking = c /\ intents'[i].refund # "none"
    BY DEF AuditRefundIsReal
  <2>1. PICK i \in Intents : intents[i].booking = c /\ intents[i].refund # "none"
    BY AuditFrom DEF AuditRefundIsReal, Repaid, IsFor
  <2> QED
    BY <2>1, PayInvNext DEF PayKept, IntentsGrow
<1> QED
  BY <1>1, <1>2, TypeInvHolds, RowsExistHolds, PayInvHolds, PTL DEF Spec

-----------------------------------------------------------------------------
(* Payment rows that say SUCCEEDED, and the mail *)

\* A booking that is cancelled with nothing to settle is not paid: the booking's
\* lock keeps everyone from paying it meanwhile.
UnpaidIfKept(p) == pc[p] \in LiveLabels /\ req[p].settle = "keep" =>
                       payments[req[p].bk].status # "succeeded"

PaidInv == /\ PaidMeansConfirmed
           /\ \A b \in Bookings : bookings[b].status = "confirmed" => b \in invoices
           /\ \A p \in Procs : UnpaidIfKept(p)

\* How a payment row comes to say SUCCEEDED
LEMMA SucceededFrom ==
    ASSUME TypeInv, RowsExist, [Next]_vars, NEW c \in Bookings,
           payments'[c].status = "succeeded"
    PROVE  \/ payments[c].status = "succeeded"
           \/ \E p \in Procs : /\ pc[p] \in ConfirmLabels /\ c = req[p].bk
                               /\ Confirm(p, c)
           \/ \E p \in Procs : /\ pc[p] = "hook_lock" /\ c = req[p].bk
                               /\ Free(bookingLock[c], p)
                               /\ bookings[c].status = "confirmed"
                               /\ UNCHANGED <<bookings, invoices>>
<1>0. DbTypeOK
  BY DEF TypeInv
<1>s. ASSUME NEW b \in Bookings, NEW status, PayStatus(b, status), status # "succeeded"
      PROVE  payments[c].status = "succeeded"
  BY <1>0, <1>s DEF PayStatus, DbTypeOK, Payment
<1>c. ASSUME NEW p \in Procs, pc[p] \in ConfirmLabels, Confirm(p, req[p].bk),
             payments[c].status # "succeeded"
      PROVE  c = req[p].bk
  <2>1. req[p].bk \in Bookings
    BY <1>c, TargetRows DEF ConfirmLabels, Targeted, Labels
  <2> QED
    BY <1>c, <2>1, ConfirmWrites
<1>x. ASSUME NEW p, NEW b \in Bookings, NEW freed, NEW pay, NEW refund,
             Cancel(p, b, freed, pay, refund), pay \in {payments[b].status, "canceled"}
      PROVE  payments[c].status = "succeeded"
  <2>1. /\ payments'[b].status = pay
        /\ \A d \in Bookings \ {b} : payments'[d] = payments[d]
    BY <1>0, <1>x DEF Cancel, DbTypeOK, Payment
  <2>2. CASE c = b
    BY <1>x, <2>1, <2>2
  <2>3. CASE c # b
    BY <2>1, <2>3
  <2> QED
    BY <2>2, <2>3
<1>b. ASSUME NEW p \in Procs, pc[p] \in Targeted PROVE req[p].bk \in Bookings
  BY <1>b, TargetRows
<1>1. ASSUME NEW p \in Procs, Create(p) \/ Seller(p) \/ Crash(p) \/ LockSeat(p)
      PROVE  UNCHANGED payments
  BY <1>1 DEF Create, BeginCreate, CreateLockUser, CreateSeats, CreateSlot, CreateInsert, Seller,
              BeginUpdate, UpdateCommit, BeginDelete, DeleteCommit, Crash, LockSeat, db
<1>2. ASSUME NEW p \in Procs, Pay(p)
      PROVE  \/ payments[c].status = "succeeded"
             \/ pc[p] \in ConfirmLabels /\ Confirm(p, req[p].bk)
  <2>1. \/ UNCHANGED payments
        \/ /\ pc[p] \in {"pay_retrieve", "pay_retrieve_failed"}
           /\ PayStatus(req[p].bk, "canceled") \/ PayStatus(req[p].bk, "requires")
        \/ PayStore(p)
        \/ PayConfirm(p)
    BY <1>2 DEF Pay, BeginPay, PayLock, PayRetrieve, PayReread, PayRetrieveFailed, PayCreate,
                PayGiveUpIntent, db
  <2>2. ASSUME pc[p] \in {"pay_retrieve", "pay_retrieve_failed"},
               PayStatus(req[p].bk, "canceled") \/ PayStatus(req[p].bk, "requires")
        PROVE  payments[c].status = "succeeded"
    BY <1>s, <1>b, <2>2 DEF Targeted, Labels
  <2>3. CASE PayStore(p)
    BY <1>0, <2>3 DEF PayStore, Written, DbTypeOK
  <2> QED
    BY <2>1, <2>2, <2>3 DEF PayConfirm, ConfirmLabels
<1>3. ASSUME NEW p \in Procs, Webhook(p)
      PROVE  \/ payments[c].status = "succeeded"
             \/ pc[p] \in ConfirmLabels /\ Confirm(p, req[p].bk)
             \/ /\ pc[p] = "hook_lock" /\ c = req[p].bk
                /\ Free(bookingLock[c], p) /\ bookings[c].status = "confirmed"
                /\ UNCHANGED <<bookings, invoices>>
  <2>1. CASE HookLock(p)
    <3>1. UNCHANGED <<bookings, invoices>> /\ pc[p] = "hook_lock"
          /\ Free(bookingLock[req[p].bk], p) /\ req[p].bk \in Bookings
      BY <2>1, <1>b DEF HookLock, OnlyPayments, Targeted, Labels
    <3>2. \/ UNCHANGED payments
          \/ PayStatus(req[p].bk, "failed")
          \/ bookings[req[p].bk].status = "confirmed" /\ PayStatus(req[p].bk, "succeeded")
      BY <2>1 DEF HookLock, HookFailed, HookSucceeded, PayStatus
    <3>3. CASE PayStatus(req[p].bk, "failed")
      BY <1>s, <3>1, <3>3
    <3>4. CASE PayStatus(req[p].bk, "succeeded") /\ c # req[p].bk
      BY <1>0, <3>4 DEF PayStatus, DbTypeOK
    <3> QED
      BY <3>1, <3>2, <3>3, <3>4
  <2>2. CASE HookCancel(p)
    <3>1. req[p].bk \in Bookings
      BY <1>b, <2>2 DEF HookCancel, Targeted, Labels
    <3> QED
      BY <1>x, <2>2, <3>1 DEF HookCancel, Written
  <2>3. CASE ~HookLock(p) /\ ~HookCancel(p)
    <3>1. UNCHANGED payments \/ HookConfirm(p)
      BY <1>3, <2>3 DEF Webhook, BeginWebhook, HookSeats, HookService, HookRefund, db
    <3> QED
      BY <3>1 DEF HookConfirm, ConfirmLabels
  <2> QED
    BY <2>1, <2>2, <2>3
<1>4. ASSUME NEW p \in Procs, CancelBooking(p) PROVE payments[c].status = "succeeded"
  <2>1. CASE CancelCommit(p)
    <3>1. req[p].bk \in Bookings
      BY <1>b, <2>1 DEF CancelCommit, Targeted, Labels
    <3> QED
      BY <1>x, <2>1, <3>1 DEF CancelCommit
  <2>2. CASE ~CancelCommit(p)
    <3>1. UNCHANGED payments
      BY <1>4, <2>2 DEF CancelBooking, BeginCancel, CancelLock, CancelRefund, CancelIntent, db
    <3> QED
      BY <3>1
  <2> QED
    BY <2>1, <2>2
<1>5. ASSUME NEW p \in Procs, Sweep(p)
      PROVE  \/ payments[c].status = "succeeded"
             \/ pc[p] \in ConfirmLabels /\ Confirm(p, req[p].bk)
  <2>1. CASE SweepRelease(p)
    <3>1. req[p].bk \in Bookings
      BY <1>b, <2>1 DEF SweepRelease, Targeted, Labels
    <3> QED
      BY <1>x, <2>1, <3>1 DEF SweepRelease
  <2>2. CASE ~SweepRelease(p)
    <3>1. UNCHANGED payments \/ SweepConfirm(p)
      BY <1>5, <2>2 DEF Sweep, BeginSweep, SweepNext, SweepEnd, SweepLock, SweepIntent,
                        SweepRetrieve, SweepSeats, SweepService, SweepRefund, SweepItemError, db
    <3> QED
      BY <3>1 DEF SweepConfirm, ConfirmLabels
  <2> QED
    BY <2>1, <2>2
<1>6. CASE UNCHANGED <<db, mails, locks, pc, req>>
  BY <1>6 DEF db
<1>7. ASSUME NEW p \in Procs, Acts(p) \/ LockSeat(p)
      PROVE  \/ payments[c].status = "succeeded"
             \/ pc[p] \in ConfirmLabels /\ Confirm(p, req[p].bk) /\ c = req[p].bk
             \/ /\ pc[p] = "hook_lock" /\ c = req[p].bk
                /\ Free(bookingLock[c], p) /\ bookings[c].status = "confirmed"
                /\ UNCHANGED <<bookings, invoices>>
  BY <1>1, <1>2, <1>3, <1>4, <1>5, <1>7, <1>c DEF Acts
<1> QED
  BY <1>6, <1>7, NextMoves

\* A payment that is on record as SUCCEEDED is one of a confirmed booking.
LEMMA PaidIsConfirmed ==
    ASSUME SeatInv, RowsExist, PaidInv, [Next]_vars, NEW c \in Bookings,
           payments'[c].status = "succeeded"
    PROVE  bookings'[c].status = "confirmed"
<1>0. TypeInv
  BY DEF SeatInv
<1>b. ASSUME NEW p \in Procs, pc[p] \in Targeted PROVE req[p].bk \in Bookings
  BY <1>0, <1>b, TargetRows
<1>1. CASE payments[c].status = "succeeded"
  <2>1. bookings[c].status = "confirmed"
    BY <1>1 DEF PaidInv, PaidMeansConfirmed
  <2>2. ASSUME NEW p \in Procs, CreateInsert(p) PROVE bookings'[c].status = "confirmed"
    BY <1>0, <2>1, <2>2 DEF CreateInsert, db, TypeInv, DbTypeOK
  <2>3. ASSUME NEW p \in Procs, pc[p] \in ConfirmLabels, Confirm(p, req[p].bk)
        PROVE  bookings'[c].status = "confirmed"
    <3>1. req[p].bk \in Bookings
      BY <1>b, <2>3 DEF ConfirmLabels, Targeted, Labels
    <3> QED
      BY <1>0, <2>1, <2>3, <3>1 DEF Confirm, TypeInv, DbTypeOK, Booking
  <2>4. ASSUME NEW p \in Procs, HookCancel(p) \/ CancelCommit(p) \/ SweepRelease(p)
        PROVE  bookings'[c].status = "confirmed"
    <3>1. req[p].bk \in Bookings
      BY <1>b, <2>4 DEF HookCancel, CancelCommit, SweepRelease, Targeted, Labels
    <3>2. c # req[p].bk
      <4>1. CASE HookCancel(p)
        BY <2>1, <4>1 DEF HookCancel, SeatInv, LocksProtect, BookingProtected, RefundLabels
      <4>2. CASE SweepRelease(p)
        BY <2>1, <4>2
        DEF SweepRelease, SeatInv, LocksProtect, BookingProtected, PendingLabels, Pending
      <4>3. CASE CancelCommit(p) /\ req[p].settle = "keep"
        BY <1>1, <4>3 DEF CancelCommit, PaidInv, UnpaidIfKept, LiveLabels
      <4>4. CASE CancelCommit(p) /\ req[p].settle # "keep"
        <5>1. payments' = [payments EXCEPT ![req[p].bk].status = "canceled"]
          BY <4>4 DEF CancelCommit, Cancel
        <5> QED
          BY <1>0, <3>1, <5>1 DEF TypeInv, DbTypeOK, Payment
      <4> QED
        BY <2>4, <4>1, <4>2, <4>3, <4>4
    <3>3. bookings' = [bookings EXCEPT ![req[p].bk].status = "cancelled"]
      BY <2>4 DEF HookCancel, CancelCommit, SweepRelease, Cancel
    <3> QED
      BY <1>0, <2>1, <3>1, <3>2, <3>3 DEF TypeInv, DbTypeOK
  <2> QED
    BY <2>1, <2>2, <2>3, <2>4, WritersOfNext
<1>2. ASSUME NEW p \in Procs, Confirm(p, c) PROVE bookings'[c].status = "confirmed"
  BY <1>0, <1>2, ConfirmWrites
<1> QED
  BY <1>0, <1>1, <1>2, SucceededFrom

\* Whoever confirms a booking writes its invoice.
LEMMA ConfirmedInInvoices ==
    ASSUME TypeInv, RowsExist, PayInv, PaidInv, [Next]_vars, NEW c \in Bookings,
           bookings'[c].status = "confirmed"
    PROVE  c \in invoices'
<1>1. ASSUME bookings'[c] = bookings[c], invoices \subseteq invoices' PROVE c \in invoices'
  BY <1>1 DEF PaidInv
<1>2. ASSUME NEW p \in Procs, CreateInsert(p) PROVE c \in invoices'
  <2>1. bookings'[c] = bookings[c] /\ UNCHANGED invoices
    BY <1>2, InsertWrites
  <2> QED
    BY <1>1, <2>1
<1>3. ASSUME NEW p \in Procs, pc[p] \in ConfirmLabels, Confirm(p, req[p].bk)
      PROVE  c \in invoices'
  <2>1. req[p].bk \in Bookings
    BY <1>3, TargetRows DEF ConfirmLabels, Targeted, Labels
  <2>2. /\ \A d \in Bookings \ {req[p].bk} : bookings'[d] = bookings[d]
        /\ invoices' = invoices \cup {req[p].bk}
    BY <1>3, <2>1, ConfirmWrites
  <2> QED
    BY <1>1, <2>2
<1>4. ASSUME NEW p \in Procs, HookCancel(p) \/ CancelCommit(p) \/ SweepRelease(p)
      PROVE  c \in invoices'
  <2>1. req[p].bk \in Bookings
    BY <1>4, TargetRows DEF HookCancel, CancelCommit, SweepRelease, Targeted, Labels
  <2>2. /\ bookings' = [bookings EXCEPT ![req[p].bk].status = "cancelled"]
        /\ UNCHANGED invoices
    BY <1>4 DEF HookCancel, CancelCommit, SweepRelease, Cancel
  <2>3. c # req[p].bk
    BY <2>1, <2>2 DEF TypeInv, DbTypeOK, Booking
  <2>4. bookings'[c] = bookings[c]
    BY <2>1, <2>2, <2>3 DEF TypeInv, DbTypeOK
  <2> QED
    BY <1>1, <2>2, <2>4
<1>5. CASE UNCHANGED <<bookings, seats, cancellations, invoices, mails>>
  BY <1>1, <1>5
<1> QED
  BY <1>2, <1>3, <1>4, <1>5, WritersOfNext

\* What a cancellation found under the booking's lock stays so until it commits.
LEMMA UnpaidStays ==
    ASSUME SeatInv, RowsExist, PayInv, PaidInv, [Next]_vars, NEW q \in Procs,
           pc'[q] \in LiveLabels, req'[q].settle = "keep"
    PROVE  payments'[req'[q].bk].status # "succeeded"
<1>0. TypeInv /\ req[q] \in Req
  BY LocalTypes DEF SeatInv, TypeInv
<1>l. LiveLabels \subseteq Targeted
  BY DEF LiveLabels, Targeted, Labels
<1>1. CASE Stays(q)
  <2> DEFINE c == req[q].bk
  <2>1. /\ pc[q] \in LiveLabels /\ req'[q].bk = c /\ c \in Bookings
        /\ payments[c].status # "succeeded" /\ bookingLock[c] = q
    BY <1>0, <1>1, <1>l, TargetRows
    DEF Stays, PaidInv, UnpaidIfKept, SeatInv, LocksProtect, BookingProtected
  <2>2. ASSUME NEW p \in Procs, pc[p] \in ConfirmLabels, c = req[p].bk PROVE FALSE
    <3>1. bookingLock[c] = p
      BY <2>2
      DEF ConfirmLabels, PendingLabels, SeatInv, LocksProtect, BookingProtected
    <3> QED
      BY <2>1, <2>2, <3>1 DEF ConfirmLabels, LiveLabels
  <2>3. ASSUME NEW p \in Procs, pc[p] = "hook_lock", Free(bookingLock[c], p) PROVE FALSE
    BY <2>1, <2>3, NullIsNoProc DEF Free, LiveLabels
  <2> HIDE DEF c
  <2>4. payments'[c].status # "succeeded"
    BY <1>0, <2>1, <2>2, <2>3, SucceededFrom
  <2> QED
    BY <2>1, <2>4
<1>2. CASE Acts(q)
  <2>1. CancelBooking(q)
    <3>1. \A label, r : Goto(q, label, r) => label \in LiveLabels
      BY <1>0, GotoKeeps
    <3>2. LiveLabels \cap (CreateLabels \cup PayLabels \cup HookLabels \cup SweepLabels
                             \cup SellerLabels \cup {"idle"}) = {}
      BY DEF LiveLabels, CreateLabels, PayLabels, HookLabels, SweepLabels, SellerLabels
    <3> QED
      BY <1>2, <3>1, <3>2, WhereTo DEF Acts
  <2>2. CASE CancelLock(q)
    <3>1. UNCHANGED payments /\ pc[q] \in Targeted
      BY <2>2 DEF CancelLock, db, Targeted, Labels
    <3>2. ~Finish(q)
      BY <1>0, FinishKeeps DEF LiveLabels
    <3> DEFINE b == req[q].bk
               paid == bookings[b].status = "confirmed" /\ payments[b].status = "succeeded"
               r == [req[q] EXCEPT !.intent = payments[b].intent,
                                   !.want = bookings[b].units,
                                   !.settle = IF paid THEN "refunded" ELSE "keep"]
    <3>3. \E label : Goto(q, label, r)
      BY <2>2, <3>2 DEF CancelLock
    <3>4. r.bk = b /\ r.settle = IF paid THEN "refunded" ELSE "keep"
      BY <1>0 DEF Req
    <3> HIDE DEF r
    <3>5. req'[q].bk = b /\ ~paid
      BY <1>0, <3>3, <3>4, GotoKeeps
    <3>6. b \in Bookings
      BY <1>0, <3>1, TargetRows
    <3> QED
      BY <3>1, <3>5, <3>6 DEF PaidInv, PaidMeansConfirmed
  <2>3. CASE CancelRefund(q)
    <3>1. UNCHANGED payments /\ pc[q] \in LiveLabels
      BY <2>3 DEF CancelRefund, db, LiveLabels
    <3>2. ~Finish(q)
      BY <1>0, FinishKeeps DEF LiveLabels
    <3>3. Goto(q, "cancel_commit", req[q])
      BY <2>3, <3>2 DEF CancelRefund
    <3>4. req'[q] = req[q]
      BY <1>0, <3>3, GotoKeeps
    <3> QED
      BY <3>1, <3>4 DEF PaidInv, UnpaidIfKept
  <2>4. CASE CancelIntent(q)
    <3>1. UNCHANGED payments /\ pc[q] = "cancel_intent"
      BY <2>4 DEF CancelIntent, db
    <3>2. req[q].settle = "keep"
      BY <3>1 DEF PayInv, Sound, SettledLabels, RecordLabels
    <3>3. PICK r : Goto(q, "cancel_commit", r) /\ r.bk = req[q].bk
      <4> DEFINE s(settle) == [req[q] EXCEPT !.settle = settle]
      <4>1. \A settle : s(settle).bk = req[q].bk
        BY <1>0 DEF Req
      <4>2. \/ Goto(q, "cancel_commit", req[q])
            \/ \E settle : Goto(q, "cancel_commit", s(settle))
        BY <2>4 DEF CancelIntent
      <4> QED
        BY <4>1, <4>2
    <3>4. req'[q].bk = req[q].bk
      BY <1>0, <3>3, GotoKeeps
    <3> QED
      BY <3>1, <3>2, <3>4 DEF PaidInv, UnpaidIfKept, LiveLabels
  <2>5. CASE CancelCommit(q) \/ \E b \in Bookings : BeginCancel(q, b)
    <3>1. \E label \in {"idle", "cancel_lock"} : \E r : Goto(q, label, r)
      BY <2>5 DEF CancelCommit, BeginCancel, Finish
    <3> QED
      BY <1>0, <3>1, GotoKeeps DEF LiveLabels
  <2> QED
    BY <2>1, <2>2, <2>3, <2>4, <2>5 DEF CancelBooking
<1> QED
  BY <1>0, <1>1, <1>2, StaysOrActs

LEMMA PaidInvHolds == ASSUME RereadAtOnce PROVE Spec => []PaidInv
<1>1. Init => PaidInv
  BY DEF Init, StoreInit, NoPayment, NoBooking, PaidInv, PaidMeansConfirmed, UnpaidIfKept, LiveLabels
<1>2. SeatInv /\ RowsExist /\ PayInv /\ PaidInv /\ [Next]_vars => PaidInv'
  <2> SUFFICES ASSUME SeatInv, RowsExist, PayInv, PaidInv, [Next]_vars PROVE PaidInv'
    OBVIOUS
  <2>1. \A b \in Bookings : bookings'[b].status = "confirmed" => b \in invoices'
    BY ConfirmedInInvoices DEF SeatInv
  <2>2. PaidMeansConfirmed'
    BY <2>1, PaidIsConfirmed DEF PaidMeansConfirmed
  <2>3. \A p \in Procs : UnpaidIfKept(p)'
    BY UnpaidStays DEF UnpaidIfKept
  <2> QED
    BY <2>1, <2>2, <2>3 DEF PaidInv
<1> QED
  BY <1>1, <1>2, SeatInvHolds, RowsExistHolds, PayInvHolds, PTL DEF Spec

\* Late events, sweeps and retries leave no payment row that says SUCCEEDED
\* behind a booking that was cancelled, nor one without an invoice.
THEOREM PaidIsFinal == ASSUME RereadAtOnce PROVE Spec => []PaidMeansConfirmed
<1>1. PaidInv => PaidMeansConfirmed
  BY DEF PaidInv
<1> QED
  BY <1>1, PaidInvHolds, PTL

\* Which e-mails a booking has caused shows in its status.
MailsFollow(b) ==
    /\ mails["invoice"][b] <= 1 /\ mails["cancellation"][b] <= 1
    /\ bookings[b].status \in {"none", "pending"} => mails["invoice"][b] = 0
    /\ bookings[b].status # "cancelled" => mails["cancellation"][b] = 0

MailInv == \A b \in Bookings : MailsFollow(b)

LEMMA MailInvNext ==
    ASSUME SeatInv, RowsExist, PayInv, MailInv, [Next]_vars, NEW c \in Bookings
    PROVE  MailsFollow(c)'
<1>0. TypeInv
  BY DEF SeatInv
<1>m. /\ mails["invoice"] \in [Bookings -> Nat] /\ mails["cancellation"] \in [Bookings -> Nat]
      /\ mails \in [MailKinds -> [Bookings -> Nat]]
  BY <1>0 DEF TypeInv, DbTypeOK, MailKinds
<1>c. MailsFollow(c)
  BY DEF MailInv
<1>1. CASE UNCHANGED <<bookings, seats, cancellations, invoices, mails>>
  BY <1>1, <1>c DEF MailsFollow
<1>2. ASSUME NEW p \in Procs, CreateInsert(p) PROVE MailsFollow(c)'
  <2>1. /\ UNCHANGED mails
        /\ \/ bookings'[c] = bookings[c]
           \/ bookings[c].status = "none" /\ bookings'[c].status = "pending"
    BY <1>0, <1>2, InsertWrites
  <2> QED
    BY <1>c, <2>1 DEF MailsFollow
<1>3. ASSUME NEW p \in Procs, pc[p] \in ConfirmLabels, Confirm(p, req[p].bk)
      PROVE  MailsFollow(c)'
  <2> DEFINE b == req[p].bk
  <2>1. b \in Bookings
    BY <1>0, <1>3, TargetRows DEF ConfirmLabels, Targeted, Labels
  <2>2. Pending(b)
    BY <1>3 DEF ConfirmLabels, PendingLabels, SeatInv, LocksProtect, BookingProtected
  <2>3. /\ bookings'[b].status = "confirmed"
        /\ \A d \in Bookings \ {b} : bookings'[d] = bookings[d]
        /\ Enqueue("invoice", b)
    BY <1>0, <1>3, <2>1, ConfirmWrites
  <2>4. /\ mails'["invoice"][b] = mails["invoice"][b] + 1
        /\ mails'["cancellation"] = mails["cancellation"]
        /\ \A d \in Bookings \ {b} : mails'["invoice"][d] = mails["invoice"][d]
    BY <1>m, <2>1, <2>3 DEF Enqueue, MailKinds
  <2>5. CASE c = b
    BY <1>c, <2>2, <2>3, <2>4, <2>5 DEF MailsFollow, Pending
  <2>6. CASE c # b
    BY <1>c, <2>3, <2>4, <2>6 DEF MailsFollow
  <2> QED
    BY <2>5, <2>6
<1>4. ASSUME NEW p \in Procs, HookCancel(p) \/ CancelCommit(p) \/ SweepRelease(p)
      PROVE  MailsFollow(c)'
  <2> DEFINE b == req[p].bk
  <2>1. b \in Bookings
    BY <1>0, <1>4, TargetRows DEF HookCancel, CancelCommit, SweepRelease, Targeted, Labels
  <2>2. bookings' = [bookings EXCEPT ![b].status = "cancelled"]
    BY <1>4 DEF HookCancel, CancelCommit, SweepRelease, Cancel
  <2>3. /\ bookings'[b].status = "cancelled"
        /\ \A d \in Bookings \ {b} : bookings'[d] = bookings[d]
    BY <1>0, <2>1, <2>2 DEF TypeInv, DbTypeOK, Booking
  <2>4. CASE CancelCommit(p)
    <3>1. Live(b)
      BY <2>4 DEF CancelCommit, LiveLabels, SeatInv, LocksProtect, BookingProtected
    <3>2. Enqueue("cancellation", b)
      BY <2>4 DEF CancelCommit
    <3>3. /\ mails'["cancellation"][b] = mails["cancellation"][b] + 1
          /\ mails'["invoice"] = mails["invoice"]
          /\ \A d \in Bookings \ {b} : mails'["cancellation"][d] = mails["cancellation"][d]
      BY <1>m, <2>1, <3>2 DEF Enqueue, MailKinds
    <3>4. CASE c = b
      BY <1>c, <2>3, <3>1, <3>3, <3>4 DEF MailsFollow, Live
    <3>5. CASE c # b
      BY <1>c, <2>3, <3>3, <3>5 DEF MailsFollow
    <3> QED
      BY <3>4, <3>5
  <2>5. CASE HookCancel(p) \/ SweepRelease(p)
    <3>1. UNCHANGED mails
      BY <2>5 DEF HookCancel, SweepRelease
    <3>2. CASE c = b
      BY <1>c, <2>3, <3>1, <3>2 DEF MailsFollow
    <3>3. CASE c # b
      BY <1>c, <2>3, <3>1, <3>3 DEF MailsFollow
    <3> QED
      BY <3>2, <3>3
  <2> QED
    BY <1>4, <2>4, <2>5
<1> QED
  BY <1>1, <1>2, <1>3, <1>4, WritersOfNext

LEMMA MailInvHolds == ASSUME RereadAtOnce PROVE Spec => []MailInv
<1>1. Init => MailInv
  <2> SUFFICES ASSUME Init, NEW b \in Bookings PROVE MailsFollow(b)
    BY DEF MailInv
  <2>1. mails["invoice"][b] = 0 /\ mails["cancellation"][b] = 0
    BY DEF Init, StoreInit, MailKinds
  <2> QED
    BY <2>1 DEF MailsFollow
<1>2. SeatInv /\ RowsExist /\ PayInv /\ MailInv /\ [Next]_vars => MailInv'
  BY MailInvNext DEF MailInv
<1> QED
  BY <1>1, <1>2, SeatInvHolds, RowsExistHolds, PayInvHolds, PTL DEF Spec

\* Duplicate events, reconciling requests and sweeps send a booking's invoice
\* and its cancellation e-mail at most once each.
THEOREM MailedOnceEach == ASSUME RereadAtOnce PROVE Spec => []MailOnce
<1>1. MailInv => MailOnce
  BY DEF MailInv, MailsFollow, MailOnce, MailKinds
<1> QED
  BY <1>1, MailInvHolds, PTL

-----------------------------------------------------------------------------
(* Automatic refunds of reserved seating *)

\* With reserved seats, what the webhook refunds automatically was over, and
\* nobody has come to count the tickets of the event.
RefundPathOK(p) ==
    /\ pc[p] \notin {"hook_service", "sweep_service", "sweep_refund"}
    /\ pc[p] \in RefundLabels => bookings[req[p].bk].status = "cancelled"

AutoInv == AutoRefundIsFinal /\ \A p \in Procs : RefundPathOK(p)

\* Who refunds automatically
LEMMA AutoFrom ==
    ASSUME TypeInv, [Next]_vars, NEW i \in Intents, intents'[i].refund = "auto"
    PROVE  \/ intents[i].refund = "auto"
           \/ \E p \in Procs : /\ pc[p] \in {"hook_refund", "sweep_refund"}
                               /\ i = req[p].intent
<1>0. StripeTypeOK
  BY DEF TypeInv
<1>1. ASSUME UNCHANGED stripe PROVE intents[i].refund = "auto"
  BY <1>1 DEF stripe
<1>2. ASSUME NEW j, \/ intents' = Issued(j) \/ intents' = Canceled(j)
                    \/ intents' = Refunded(j, "cancel")
                    \/ Submit(j) \/ Settle(j) \/ Decline(j) \/ StripeCancels(j)
      PROVE  intents[i].refund = "auto"
  BY <1>0, <1>2 DEF StripeTypeOK, Intent, Issued, Canceled, Refunded, Submit, Settle, Decline,
                    StripeCancels
<1>3. ASSUME NEW b, NEW first, NEW j, intents' = Created(b, first, j)
      PROVE  intents[i].refund = "auto"
  <2> DEFINE new == [NoSuchIntent EXCEPT !.status = "open", !.booking = b, !.first = first]
  <2>1. new.refund = "none"
    BY DEF NoSuchIntent
  <2> HIDE DEF new
  <2>2. intents' = intents \/ intents' = [intents EXCEPT ![j] = new]
    BY <1>3 DEF Created, new
  <2> QED
    BY <1>0, <2>1, <2>2 DEF StripeTypeOK
<1>4. ASSUME NEW p, intents' = Refunded(req[p].intent, "auto")
      PROVE  intents[i].refund = "auto" \/ i = req[p].intent
  BY <1>0, <1>4 DEF StripeTypeOK, Refunded
<1>c. ASSUME NEW p \in Procs, Create(p) \/ Seller(p) \/ LockSeat(p) \/ Crash(p)
      PROVE  UNCHANGED stripe
  BY <1>c DEF Create, BeginCreate, CreateLockUser, CreateSeats, CreateSlot, CreateInsert, Seller,
              BeginUpdate, UpdateCommit, BeginDelete, DeleteCommit, LockSeat, Crash
<1>p. ASSUME NEW p \in Procs, Pay(p) PROVE intents[i].refund = "auto"
  <2>1. CASE PayCreate(p)
    <3>1. \/ UNCHANGED stripe
          \/ \E j : intents' = Created(req[p].bk, req[p].seen = "none", j)
      BY <2>1 DEF PayCreate, stripe
    <3> QED
      BY <1>1, <1>3, <3>1
  <2>2. CASE PayStore(p)
    BY <1>2, <2>2 DEF PayStore
  <2>3. CASE ~PayCreate(p) /\ ~PayStore(p)
    <3>1. UNCHANGED stripe
      BY <1>p, <2>3
      DEF Pay, BeginPay, PayLock, PayRetrieve, PayReread, PayRetrieveFailed, PayConfirm, Confirm,
          PayGiveUpIntent, OnlyPayments
    <3> QED
      BY <1>1, <3>1
  <2> QED
    BY <2>1, <2>2, <2>3
<1>h. ASSUME NEW p \in Procs, Webhook(p)
      PROVE  intents[i].refund = "auto" \/ (pc[p] = "hook_refund" /\ i = req[p].intent)
  <2>1. CASE HookRefund(p)
    BY <1>4, <2>1 DEF HookRefund
  <2>2. CASE ~HookRefund(p)
    <3>1. UNCHANGED stripe
      BY <1>h, <2>2
      DEF Webhook, BeginWebhook, HookLock, HookSeats, HookService, HookConfirm, HookCancel,
          Confirm, Cancel, OnlyPayments
    <3> QED
      BY <1>1, <3>1
  <2> QED
    BY <2>1, <2>2
<1>x. ASSUME NEW p \in Procs, CancelBooking(p) PROVE intents[i].refund = "auto"
  <2>1. CASE CancelRefund(p) \/ CancelIntent(p)
    BY <1>2, <2>1 DEF CancelRefund, CancelIntent
  <2>2. CASE ~CancelRefund(p) /\ ~CancelIntent(p)
    <3>1. UNCHANGED stripe
      BY <1>x, <2>2 DEF CancelBooking, BeginCancel, CancelLock, CancelCommit, Cancel
    <3> QED
      BY <1>1, <3>1
  <2> QED
    BY <2>1, <2>2
<1>w. ASSUME NEW p \in Procs, Sweep(p)
      PROVE  intents[i].refund = "auto" \/ (pc[p] = "sweep_refund" /\ i = req[p].intent)
  <2>1. CASE SweepRefund(p)
    BY <1>4, <2>1 DEF SweepRefund
  <2>2. CASE SweepIntent(p)
    BY <1>2, <2>2 DEF SweepIntent
  <2>3. CASE ~SweepRefund(p) /\ ~SweepIntent(p)
    <3>1. UNCHANGED stripe
      BY <1>w, <2>3
      DEF Sweep, BeginSweep, SweepNext, SweepEnd, SweepLock, SweepRetrieve, SweepSeats,
          SweepService, SweepConfirm, SweepRelease, SweepItemError, Confirm, Cancel
    <3> QED
      BY <1>1, <3>1
  <2> QED
    BY <2>1, <2>2, <2>3
<1>5. ASSUME NEW p \in Procs, Acts(p) \/ LockSeat(p)
      PROVE  \/ intents[i].refund = "auto"
             \/ pc[p] \in {"hook_refund", "sweep_refund"} /\ i = req[p].intent
  BY <1>1, <1>5, <1>c, <1>p, <1>h, <1>x, <1>w DEF Acts
<1>6. CASE Stripe
  BY <1>2, <1>6 DEF Stripe
<1>7. CASE Tick \/ UNCHANGED vars
  BY <1>1, <1>7 DEF Tick, vars
<1>8. CASE ~(Stripe \/ Tick \/ UNCHANGED vars)
  <2>1. \E p \in Procs : Acts(p) \/ LockSeat(p)
    BY <1>8 DEF Next, Procs, Acts
  <2> QED
    BY <1>5, <2>1
<1> QED
  BY <1>6, <1>7, <1>8

\* The steps that lead to the labels of a refund
LEMMA RefundPathNext ==
    ASSUME UnitMode, SeatInv, RowsExist, AutoInv, [Next]_vars, NEW q \in Procs
    PROVE  RefundPathOK(q)'
<1>0. TypeInv /\ req[q] \in Req
  BY LocalTypes DEF SeatInv, TypeInv
<1>q. RefundPathOK(q)
  BY DEF AutoInv
<1> DEFINE Path == {"hook_service", "sweep_service", "sweep_refund"}
<1>1. CASE Stays(q)
  <2>1. pc'[q] \notin Path
    BY <1>1, <1>q DEF Stays, RefundPathOK
  <2>2. ASSUME pc'[q] \in RefundLabels PROVE bookings'[req'[q].bk].status = "cancelled"
    <3>1. /\ bookings[req[q].bk].status = "cancelled" /\ req'[q].bk = req[q].bk
          /\ pc[q] \in Targeted
      BY <1>1, <1>q, <2>2 DEF Stays, RefundPathOK, RefundLabels, Targeted, Labels
    <3>2. req[q].bk \in Bookings
      BY <1>0, <3>1, TargetRows
    <3> QED
      BY <3>1, <3>2, NextRevivesNone DEF NoRevival
  <2> QED
    BY <2>1, <2>2 DEF RefundPathOK
<1>2. CASE Acts(q)
  <2>g. ASSUME NEW label, NEW r, Goto(q, label, r), label \notin Path \cup RefundLabels
        PROVE  RefundPathOK(q)'
    BY <1>0, <2>g, GotoKeeps DEF RefundPathOK
  <2>1. CASE Create(q) \/ Pay(q) \/ CancelBooking(q) \/ Seller(q) \/ Crash(q)
    <3>1. (CreateLabels \cup PayLabels \cup CancelLabels \cup SellerLabels \cup {"idle"})
             \cap (Path \cup RefundLabels) = {}
      BY DEF CreateLabels, PayLabels, CancelLabels, SellerLabels, RefundLabels
    <3> QED
      BY <2>1, <2>g, <3>1, WhereTo
  <2>2. CASE Webhook(q)
    <3>1. CASE HookLock(q)
      <4> DEFINE b == req[q].bk
                 next == IF ~Pending(b) THEN "hook_refund" ELSE "hook_seats"
                 r == [req[q] EXCEPT !.seen = payments[b].status,
                                     !.cap = service.max_capacity,
                                     !.want = IF Pending(b) THEN bookings[b].units ELSE {},
                                     !.reserved = Reserved(b)]
      <4>1. pc[q] \in Targeted /\ UNCHANGED bookings
        BY <3>1 DEF HookLock, OnlyPayments, Targeted, Labels
      <4>2. b \in Bookings /\ Exists(b) /\ bookings[b].status \in BookingStatus
        BY <1>0, <4>1, TargetRows DEF TypeInv, DbTypeOK, Booking
      <4>3. \/ Finish(q)
            \/ bookings[b].status # "confirmed" /\ Goto(q, next, r)
        BY <3>1 DEF HookLock, HookFailed, HookSucceeded
      <4>4. CASE Finish(q)
        BY <2>g, <4>4 DEF Finish, RefundLabels
      <4>5. CASE bookings[b].status # "confirmed" /\ Goto(q, next, r)
        <5>1. r.bk = b
          BY <1>0 DEF Req
        <5> HIDE DEF r
        <5>2. pc'[q] = next /\ req'[q].bk = b
          BY <1>0, <4>5, <5>1, GotoKeeps
        <5>3. next = "hook_refund" => bookings[b].status = "cancelled"
          BY <4>2, <4>5 DEF Pending, Exists, BookingStatus
        <5> QED
          BY <4>1, <5>2, <5>3 DEF RefundPathOK, RefundLabels
      <4> HIDE DEF next, r
      <4> QED
        BY <4>3, <4>4, <4>5
    <3>2. CASE HookSeats(q)
      <4>1. bookings[req[q].bk].units \subseteq req[q].reserved
        BY <3>2 DEF HookSeats, SeatInv, LocksProtect, BookingProtected, PendingLabels,
                    ReservedLabels
      <4>2. Goto(q, "hook_confirm", req[q])
        BY <3>2, <4>1 DEF HookSeats
      <4> QED
        BY <2>g, <4>2 DEF RefundLabels
    <3>3. CASE HookRefund(q)
      <4>1. /\ UNCHANGED bookings
            /\ bookings[req[q].bk].status = "cancelled"
        BY <3>3, <1>q DEF HookRefund, db, RefundPathOK, RefundLabels
      <4> DEFINE r == [req[q] EXCEPT !.settle = "refunded"]
      <4>2. Finish(q) \/ Goto(q, "hook_cancel", r)
        BY <3>3 DEF HookRefund
      <4>3. r.bk = req[q].bk
        BY <1>0 DEF Req
      <4> HIDE DEF r
      <4>4. CASE Goto(q, "hook_cancel", r)
        BY <1>0, <4>1, <4>3, <4>4, GotoKeeps DEF RefundPathOK
      <4>5. CASE Finish(q)
        BY <2>g, <4>5 DEF Finish, RefundLabels
      <4> QED
        BY <4>2, <4>4, <4>5
    <3>4. CASE HookService(q)
      BY <3>4, <1>q DEF HookService, RefundPathOK
    <3>5. CASE HookConfirm(q) \/ HookCancel(q) \/ \E e \in events : BeginWebhook(q, e)
      <4>1. \E label \in {"idle", "hook_lock"} : \E r : Goto(q, label, r)
        BY <3>5 DEF HookConfirm, HookCancel, BeginWebhook, Finish
      <4> QED
        BY <2>g, <4>1 DEF RefundLabels
    <3> QED
      BY <2>2, <3>1, <3>2, <3>3, <3>4, <3>5 DEF Webhook
  <2>3. CASE Sweep(q)
    <3>1. CASE SweepRetrieve(q)
      <4>1. \E label \in {"sweep_release", "sweep_seats", "sweep_next"} : \E r : Goto(q, label, r)
        BY <3>1 DEF SweepRetrieve, Skip, NextCandidate
      <4> QED
        BY <2>g, <4>1 DEF RefundLabels
    <3>2. CASE SweepSeats(q)
      <4>1. bookings[req[q].bk].units \subseteq req[q].reserved
        BY <3>2 DEF SweepSeats, SeatInv, LocksProtect, BookingProtected, PendingLabels,
                    ReservedLabels
      <4>2. Goto(q, "sweep_confirm", req[q])
        BY <3>2, <4>1 DEF SweepSeats
      <4> QED
        BY <2>g, <4>2 DEF RefundLabels
    <3>3. CASE SweepService(q) \/ SweepRefund(q)
      BY <3>3, <1>q DEF SweepService, SweepRefund, RefundPathOK
    <3>4. CASE ~(SweepRetrieve(q) \/ SweepSeats(q) \/ SweepService(q) \/ SweepRefund(q))
      <4>1. \E label \in {"idle", "sweep_next", "sweep_lock", "sweep_intent", "sweep_retrieve",
                          "sweep_release"} : \E r : Goto(q, label, r)
        BY <2>3, <3>4
        DEF Sweep, BeginSweep, SweepNext, SweepEnd, SweepLock, SweepIntent, SweepConfirm,
            SweepRelease, SweepItemError, Skip, NextCandidate, Finish
      <4> QED
        BY <2>g, <4>1 DEF RefundLabels
    <3> QED
      BY <3>1, <3>2, <3>3, <3>4
  <2> QED
    BY <1>2, <2>1, <2>2, <2>3 DEF Acts
<1> QED
  BY <1>0, <1>1, <1>2, StaysOrActs

LEMMA AutoInvNext ==
    ASSUME UnitMode, SeatInv, RowsExist, PayInv, AutoInv, [Next]_vars
    PROVE  AutoInv'
<1>0. TypeInv
  BY DEF SeatInv
<1>1. ASSUME NEW i \in Intents, intents'[i].refund = "auto"
      PROVE  bookings'[intents'[i].booking].status = "cancelled"
  <2>1. /\ intents[i].booking \in Bookings
        /\ bookings[intents[i].booking].status = "cancelled"
    <3>1. CASE intents[i].refund = "auto"
      BY <3>1 DEF PayInv, IntentsSound, AutoInv, AutoRefundIsFinal
    <3>2. ASSUME NEW p \in Procs, pc[p] \in {"hook_refund", "sweep_refund"}, i = req[p].intent
          PROVE  /\ intents[i].booking \in Bookings
                 /\ bookings[intents[i].booking].status = "cancelled"
      <4>1. pc[p] = "hook_refund" /\ bookings[req[p].bk].status = "cancelled"
        BY <3>2 DEF AutoInv, RefundPathOK, RefundLabels
      <4>2. intents[i].booking = req[p].bk
        BY <3>2, <4>1 DEF PayInv, Sound, IntentLabels, RowLabels, ChargedLabels, IsFor
      <4>3. req[p].bk \in Bookings
        BY <1>0, <4>1, TargetRows DEF Targeted, Labels
      <4> QED
        BY <4>1, <4>2, <4>3
    <3> QED
      BY <1>0, <1>1, <3>1, <3>2, AutoFrom
  <2>2. intents'[i].booking = intents[i].booking
    BY <1>0, <2>1, PayInvNext DEF PayKept, IntentsGrow
  <2> QED
    BY <2>1, <2>2, NextRevivesNone DEF NoRevival
<1>2. AutoRefundIsFinal'
  BY <1>1 DEF AutoRefundIsFinal
<1> QED
  BY <1>2, RefundPathNext DEF AutoInv

\* The automatic refund of a reserved-seat booking is final: whatever is
\* delivered, asked for or swept later, that booking stays cancelled.
THEOREM AutoRefundStays == ASSUME RereadAtOnce, UnitMode PROVE Spec => []AutoRefundIsFinal
<1>1. Init => AutoInv
  BY DEF Init, StoreInit, StripeInit, NoSuchIntent, AutoInv, AutoRefundIsFinal, RefundPathOK,
         RefundLabels
<1>2. SeatInv /\ RowsExist /\ PayInv /\ AutoInv /\ [Next]_vars => AutoInv'
  BY AutoInvNext
<1>3. AutoInv => AutoRefundIsFinal
  BY DEF AutoInv
<1> QED
  BY <1>1, <1>2, <1>3, SeatInvHolds, RowsExistHolds, PayInvHolds, PTL DEF Spec
=============================================================================
