------------------------- MODULE TicketSystemProofs -------------------------
(***************************************************************************)
(* Theorems about TicketSystem, for every value of its constants.          *)
(***************************************************************************)
EXTENDS TicketSystem, TLAPS

-----------------------------------------------------------------------------
(* The building blocks of the steps keep the types. *)

LEMMA ConstantTypes ==
    /\ MaxTickets \in Nat
    /\ \A q \in 0..MaxTickets : q \in Nat
    /\ \A total \in Prices : total \in Nat
    /\ \A cap \in Capacities : cap \in Nat
BY NumbersAssumption

LEMMA IdleReqType == NoReq \in Req /\ NoBooking \in Booking
BY NullIsNoBooking DEF NoReq, Req, NoBooking, Booking, BookingStatus, IntentIds,
      PaymentStatus

\* Labels at which a process works on a booking
Targeted == Labels \ {"idle", "create_user", "create_seats", "create_slot",
                      "create_insert", "sweep_next", "update_commit", "delete_commit"}

LocalsOK == /\ ProcsTypeOK
            /\ \A p \in Procs : pc[p] \in Targeted => req[p].bk \in Bookings

LEMMA GotoType ==
    ASSUME LocalsOK, NEW p \in Procs, NEW label \in Labels, NEW r \in Req,
           label \in Targeted => r.bk \in Bookings,
           Goto(p, label, r)
    PROVE  LocalsOK'
BY DEF LocalsOK, ProcsTypeOK, Goto

LEMMA ReleaseType ==
    ASSUME LocksTypeOK, NEW p \in Procs, Release(p)
    PROVE  LocksTypeOK'
BY DEF LocksTypeOK, Release

LEMMA FinishType ==
    ASSUME LocksTypeOK, LocalsOK, NEW p \in Procs, Finish(p)
    PROVE  LocksTypeOK' /\ LocalsOK'
<1>1. "idle" \in Labels \ Targeted
  BY DEF Labels, Targeted
<1> QED
  BY <1>1, GotoType, ReleaseType, IdleReqType DEF Finish

LEMMA LockBookingType ==
    ASSUME LocksTypeOK, NEW p \in Procs, NEW b \in Bookings, LockBooking(p, b)
    PROVE  LocksTypeOK'
BY DEF LocksTypeOK, LockBooking

LEMMA LockServiceType ==
    ASSUME LocksTypeOK, NEW p \in Procs, LockService(p)
    PROVE  LocksTypeOK'
BY DEF LocksTypeOK, LockService

LEMMA SameDbType == ASSUME DbTypeOK, UNCHANGED <<clock, db, mails>> PROVE DbTypeOK'
BY DEF DbTypeOK, db

LEMMA SameLocksType == ASSUME LocksTypeOK, UNCHANGED locks PROVE LocksTypeOK'
BY DEF LocksTypeOK, locks

LEMMA SameLocalsType == ASSUME LocalsOK, UNCHANGED <<pc, req>> PROVE LocalsOK'
BY DEF LocalsOK, ProcsTypeOK

LEMMA SameStripeType == ASSUME StripeTypeOK, UNCHANGED stripe PROVE StripeTypeOK'
BY DEF StripeTypeOK, stripe

\* Each local of a process has its type.
LEMMA LocalTypes ==
    ASSUME LocalsOK, NEW p \in Procs
    PROVE  /\ req[p] \in Req
           /\ req[p].bk \in Bookings \cup {Null}
           /\ req[p].now \in Nat
           /\ req[p].draft \in Booking
           /\ req[p].draft.units \subseteq Seats
           /\ req[p].draft.user \in Users \cup {Null}
           /\ req[p].intent \in IntentIds
           /\ req[p].seen \in PaymentStatus
           /\ req[p].want \subseteq Seats
           /\ req[p].reserved \subseteq Seats
           /\ req[p].todo \subseteq Bookings
           /\ req[p].cap \in Nat
           /\ req[p].draft.created \in Nat
           /\ pc[p] \in Labels
           /\ pc[p] \in Targeted => req[p].bk \in Bookings
BY DEF LocalsOK, ProcsTypeOK, Req, Booking

\* Each column of a booking's rows has its type.
LEMMA RowTypes ==
    ASSUME DbTypeOK, NEW b \in Bookings
    PROVE  /\ bookings[b].units \in SUBSET Seats
           /\ bookings[b].total \in Nat
           /\ Reserved(b) \in SUBSET Seats
           /\ payments[b].status \in PaymentStatus
           /\ payments[b].intent \in IntentIds
           /\ service.max_capacity \in Nat
BY DEF DbTypeOK, Booking, Payment, Reserved, Service

(***************************************************************************)
(* TypeOK is not inductive by itself: a step that reads the row of its     *)
(* booking must know that there is one.                                    *)
(***************************************************************************)
TypeInv == DbTypeOK /\ LocksTypeOK /\ LocalsOK /\ StripeTypeOK

LEMMA InitType == Init => TypeInv
<1> SUFFICES ASSUME Init PROVE TypeInv
  OBVIOUS
<1>1. DbTypeOK
  BY IdleReqType, NumbersAssumption
  DEF Init, StoreInit, DbTypeOK, Service, ItemStatus, NoPayment, Payment,
      PaymentStatus, IntentIds, MailKinds, NoRow
<1>2. LocksTypeOK /\ LocalsOK
  BY IdleReqType DEF Init, StoreInit, LocksTypeOK, LocalsOK, ProcsTypeOK, Labels, Targeted
<1>3. StripeTypeOK
  BY DEF Init, StripeInit, StripeTypeOK, NoSuchIntent, Intent, IntentStatus, RefundKeys
<1> QED
  BY <1>1, <1>2, <1>3 DEF TypeInv

LEMMA CreateType ==
    ASSUME TypeInv, NEW p \in Procs, Create(p)
    PROVE  TypeInv'
<1> USE DEF TypeInv
<1>1. ASSUME NEW u \in Users, NEW q \in 0..MaxTickets, NEW units \in SUBSET Seats,
             NEW total \in Prices, BeginCreate(p, u, q, units, total)
      PROVE  TypeInv'
  <2>1. clock \in Nat /\ q \in Nat /\ total \in Nat
    BY ConstantTypes DEF DbTypeOK
  <2> DEFINE draft == [NoBooking EXCEPT !.status = "pending", !.user = u,
                         !.quantity = q, !.units = units, !.total = total]
             r == [NoReq EXCEPT !.now = clock, !.draft = draft]
  <2>2. draft \in Booking
    BY <2>1, IdleReqType DEF Booking, BookingStatus
  <2> HIDE DEF draft
  <2>3. r \in Req
    BY <2>1, <2>2, IdleReqType DEF Req
  <2> HIDE DEF r
  <2>4. "create_user" \in Labels \ Targeted
    BY DEF Labels, Targeted
  <2>5. Goto(p, "create_user", r)
    BY <1>1 DEF BeginCreate, r, draft
  <2>6. UNCHANGED <<clock, db, mails, locks, stripe>>
    BY <1>1 DEF BeginCreate
  <2> QED
    BY <2>3, <2>4, <2>5, <2>6, GotoType, SameDbType, SameLocksType, SameStripeType
<1>2. CASE CreateLockUser(p)
  <2> DEFINE r == req[p]
  <2>1. UNCHANGED <<clock, db, mails, stripe>>
    BY <1>2 DEF CreateLockUser
  <2>2. CASE Finish(p)
    BY <2>1, <2>2, FinishType, SameDbType, SameStripeType
  <2>3. ASSUME NEW t \in r.now..clock, NEW label \in {"create_seats", "create_slot"},
               userLock' = [userLock EXCEPT ![r.draft.user] = p],
               UNCHANGED <<bookingLock, seatLock, serviceLock>>,
               Goto(p, label, [r EXCEPT !.draft.created = t,
                                        !.want = r.draft.units,
                                        !.cap = service.max_capacity])
        PROVE  TypeInv'
    <3>1. t \in Nat /\ service.max_capacity \in Nat
      BY LocalTypes DEF DbTypeOK, Service
    <3>2. [r EXCEPT !.draft.created = t, !.want = r.draft.units,
                    !.cap = service.max_capacity] \in Req
      <4> DEFINE draft == [r.draft EXCEPT !.created = t]
      <4>1. draft \in Booking /\ r \in Req /\ r.draft.units \in SUBSET Seats
        BY <3>1, LocalTypes DEF Booking
      <4>2. [r EXCEPT !.draft.created = t, !.want = r.draft.units,
                      !.cap = service.max_capacity]
            = [r EXCEPT !.draft = draft, !.want = r.draft.units,
                        !.cap = service.max_capacity]
        BY <4>1 DEF Req
      <4> HIDE DEF draft, r
      <4> QED
        BY <3>1, <4>1, <4>2 DEF Req
    <3>3. label \in Labels \ Targeted
      BY DEF Labels, Targeted
    <3>4. LocksTypeOK'
      BY <2>3 DEF LocksTypeOK
    <3> QED
      BY <2>1, <2>3, <3>2, <3>3, <3>4, GotoType, SameDbType, SameStripeType
  <2> QED
    BY <1>2, <2>2, <2>3 DEF CreateLockUser
<1>3. CASE CreateSeats(p)
  <2>1. "create_insert" \in Labels \ Targeted
    BY DEF Labels, Targeted
  <2> QED
    BY <1>3, <2>1, LocalTypes, GotoType, FinishType, SameLocksType, SameDbType,
       SameStripeType DEF CreateSeats
<1>4. CASE CreateSlot(p)
  <2>1. "create_insert" \in Labels \ Targeted
    BY DEF Labels, Targeted
  <2> QED
    BY <1>4, <2>1, LocalTypes, GotoType, FinishType, LockServiceType, SameDbType,
       SameStripeType DEF CreateSlot
<1>5. CASE CreateInsert(p)
  <2>1. DbTypeOK'
    BY <1>5, LocalTypes DEF CreateInsert, DbTypeOK, SetSeats, ItemStatus, db
  <2> QED
    BY <1>5, <2>1, FinishType, SameStripeType DEF CreateInsert
<1> QED
  BY <1>1, <1>2, <1>3, <1>4, <1>5 DEF Create

LEMMA EnqueueType ==
    ASSUME mails \in [MailKinds -> [Bookings -> Nat]], NEW kind \in MailKinds,
           NEW b \in Bookings, Enqueue(kind, b)
    PROVE  mails' \in [MailKinds -> [Bookings -> Nat]]
BY DEF Enqueue

LEMMA BookingStatusType ==
    ASSUME bookings \in [Bookings -> Booking], NEW status \in BookingStatus, NEW b,
           bookings' = [bookings EXCEPT ![b].status = status]
    PROVE  bookings' \in [Bookings -> Booking]
BY DEF Booking

LEMMA SeatsType ==
    ASSUME seats \in [Seats -> ItemStatus], NEW status \in ItemStatus, NEW units
    PROVE  SetSeats(units, status) \in [Seats -> ItemStatus]
BY DEF SetSeats

LEMMA PayStatusType ==
    ASSUME payments \in [Bookings -> Payment], NEW status \in PaymentStatus, NEW b,
           payments' = [payments EXCEPT ![b].status = status]
    PROVE  payments' \in [Bookings -> Payment]
BY DEF Payment

LEMMA ConfirmType ==
    ASSUME TypeInv, NEW p \in Procs, NEW b \in Bookings, Confirm(p, b)
    PROVE  DbTypeOK' /\ StripeTypeOK'
<1> USE DEF TypeInv, Confirm, DbTypeOK
<1>1. bookings' \in [Bookings -> Booking]
  BY BookingStatusType DEF BookingStatus
<1>2. seats' \in [Seats -> ItemStatus]
  BY SeatsType DEF ItemStatus
<1>3. payments' \in [Bookings -> Payment]
  BY DEF Payment, PaymentStatus, IntentIds
<1>4. mails' \in [MailKinds -> [Bookings -> Nat]]
  BY EnqueueType DEF MailKinds
<1> QED
  BY <1>1, <1>2, <1>3, <1>4, SameStripeType

LEMMA CancelType ==
    ASSUME TypeInv, NEW p \in Procs, NEW b \in Bookings,
           NEW freed \in [Seats -> ItemStatus], NEW pay \in PaymentStatus,
           NEW refund \in Nat \cup {NoRow}, Cancel(p, b, freed, pay, refund),
           mails' \in [MailKinds -> [Bookings -> Nat]]
    PROVE  DbTypeOK' /\ StripeTypeOK'
<1> USE DEF TypeInv, Cancel, DbTypeOK
<1>1. bookings' \in [Bookings -> Booking]
  BY BookingStatusType DEF BookingStatus
<1>2. payments' \in [Bookings -> Payment]
  BY PayStatusType
<1> QED
  BY <1>1, <1>2, SameStripeType

LEMMA OnlyPaymentsType ==
    ASSUME TypeInv, NEW b, NEW status \in PaymentStatus,
           PayStatus(b, status) \/ UNCHANGED payments, OnlyPayments
    PROVE  DbTypeOK' /\ StripeTypeOK'
BY PayStatusType, SameStripeType DEF TypeInv, OnlyPayments, PayStatus, DbTypeOK

LEMMA GiveUpType ==
    ASSUME TypeInv, NEW p \in Procs, NEW label \in Labels, req[p].bk \in Bookings,
           PayGiveUpIntent(p, label)
    PROVE  TypeInv'
<1>1. /\ [req[p] EXCEPT !.seen = "canceled"] \in Req
      /\ [req[p] EXCEPT !.seen = "canceled"].bk = req[p].bk
  BY LocalTypes DEF TypeInv, Req, PaymentStatus
<1>2. DbTypeOK' /\ StripeTypeOK'
  BY OnlyPaymentsType DEF PayGiveUpIntent, PaymentStatus
<1> QED
  BY <1>1, <1>2, GotoType, ReleaseType DEF PayGiveUpIntent, TypeInv

LEMMA CreatedType ==
    ASSUME StripeTypeOK, NEW b \in Bookings, NEW first \in BOOLEAN, NEW i \in Intents,
           intents' = Created(b, first, i), UNCHANGED events
    PROVE  StripeTypeOK'
<1>1. [NoSuchIntent EXCEPT !.status = "open", !.booking = b, !.first = first] \in Intent
  BY DEF NoSuchIntent, Intent, IntentStatus, RefundKeys
<1> QED
  BY <1>1 DEF Created, StripeTypeOK

LEMMA PayType ==
    ASSUME TypeInv, NEW p \in Procs, Pay(p)
    PROVE  TypeInv'
<1> USE DEF TypeInv
<1>l. /\ {"pay_lock", "pay_retrieve", "pay_retrieve_failed", "pay_reread",
          "pay_confirm", "pay_create", "pay_store"} \subseteq Labels \cap Targeted
  BY DEF Labels, Targeted
<1>1. ASSUME NEW b \in Bookings, BeginPay(p, b) PROVE TypeInv'
  <2>1. [NoReq EXCEPT !.now = clock, !.bk = b] \in Req
    BY IdleReqType DEF Req, DbTypeOK
  <2>2. [NoReq EXCEPT !.now = clock, !.bk = b].bk = b
    BY DEF NoReq
  <2> QED
    BY <1>1, <1>l, <2>1, <2>2, GotoType, SameDbType, SameLocksType, SameStripeType
    DEF BeginPay
<1>2. CASE PayLock(p)
  <2> DEFINE r == [req[p] EXCEPT !.seen = payments[req[p].bk].status,
                                 !.intent = payments[req[p].bk].intent,
                                 !.want = bookings[req[p].bk].units]
  <2>1. UNCHANGED <<clock, db, mails, stripe>>
    BY <1>2 DEF PayLock
  <2>2. req[p].bk \in Bookings
    BY <1>2, <1>l, LocalTypes DEF PayLock
  <2>3. r \in Req /\ r.bk = req[p].bk
    BY <2>2, RowTypes, LocalTypes DEF Req
  <2>4. \/ Finish(p)
        \/ /\ LockBooking(p, req[p].bk)
           /\ \E label \in {"pay_retrieve", "pay_retrieve_failed", "pay_confirm",
                            "pay_create"} : Goto(p, label, r)
    BY <1>2 DEF PayLock
  <2> QED
    BY <1>l, <2>1, <2>2, <2>3, <2>4, FinishType, GotoType, LockBookingType,
       SameDbType, SameStripeType
<1>3. CASE PayRetrieve(p)
  <2>1. req[p].bk \in Bookings
    BY <1>3, <1>l, LocalTypes DEF PayRetrieve
  <2>2. CASE Goto(p, "pay_confirm", req[p]) /\ UNCHANGED <<clock, db, mails, locks, stripe>>
    BY <1>l, <2>1, <2>2, LocalTypes, GotoType, SameDbType, SameLocksType, SameStripeType
  <2>4. CASE Finish(p) /\ UNCHANGED <<clock, db, mails, stripe>>
    BY <2>4, FinishType, SameDbType, SameStripeType
  <2>3. ASSUME NEW label \in {"pay_create", "pay_reread"}, PayGiveUpIntent(p, label)
        PROVE  TypeInv'
    BY <1>l, <2>1, <2>3, GiveUpType
  <2> QED
    BY <1>3, <2>2, <2>4, <2>3 DEF PayRetrieve
<1>4. CASE PayReread(p)
  <2> DEFINE r == [req[p] EXCEPT !.seen = Reread(p).status, !.intent = Reread(p).intent]
  <2>1. req[p].bk \in Bookings
    BY <1>4, <1>l, LocalTypes DEF PayReread
  <2>2. Reread(p).status \in PaymentStatus /\ Reread(p).intent \in IntentIds
    BY <2>1, LocalTypes DEF DbTypeOK, Payment, PaymentStatus, Req, Reread
  <2>3. r \in Req /\ r.bk = req[p].bk
    BY <2>1, <2>2, LocalTypes DEF Req
  <2> QED
    BY <1>4, <1>l, <2>1, <2>3, GotoType, SameDbType, SameLocksType, SameStripeType
    DEF PayReread
<1>5. CASE PayRetrieveFailed(p)
  <2>1. req[p].bk \in Bookings
    BY <1>5, <1>l, LocalTypes DEF PayRetrieveFailed
  <2>2. CASE Goto(p, "pay_confirm", req[p]) /\ UNCHANGED <<clock, db, mails, locks, stripe>>
    BY <1>l, <2>1, <2>2, LocalTypes, GotoType, SameDbType, SameLocksType, SameStripeType
  <2>3. CASE PayStatus(req[p].bk, "requires") /\ Finish(p) /\ OnlyPayments
    BY <2>3, FinishType, OnlyPaymentsType DEF PaymentStatus
  <2>4. CASE PayGiveUpIntent(p, "pay_create")
    BY <1>l, <2>1, <2>4, GiveUpType
  <2>5. CASE Goto(p, "pay_create", req[p]) /\ UNCHANGED <<clock, db, mails, locks, stripe>>
    BY <1>l, <2>1, <2>5, LocalTypes, GotoType, SameDbType, SameLocksType, SameStripeType
  <2> QED
    BY <1>5, <2>2, <2>3, <2>4, <2>5 DEF PayRetrieveFailed
<1>6. CASE PayConfirm(p)
  BY <1>6, <1>l, LocalTypes, ConfirmType, FinishType DEF PayConfirm
<1>7. CASE PayCreate(p)
  <2>1. req[p].bk \in Bookings /\ UNCHANGED <<clock, db, mails, events>>
    BY <1>7, <1>l, LocalTypes DEF PayCreate
  <2>2. CASE Finish(p) /\ UNCHANGED intents
    BY <2>1, <2>2, FinishType, SameDbType, SameStripeType DEF stripe
  <2>3. ASSUME NEW i \in Intents, NEW first \in BOOLEAN,
               intents' = Created(req[p].bk, first, i),
               \/ Goto(p, "pay_store", [req[p] EXCEPT !.intent = i]) /\ UNCHANGED locks
               \/ Finish(p)
        PROVE  TypeInv'
    <3>1. StripeTypeOK'
      BY <2>1, <2>3, CreatedType
    <3>2. /\ [req[p] EXCEPT !.intent = i] \in Req
          /\ [req[p] EXCEPT !.intent = i].bk = req[p].bk
      BY LocalTypes DEF Req, IntentIds
    <3> QED
      BY <1>l, <2>1, <2>3, <3>1, <3>2, GotoType, FinishType, SameDbType, SameLocksType
  <2> QED
    BY <1>7, <2>2, <2>3 DEF PayCreate
<1>8. CASE PayStore(p)
  <2>1. payments' \in [Bookings -> Payment]
    BY <1>8, LocalTypes DEF PayStore, DbTypeOK, Payment, PaymentStatus, Written
  <2>2. DbTypeOK'
    BY <1>8, <2>1 DEF PayStore, DbTypeOK
  <2>3. StripeTypeOK'
    BY <1>8 DEF PayStore, Issued, StripeTypeOK, Intent
  <2> QED
    BY <1>8, <2>2, <2>3, FinishType DEF PayStore
<1> QED
  BY <1>1, <1>2, <1>3, <1>4, <1>5, <1>6, <1>7, <1>8 DEF Pay

LEMMA RefundedType ==
    ASSUME StripeTypeOK, NEW i, NEW key \in RefundKeys,
           intents' = Refunded(i, key), UNCHANGED events
    PROVE  StripeTypeOK'
BY DEF Refunded, StripeTypeOK, Intent

LEMMA CanceledType ==
    ASSUME StripeTypeOK, NEW i, intents' = Canceled(i), UNCHANGED events
    PROVE  StripeTypeOK'
BY DEF Canceled, StripeTypeOK, Intent, IntentStatus

LEMMA SameIntentsType ==
    ASSUME StripeTypeOK, UNCHANGED intents, UNCHANGED events
    PROVE  StripeTypeOK'
BY DEF StripeTypeOK

\* A record of locals stays one when it notes how the payment was settled.
LEMMA SettledReqType ==
    ASSUME LocalsOK, NEW p \in Procs, NEW settle \in {"keep", "canceled", "refunded"}
    PROVE  /\ [req[p] EXCEPT !.settle = settle] \in Req
           /\ [req[p] EXCEPT !.settle = settle].bk = req[p].bk
BY LocalTypes DEF Req

LEMMA WebhookType ==
    ASSUME TypeInv, NEW p \in Procs, Webhook(p)
    PROVE  TypeInv'
<1> USE DEF TypeInv
<1>l. {"hook_lock", "hook_seats", "hook_service", "hook_confirm", "hook_refund",
       "hook_cancel"} \subseteq Labels \cap Targeted
  BY DEF Labels, Targeted
<1>1. ASSUME NEW e \in events, BeginWebhook(p, e) PROVE TypeInv'
  <2>1. PICK b \in Bookings :
          Goto(p, "hook_lock", [NoReq EXCEPT !.bk = b, !.intent = e.intent, !.event = e.type])
    BY <1>1 DEF BeginWebhook
  <2> DEFINE r == [NoReq EXCEPT !.bk = b, !.intent = e.intent, !.event = e.type]
  <2>2. e.intent \in IntentIds /\ e.type \in EventType
    BY DEF StripeTypeOK, Event, IntentIds
  <2>3. r \in Req /\ r.bk = b
    BY <2>2, IdleReqType DEF Req
  <2> QED
    BY <1>1, <1>l, <2>1, <2>3, GotoType, SameDbType, SameLocksType, SameStripeType
    DEF BeginWebhook
<1>2. CASE HookLock(p)
  <2>1. req[p].bk \in Bookings /\ OnlyPayments
    BY <1>2, <1>l, LocalTypes DEF HookLock
  <2>2. CASE HookFailed(p)
    BY <2>1, <2>2, OnlyPaymentsType, FinishType DEF HookFailed, PayStatus, PaymentStatus
  <2>3. CASE PayStatus(req[p].bk, "succeeded") /\ Finish(p)
    BY <2>1, <2>3, OnlyPaymentsType, FinishType DEF PaymentStatus
  <2>4. CASE Finish(p) /\ UNCHANGED payments
    BY <2>1, <2>4, OnlyPaymentsType, FinishType DEF PaymentStatus
  <2>5. ASSUME NEW want \in SUBSET Seats, NEW reserved \in SUBSET Seats,
               NEW label \in {"hook_refund", "hook_seats", "hook_service"},
               LockBooking(p, req[p].bk),
               Goto(p, label, [req[p] EXCEPT !.seen = payments[req[p].bk].status,
                                             !.cap = service.max_capacity,
                                             !.want = want,
                                             !.reserved = reserved]),
               UNCHANGED payments
        PROVE  TypeInv'
    <3> DEFINE r == [req[p] EXCEPT !.seen = payments[req[p].bk].status,
                                   !.cap = service.max_capacity,
                                   !.want = want,
                                   !.reserved = reserved]
    <3>1. r \in Req /\ r.bk = req[p].bk
      BY <2>1, RowTypes, LocalTypes DEF Req
    <3>2. DbTypeOK' /\ StripeTypeOK'
      BY <2>1, <2>5, OnlyPaymentsType DEF PaymentStatus
    <3> QED
      BY <1>l, <2>1, <2>5, <3>1, <3>2, GotoType, LockBookingType
  <2>6. /\ bookings[req[p].bk].units \in SUBSET Seats
        /\ Reserved(req[p].bk) \in SUBSET Seats
    BY <2>1, RowTypes
  <2> QED
    BY <1>2, <2>2, <2>3, <2>4, <2>5, <2>6 DEF HookLock, HookSucceeded
<1>3. CASE HookSeats(p)
  BY <1>3, <1>l, LocalTypes, GotoType, SameDbType, SameLocksType, SameStripeType
  DEF HookSeats
<1>4. CASE HookService(p)
  BY <1>4, <1>l, LocalTypes, GotoType, SameDbType, LockServiceType, SameStripeType
  DEF HookService
<1>5. CASE HookConfirm(p)
  BY <1>5, <1>l, LocalTypes, ConfirmType, FinishType DEF HookConfirm
<1>6. CASE HookRefund(p)
  <2>1. req[p].bk \in Bookings /\ UNCHANGED <<clock, db, mails, events>>
    BY <1>6, <1>l, LocalTypes DEF HookRefund
  <2>2. StripeTypeOK'
    BY <1>6, <2>1, RefundedType, SameIntentsType DEF HookRefund, RefundKeys
  <2>3. CASE Finish(p)
    BY <2>1, <2>2, <2>3, FinishType, SameDbType
  <2>4. CASE Goto(p, "hook_cancel", [req[p] EXCEPT !.settle = "refunded"]) /\ UNCHANGED locks
    BY <1>l, <2>1, <2>2, <2>4, SettledReqType, GotoType, SameDbType, SameLocksType
  <2> QED
    BY <1>6, <2>3, <2>4 DEF HookRefund
<1>7. CASE HookCancel(p)
  <2>1. PICK units \in SUBSET Seats, refund \in Nat \cup {NoRow} :
          LET b == req[p].bk IN
          Cancel(p, b, SetSeats(units, "available"),
                 Written(req[p].seen, "canceled", payments[b].status), refund)
    <3>1. bookings[req[p].bk].total \in Nat /\ req[p].reserved \subseteq Seats
      BY <1>7, <1>l, LocalTypes DEF HookCancel, DbTypeOK, Booking
    <3> QED
      BY <1>7, <3>1 DEF HookCancel
  <2>2. /\ Written(req[p].seen, "canceled", payments[req[p].bk].status) \in PaymentStatus
        /\ req[p].bk \in Bookings
    BY <1>7, <1>l, LocalTypes DEF HookCancel, Written, DbTypeOK, Payment, PaymentStatus
  <2>3. SetSeats(units, "available") \in [Seats -> ItemStatus]
    BY SeatsType DEF DbTypeOK, ItemStatus
  <2> QED
    BY <1>7, <2>1, <2>2, <2>3, CancelType, FinishType DEF HookCancel, DbTypeOK
<1> QED
  BY <1>1, <1>2, <1>3, <1>4, <1>5, <1>6, <1>7 DEF Webhook

LEMMA CancelBookingType ==
    ASSUME TypeInv, NEW p \in Procs, CancelBooking(p)
    PROVE  TypeInv'
<1> USE DEF TypeInv
<1>l. {"cancel_lock", "cancel_refund", "cancel_intent", "cancel_commit"}
         \subseteq Labels \cap Targeted
  BY DEF Labels, Targeted
<1>1. ASSUME NEW b \in Bookings, BeginCancel(p, b) PROVE TypeInv'
  <2>1. /\ [NoReq EXCEPT !.now = clock, !.bk = b] \in Req
        /\ [NoReq EXCEPT !.now = clock, !.bk = b].bk = b
    BY IdleReqType DEF Req, DbTypeOK
  <2> QED
    BY <1>1, <1>l, <2>1, GotoType, SameDbType, SameLocksType, SameStripeType
    DEF BeginCancel
<1>2. CASE CancelLock(p)
  <2>1. req[p].bk \in Bookings /\ UNCHANGED <<clock, db, mails, stripe>>
    BY <1>2, <1>l, LocalTypes DEF CancelLock
  <2>2. CASE Finish(p)
    BY <2>1, <2>2, FinishType, SameDbType, SameStripeType
  <2>3. ASSUME NEW settle \in {"refunded", "keep"},
               NEW label \in {"cancel_refund", "cancel_intent", "cancel_commit"},
               LockBooking(p, req[p].bk),
               Goto(p, label, [req[p] EXCEPT !.intent = payments[req[p].bk].intent,
                                             !.want = bookings[req[p].bk].units,
                                             !.settle = settle])
        PROVE  TypeInv'
    <3> DEFINE r == [req[p] EXCEPT !.intent = payments[req[p].bk].intent,
                                   !.want = bookings[req[p].bk].units,
                                   !.settle = settle]
    <3>1. r \in Req /\ r.bk = req[p].bk
      BY <2>1, RowTypes, LocalTypes DEF Req
    <3> QED
      BY <1>l, <2>1, <2>3, <3>1, GotoType, LockBookingType, SameDbType, SameStripeType
  <2> QED
    BY <1>2, <2>2, <2>3 DEF CancelLock
<1>3. CASE CancelRefund(p)
  <2>1. req[p].bk \in Bookings /\ UNCHANGED <<clock, db, mails, events>>
    BY <1>3, <1>l, LocalTypes DEF CancelRefund
  <2>2. StripeTypeOK'
    BY <1>3, <2>1, RefundedType, SameIntentsType DEF CancelRefund, RefundKeys
  <2>3. CASE Finish(p)
    BY <2>1, <2>2, <2>3, FinishType, SameDbType
  <2>4. CASE Goto(p, "cancel_commit", req[p]) /\ UNCHANGED locks
    BY <1>l, <2>1, <2>2, <2>4, LocalTypes, GotoType, SameDbType, SameLocksType
  <2> QED
    BY <1>3, <2>3, <2>4 DEF CancelRefund
<1>4. CASE CancelIntent(p)
  <2>1. req[p].bk \in Bookings /\ UNCHANGED <<clock, db, mails, locks, events>>
    BY <1>4, <1>l, LocalTypes DEF CancelIntent
  <2>2. StripeTypeOK'
    BY <1>4, <2>1, CanceledType, SameIntentsType DEF CancelIntent
  <2>3. LocalsOK'
    BY <1>4, <1>l, <2>1, SettledReqType, LocalTypes, GotoType DEF CancelIntent
  <2> QED
    BY <2>1, <2>2, <2>3, SameDbType, SameLocksType
<1>5. CASE CancelCommit(p)
  <2>1. PICK pay \in PaymentStatus, refund \in Nat \cup {NoRow} :
          LET b == req[p].bk IN
          Cancel(p, b, SetSeats(bookings[b].units, "available"), pay, refund)
    <3>1. /\ bookings[req[p].bk].total \in Nat
          /\ payments[req[p].bk].status \in PaymentStatus
      BY <1>5, <1>l, LocalTypes DEF CancelCommit, DbTypeOK, Booking, Payment
    <3> QED
      BY <1>5, <3>1 DEF CancelCommit, PaymentStatus
  <2>2. req[p].bk \in Bookings
    BY <1>5, <1>l, LocalTypes DEF CancelCommit
  <2>3. SetSeats(bookings[req[p].bk].units, "available") \in [Seats -> ItemStatus]
    BY SeatsType DEF DbTypeOK, ItemStatus
  <2>4. mails' \in [MailKinds -> [Bookings -> Nat]]
    BY <1>5, <2>2, EnqueueType DEF CancelCommit, MailKinds, DbTypeOK
  <2> QED
    BY <1>5, <2>1, <2>2, <2>3, <2>4, CancelType, FinishType DEF CancelCommit
<1> QED
  BY <1>1, <1>2, <1>3, <1>4, <1>5 DEF CancelBooking

LEMMA NextCandidateType ==
    ASSUME LocalsOK, NEW p \in Procs, NextCandidate(p)
    PROVE  LocalsOK'
<1>1. [NoReq EXCEPT !.now = req[p].now, !.todo = req[p].todo] \in Req
  BY LocalTypes, IdleReqType DEF Req
<1>2. "sweep_next" \in Labels \ Targeted
  BY DEF Labels, Targeted
<1> QED
  BY <1>1, <1>2, GotoType DEF NextCandidate

LEMMA SweepType ==
    ASSUME TypeInv, NEW p \in Procs, Sweep(p)
    PROVE  TypeInv'
<1> USE DEF TypeInv
<1>l. /\ {"sweep_lock", "sweep_intent", "sweep_retrieve", "sweep_seats", "sweep_service",
          "sweep_confirm", "sweep_refund", "sweep_release"} \subseteq Labels \cap Targeted
      /\ "sweep_next" \in Labels \ Targeted
  BY DEF Labels, Targeted
<1>1. CASE BeginSweep(p)
  <2> DEFINE candidates == {b \in Bookings : Pending(b) /\ Expired(b, clock)}
  <2>1. [NoReq EXCEPT !.now = clock, !.todo = candidates] \in Req
    BY IdleReqType DEF Req, DbTypeOK
  <2> QED
    BY <1>1, <1>l, <2>1, GotoType, SameDbType, SameLocksType, SameStripeType
    DEF BeginSweep
<1>2. CASE SweepNext(p)
  <2>1. PICK b \in req[p].todo :
          Goto(p, "sweep_lock", [req[p] EXCEPT !.bk = b, !.todo = @ \ {b}])
    BY <1>2 DEF SweepNext
  <2>2. /\ [req[p] EXCEPT !.bk = b, !.todo = @ \ {b}] \in Req
        /\ [req[p] EXCEPT !.bk = b, !.todo = @ \ {b}].bk \in Bookings
    BY LocalTypes DEF Req
  <2> QED
    BY <1>2, <1>l, <2>1, <2>2, GotoType, SameDbType, SameLocksType, SameStripeType
    DEF SweepNext
<1>3. CASE SweepEnd(p)
  BY <1>3, FinishType, SameDbType, SameStripeType DEF SweepEnd
<1>4. CASE SweepLock(p)
  <2>1. /\ req[p].bk \in Bookings
        /\ LockBooking(p, req[p].bk)
        /\ UNCHANGED <<clock, db, mails, stripe>>
    BY <1>4, <1>l, LocalTypes DEF SweepLock
  <2> DEFINE r == [req[p] EXCEPT !.intent = payments[req[p].bk].intent,
                                 !.want = bookings[req[p].bk].units]
  <2>2. r \in Req /\ r.bk = req[p].bk
    BY <2>1, RowTypes, LocalTypes DEF Req
  <2>3. \/ NextCandidate(p)
        \/ \E label \in {"sweep_intent", "sweep_release"} : Goto(p, label, r)
    BY <1>4 DEF SweepLock
  <2> QED
    BY <1>l, <2>1, <2>2, <2>3, NextCandidateType, GotoType, LockBookingType, SameDbType,
       SameStripeType
<1>5. CASE SweepIntent(p)
  <2>1. /\ req[p].bk \in Bookings
        /\ UNCHANGED <<clock, db, mails, events>> /\ UNCHANGED locks
    BY <1>5, <1>l, LocalTypes DEF SweepIntent, Skip
  <2>2. StripeTypeOK'
    BY <1>5, <2>1, CanceledType, SameIntentsType DEF SweepIntent
  <2>3. \/ NextCandidate(p)
        \/ Goto(p, "sweep_release", [req[p] EXCEPT !.settle = "canceled"])
        \/ Goto(p, "sweep_retrieve", req[p])
    BY <1>5 DEF SweepIntent, Skip
  <2>4. LocalsOK'
    BY <1>l, <2>1, <2>3, SettledReqType, LocalTypes, GotoType, NextCandidateType
  <2> QED
    BY <2>1, <2>2, <2>4, SameDbType, SameLocksType
<1>6. CASE SweepRetrieve(p)
  <2>1. /\ req[p].bk \in Bookings
        /\ UNCHANGED <<clock, db, mails, stripe>> /\ UNCHANGED locks
    BY <1>6, <1>l, LocalTypes DEF SweepRetrieve, Skip
  <2> DEFINE r == [req[p] EXCEPT !.cap = service.max_capacity,
                                 !.reserved = Reserved(req[p].bk)]
  <2>2. r \in Req /\ r.bk = req[p].bk
    BY <2>1, RowTypes, LocalTypes DEF Req
  <2>3. \/ NextCandidate(p)
        \/ Goto(p, "sweep_release", [req[p] EXCEPT !.settle = "canceled"])
        \/ \E label \in {"sweep_seats", "sweep_service"} :
              Goto(p, label, r)
    BY <1>6 DEF SweepRetrieve, Skip
  <2>4. LocalsOK'
    BY <1>l, <2>1, <2>2, <2>3, SettledReqType, GotoType, NextCandidateType
  <2> QED
    BY <2>1, <2>4, SameDbType, SameLocksType, SameStripeType
<1>7. CASE SweepSeats(p)
  BY <1>7, <1>l, LocalTypes, GotoType, SameDbType, SameLocksType, SameStripeType
  DEF SweepSeats
<1>8. CASE SweepService(p)
  BY <1>8, <1>l, LocalTypes, GotoType, SameDbType, LockServiceType, SameStripeType
  DEF SweepService
<1>9. CASE SweepConfirm(p)
  BY <1>9, <1>l, LocalTypes, ConfirmType, ReleaseType, NextCandidateType DEF SweepConfirm
<1>10. CASE SweepRefund(p)
  <2>1. req[p].bk \in Bookings /\ UNCHANGED <<clock, db, mails, events>>
    BY <1>10, <1>l, LocalTypes DEF SweepRefund
  <2>2. StripeTypeOK'
    BY <1>10, <2>1, RefundedType, SameIntentsType DEF SweepRefund, RefundKeys
  <2>3. CASE Release(p) /\ NextCandidate(p)
    BY <2>1, <2>2, <2>3, ReleaseType, NextCandidateType, SameDbType
  <2>4. CASE Goto(p, "sweep_release", [req[p] EXCEPT !.settle = "refunded"]) /\ UNCHANGED locks
    BY <1>l, <2>1, <2>2, <2>4, SettledReqType, GotoType, SameDbType, SameLocksType
  <2> QED
    BY <1>10, <2>3, <2>4 DEF SweepRefund
<1>11. CASE SweepRelease(p)
  <2>1. PICK pay \in PaymentStatus, refund \in Nat \cup {NoRow} :
          LET b == req[p].bk IN
          Cancel(p, b, SetSeats(bookings[b].units, "available"), pay, refund)
    <3>1. /\ bookings[req[p].bk].total \in Nat
          /\ payments[req[p].bk].status \in PaymentStatus
      BY <1>11, <1>l, LocalTypes DEF SweepRelease, DbTypeOK, Booking, Payment
    <3> QED
      BY <1>11, <3>1 DEF SweepRelease, PaymentStatus
  <2>2. req[p].bk \in Bookings
    BY <1>11, <1>l, LocalTypes DEF SweepRelease
  <2>3. SetSeats(bookings[req[p].bk].units, "available") \in [Seats -> ItemStatus]
    BY SeatsType DEF DbTypeOK, ItemStatus
  <2>4. mails' \in [MailKinds -> [Bookings -> Nat]]
    BY <1>11 DEF SweepRelease, DbTypeOK
  <2> QED
    BY <1>11, <2>1, <2>2, <2>3, <2>4, CancelType, ReleaseType, NextCandidateType
    DEF SweepRelease
<1>12. CASE SweepItemError(p)
  BY <1>12, ReleaseType, NextCandidateType, SameDbType, SameStripeType DEF SweepItemError
<1> QED
  BY <1>1, <1>2, <1>3, <1>4, <1>5, <1>6, <1>7, <1>8, <1>9, <1>10, <1>11, <1>12 DEF Sweep

LEMMA SellerType ==
    ASSUME TypeInv, NEW p \in Procs, Seller(p)
    PROVE  TypeInv'
<1> USE DEF TypeInv
<1>l. {"update_commit", "delete_commit"} \subseteq Labels \ Targeted
  BY DEF Labels, Targeted
<1>1. ASSUME NEW cap \in Capacities, BeginUpdate(p, cap) PROVE TypeInv'
  <2>1. [NoReq EXCEPT !.cap = cap] \in Req
    BY IdleReqType, ConstantTypes DEF Req
  <2> QED
    BY <1>1, <1>l, <2>1, GotoType, SameDbType, SameLocksType, SameStripeType
    DEF BeginUpdate
<1>2. CASE UpdateCommit(p)
  <2>1. DbTypeOK'
    BY <1>2, LocalTypes DEF UpdateCommit, DbTypeOK, Service
  <2> QED
    BY <1>2, <2>1, FinishType, SameStripeType DEF UpdateCommit
<1>3. CASE BeginDelete(p)
  <2> DEFINE hist == \E b \in Bookings : bookings[b].status # "none"
  <2>1. [NoReq EXCEPT !.hist = hist] \in Req
    <3>1. hist \in BOOLEAN
      OBVIOUS
    <3> HIDE DEF hist
    <3> QED
      BY <3>1, IdleReqType DEF Req
  <2> QED
    BY <1>3, <1>l, <2>1, GotoType, SameDbType, SameLocksType, SameStripeType
    DEF BeginDelete
<1>4. CASE DeleteCommit(p)
  <2>1. service' \in Service
    BY <1>4 DEF DeleteCommit, DbTypeOK, Service
  <2>2. DbTypeOK'
    BY <1>4, <2>1 DEF DeleteCommit, DbTypeOK
  <2> QED
    BY <1>4, <2>2, FinishType, SameStripeType DEF DeleteCommit
<1> QED
  BY <1>1, <1>2, <1>3, <1>4 DEF Seller

LEMMA StripeStepType ==
    ASSUME TypeInv, Stripe
    PROVE  TypeInv'
<1> USE DEF TypeInv
<1>1. PICK i \in Intents : Submit(i) \/ Settle(i) \/ Decline(i) \/ StripeCancels(i)
  BY DEF Stripe
<1>2. StripeTypeOK'
  BY <1>1 DEF Submit, Settle, Decline, StripeCancels, Canceled, StripeTypeOK, Intent,
              IntentStatus, Event, EventType
<1> QED
  BY <1>2, SameDbType, SameLocksType, SameLocalsType DEF Stripe

LEMMA LockSeatType ==
    ASSUME TypeInv, NEW p \in Procs, LockSeat(p)
    PROVE  TypeInv'
<1> USE DEF TypeInv
<1>1. PICK s \in req[p].want : /\ seatLock' = [seatLock EXCEPT ![s] = p]
                               /\ req' = [req EXCEPT ![p].want = @ \ {s}]
  BY DEF LockSeat
<1>2. LocksTypeOK'
  BY <1>1 DEF LockSeat, LocksTypeOK
<1>3. /\ [req[p] EXCEPT !.want = @ \ {s}] \in Req
      /\ [req[p] EXCEPT !.want = @ \ {s}].bk = req[p].bk
  BY LocalTypes DEF Req
<1>4. Goto(p, pc[p], [req[p] EXCEPT !.want = @ \ {s}])
  BY <1>1 DEF LockSeat, Goto, LocalsOK, ProcsTypeOK
<1>5. LocalsOK'
  BY <1>3, <1>4, LocalTypes, GotoType
<1> QED
  BY <1>2, <1>5, SameDbType, SameStripeType DEF LockSeat

LEMMA NextType == TypeInv /\ [Next]_vars => TypeInv'
<1> SUFFICES ASSUME TypeInv, [Next]_vars PROVE TypeInv'
  OBVIOUS
<1> USE DEF Procs
<1>1. ASSUME NEW p \in Requests, Create(p) \/ Pay(p) \/ Webhook(p) \/ CancelBooking(p)
      PROVE  TypeInv'
  BY <1>1, CreateType, PayType, WebhookType, CancelBookingType
<1>2. ASSUME NEW p \in Sweepers, Sweep(p) PROVE TypeInv'
  BY <1>2, SweepType
<1>3. ASSUME NEW p \in Sellers, Seller(p) PROVE TypeInv'
  BY <1>3, SellerType
<1>4. ASSUME NEW p \in Procs, LockSeat(p) PROVE TypeInv'
  BY <1>4, LockSeatType
<1>5. ASSUME NEW p \in Procs, Crash(p) PROVE TypeInv'
  BY <1>5, FinishType, SameDbType, SameStripeType DEF Crash, TypeInv
<1>6. CASE Stripe
  BY <1>6, StripeStepType
<1>7. CASE Tick
  BY <1>7, SameLocksType, SameLocalsType, SameStripeType
  DEF Tick, TypeInv, DbTypeOK, db
<1>8. CASE UNCHANGED vars
  BY <1>8, SameDbType, SameLocksType, SameLocalsType, SameStripeType DEF TypeInv, vars
<1> QED
  BY <1>1, <1>2, <1>3, <1>4, <1>5, <1>6, <1>7, <1>8 DEF Next

LEMMA TypeInvHolds == Spec => []TypeInv
BY InitType, NextType, PTL DEF Spec

\* Type correctness: whatever create_booking, the payment handlers, the sweeper
\* and the seller's handlers do, every row and every local keeps its type.
THEOREM TypeCorrect == Spec => []TypeOK
<1>1. TypeInv => TypeOK
  BY DEF TypeInv, TypeOK, StoreTypeOK, LocalsOK
<1> QED
  BY <1>1, TypeInvHolds, PTL

-----------------------------------------------------------------------------
(***************************************************************************)
(* Rows of bookings are never deleted, and what refers to one refers to a  *)
(* row that exists: a payment, and the locals of a handler at work on it.  *)
(* That the row one has locked is not yet to be inserted by another        *)
(* handler is needed to show that locks protect rows (SeatProofs).         *)
(***************************************************************************)

Exists(b) == bookings[b].status # "none"

TargetExists(p) == /\ pc[p] \in Targeted => Exists(req[p].bk)
                   /\ \A b \in req[p].todo : Exists(b)

RowsExist == /\ \A b \in Bookings : payments[b].intent # NoIntent => Exists(b)
             /\ \A p \in Procs : TargetExists(p)

-----------------------------------------------------------------------------
(* Which process a step moves, and where to *)

CreateLabels == {"create_user", "create_seats", "create_slot", "create_insert"}
PayLabels    == {"pay_lock", "pay_retrieve", "pay_reread", "pay_retrieve_failed", "pay_create",
                 "pay_store", "pay_confirm"}
HookLabels   == {"hook_lock", "hook_seats", "hook_service", "hook_confirm", "hook_refund",
                 "hook_cancel"}
CancelLabels == {"cancel_lock", "cancel_refund", "cancel_intent", "cancel_commit"}
SweepLabels  == {"sweep_next", "sweep_lock", "sweep_intent", "sweep_retrieve", "sweep_seats",
                 "sweep_service", "sweep_confirm", "sweep_refund", "sweep_release"}
SellerLabels == {"update_commit", "delete_commit"}

LEMMA WhereTo ==
    ASSUME NEW p
    PROVE  /\ Create(p) => \E label \in CreateLabels \cup {"idle"} : \E r : Goto(p, label, r)
           /\ Pay(p) => \E label \in PayLabels \cup {"idle"} : \E r : Goto(p, label, r)
           /\ Webhook(p) => \E label \in HookLabels \cup {"idle"} : \E r : Goto(p, label, r)
           /\ CancelBooking(p) => \E label \in CancelLabels \cup {"idle"} : \E r : Goto(p, label, r)
           /\ Sweep(p) => \E label \in SweepLabels \cup {"idle"} : \E r : Goto(p, label, r)
           /\ Seller(p) => \E label \in SellerLabels \cup {"idle"} : \E r : Goto(p, label, r)
           /\ Crash(p) => \E r : Goto(p, "idle", r)
<1>1. Create(p) => \E label \in CreateLabels \cup {"idle"} : \E r : Goto(p, label, r)
  BY DEF CreateLabels, Create, BeginCreate, CreateLockUser, CreateSeats, CreateSlot,
         CreateInsert, Finish
<1>2. Pay(p) => \E label \in PayLabels \cup {"idle"} : \E r : Goto(p, label, r)
  BY DEF PayLabels, Pay, BeginPay, PayLock, PayRetrieve, PayReread, PayRetrieveFailed, PayCreate,
         PayStore, PayGiveUpIntent, PayConfirm, Finish
<1>3. Webhook(p) => \E label \in HookLabels \cup {"idle"} : \E r : Goto(p, label, r)
  BY DEF HookLabels, Webhook, BeginWebhook, HookLock, HookFailed, HookSucceeded, HookSeats,
         HookService, HookRefund, HookConfirm, HookCancel, Finish
<1>4. CancelBooking(p) => \E label \in CancelLabels \cup {"idle"} : \E r : Goto(p, label, r)
  BY DEF CancelLabels, CancelBooking, BeginCancel, CancelLock, CancelRefund, CancelIntent,
         CancelCommit, Finish
<1>5. Sweep(p) => \E label \in SweepLabels \cup {"idle"} : \E r : Goto(p, label, r)
  BY DEF SweepLabels, Sweep, BeginSweep, SweepNext, SweepEnd, SweepLock, SweepIntent,
         SweepRetrieve, SweepSeats, SweepService, SweepRefund, SweepItemError, SweepConfirm,
         SweepRelease, Skip, NextCandidate, Finish
<1>6. Seller(p) => \E label \in SellerLabels \cup {"idle"} : \E r : Goto(p, label, r)
  BY DEF SellerLabels, Seller, BeginUpdate, UpdateCommit, BeginDelete, DeleteCommit, Finish
<1>7. Crash(p) => \E r : Goto(p, "idle", r)
  BY DEF Crash, Finish
<1> QED
  BY <1>1, <1>2, <1>3, <1>4, <1>5, <1>6, <1>7

LEMMA NullIsNoProc == Null \notin Procs
BY NullAssumption DEF Procs

LEMMA GotoKeeps ==
    ASSUME TypeInv, NEW p \in Procs, NEW label, NEW r, Goto(p, label, r)
    PROVE  /\ \A q \in Procs \ {p} : pc'[q] = pc[q] /\ req'[q] = req[q]
           /\ pc'[p] = label /\ req'[p] = r
BY DEF Goto, TypeInv, LocalsOK, ProcsTypeOK

\* q is where it was, with all of its locals but the seats it has yet to lock.
Stays(q) == /\ pc'[q] = pc[q]
            /\ req'[q].bk = req[q].bk /\ req'[q].now = req[q].now
            /\ req'[q].draft = req[q].draft /\ req'[q].intent = req[q].intent
            /\ req'[q].settle = req[q].settle /\ req'[q].reserved = req[q].reserved
            /\ req'[q].todo = req[q].todo /\ req'[q].want \subseteq req[q].want

Acts(q) == \/ Create(q) \/ Pay(q) \/ Webhook(q) \/ CancelBooking(q)
           \/ Sweep(q) \/ Seller(q) \/ Crash(q)

LEMMA OthersStay ==
    ASSUME TypeInv, NEW p \in Procs, Acts(p), NEW q \in Procs \ {p}
    PROVE  pc'[q] = pc[q] /\ req'[q] = req[q]
<1>1. \E label, r : Goto(p, label, r)
  BY WhereTo DEF Acts
<1> QED
  BY <1>1 DEF Goto, TypeInv, LocalsOK, ProcsTypeOK

LEMMA LockSeatStays ==
    ASSUME TypeInv, NEW p \in Procs, LockSeat(p), NEW q \in Procs
    PROVE  Stays(q) /\ (q # p => req'[q] = req[q])
<1>1. PICK s : req' = [req EXCEPT ![p].want = @ \ {s}]
  BY DEF LockSeat
<1>2. req[q] \in Req /\ UNCHANGED pc
  BY LocalTypes DEF TypeInv, LockSeat
<1>3. CASE q = p
  BY <1>1, <1>2, <1>3 DEF Stays, TypeInv, LocalsOK, ProcsTypeOK, Req
<1>4. CASE q # p
  BY <1>1, <1>2, <1>4 DEF Stays, TypeInv, LocalsOK, ProcsTypeOK
<1> QED
  BY <1>3, <1>4

\* A step of the system acts for one process, or takes a seat for it, or moves none.
LEMMA NextMoves ==
    ASSUME [Next]_vars
    PROVE  \/ \E p \in Procs : Acts(p) \/ LockSeat(p)
           \/ UNCHANGED <<db, mails, locks, pc, req>>
<1>1. CASE Stripe \/ Tick \/ UNCHANGED vars
  BY <1>1 DEF Stripe, Tick, vars
<1>2. CASE ~(Stripe \/ Tick \/ UNCHANGED vars)
  BY <1>2 DEF Next, Procs, Acts
<1> QED
  BY <1>1, <1>2

LEMMA StaysOrActs ==
    ASSUME TypeInv, [Next]_vars, NEW q \in Procs
    PROVE  Stays(q) \/ Acts(q)
<1>1. ASSUME NEW p \in Procs \ {q}, Acts(p) PROVE Stays(q)
  BY <1>1, OthersStay DEF Stays
<1>2. CASE UNCHANGED <<db, mails, locks, pc, req>>
  BY <1>2 DEF Stays
<1> QED
  BY <1>1, <1>2, LockSeatStays, NextMoves

-----------------------------------------------------------------------------
(* Kinds of step *)

LEMMA RowsStep ==
    ASSUME TypeInv, RowsExist, NEW p \in Procs, NEW label, NEW r, Goto(p, label, r),
           \A b \in Bookings : Exists(b) => Exists(b)',
           \A b \in Bookings : payments'[b].intent # payments[b].intent => Exists(b),
           label \in Targeted => r.bk \in Bookings /\ Exists(r.bk),
           \A b \in r.todo : b \in Bookings /\ Exists(b)
    PROVE  RowsExist'
<1>1. /\ pc'[p] = label /\ req'[p] = r
      /\ \A q \in Procs \ {p} : pc'[q] = pc[q] /\ req'[q] = req[q]
  BY DEF Goto, TypeInv, LocalsOK, ProcsTypeOK
<1>2. TargetExists(p)'
  BY <1>1 DEF TargetExists, Exists
<1>3. ASSUME NEW q \in Procs \ {p} PROVE TargetExists(q)'
  <2>1. /\ pc[q] \in Targeted => req[q].bk \in Bookings
        /\ req[q].todo \subseteq Bookings
    BY LocalTypes DEF TypeInv
  <2> QED
    BY <1>1, <2>1 DEF RowsExist, TargetExists, Exists
<1>4. \A b \in Bookings : payments'[b].intent # NoIntent => Exists(b)'
  BY DEF RowsExist, Exists
<1> QED
  BY <1>2, <1>3, <1>4 DEF RowsExist

\* A step that writes neither bookings nor the intents of payments
Silent == /\ UNCHANGED bookings
          /\ \A b \in Bookings : payments'[b].intent = payments[b].intent

LEMMA SilentStep ==
    ASSUME TypeInv, RowsExist, NEW p \in Procs, NEW label, NEW r, Goto(p, label, r), Silent,
           label \in Targeted => r.bk \in Bookings /\ Exists(r.bk),
           \A b \in r.todo : b \in Bookings /\ Exists(b)
    PROVE  RowsExist'
BY RowsStep DEF Silent, Exists

\* The handler goes on with the booking it has.
LEMMA SameTarget ==
    ASSUME TypeInv, RowsExist, NEW p \in Procs, NEW label, NEW r, Goto(p, label, r), Silent,
           pc[p] \in Targeted, r.bk = req[p].bk, r.todo = req[p].todo
    PROVE  RowsExist'
<1>1. /\ req[p].bk \in Bookings /\ Exists(req[p].bk)
      /\ \A b \in req[p].todo : b \in Bookings /\ Exists(b)
  BY LocalTypes DEF TypeInv, RowsExist, TargetExists
<1> QED
  BY <1>1, SilentStep

LEMMA NoTarget == "idle" \notin Targeted /\ "sweep_next" \notin Targeted /\ NoReq.todo = {}
BY DEF Targeted, NoReq

LEMMA SilentFinish ==
    ASSUME TypeInv, RowsExist, NEW p \in Procs, Finish(p), Silent
    PROVE  RowsExist'
BY NoTarget, SilentStep DEF Finish

LEMMA SilentNext ==
    ASSUME TypeInv, RowsExist, NEW p \in Procs, NextCandidate(p), Silent
    PROVE  RowsExist'
<1> DEFINE r == [NoReq EXCEPT !.now = req[p].now, !.todo = req[p].todo]
<1>1. Goto(p, "sweep_next", r) /\ r.todo = req[p].todo
  BY DEF NextCandidate, NoReq
<1>2. \A b \in req[p].todo : b \in Bookings /\ Exists(b)
  BY LocalTypes DEF TypeInv, RowsExist, TargetExists
<1> HIDE DEF r
<1> QED
  BY <1>1, <1>2, NoTarget, SilentStep

LEMMA QuietIsSilent == ASSUME UNCHANGED db PROVE Silent
BY DEF Silent, db

LEMMA StatusIsSilent ==
    ASSUME DbTypeOK, UNCHANGED bookings, NEW b, NEW status, PayStatus(b, status)
    PROVE  Silent
BY DEF Silent, PayStatus, DbTypeOK, Payment

\* The candidates of a sweep, and what a handler works on, exist.
LEMMA TargetRows ==
    ASSUME TypeInv, RowsExist, NEW p \in Procs
    PROVE  /\ pc[p] \in Targeted => req[p].bk \in Bookings /\ Exists(req[p].bk)
           /\ \A b \in req[p].todo : b \in Bookings /\ Exists(b)
BY LocalTypes DEF TypeInv, RowsExist, TargetExists

\* confirm_booking_and_invoice and the cancellations write rows that exist.
LEMMA ConfirmRows ==
    ASSUME TypeInv, RowsExist, NEW p \in Procs, pc[p] \in Targeted, Confirm(p, req[p].bk)
    PROVE  /\ \A b \in Bookings : Exists(b) => Exists(b)'
           /\ \A b \in Bookings : payments'[b].intent # payments[b].intent => Exists(b)
<1>1. req[p].bk \in Bookings /\ Exists(req[p].bk)
  BY LocalTypes DEF TypeInv, RowsExist, TargetExists
<1>2. \A b \in Bookings \ {req[p].bk} : bookings'[b] = bookings[b] /\ payments'[b] = payments[b]
  BY DEF Confirm, TypeInv, DbTypeOK
<1>3. bookings'[req[p].bk].status = "confirmed"
  BY <1>1 DEF Confirm, TypeInv, DbTypeOK, Booking
<1> QED
  BY <1>1, <1>2, <1>3 DEF Exists

LEMMA CancelRows ==
    ASSUME TypeInv, NEW p, NEW b \in Bookings, NEW freed, NEW pay, NEW refund,
           Cancel(p, b, freed, pay, refund)
    PROVE  /\ \A c \in Bookings : Exists(c) => Exists(c)'
           /\ \A c \in Bookings : payments'[c].intent = payments[c].intent
BY DEF Cancel, TypeInv, DbTypeOK, Booking, Payment, Exists

-----------------------------------------------------------------------------
(* Every step keeps RowsExist *)

LEMMA CreateRows ==
    ASSUME TypeInv, RowsExist, NEW p \in Procs, Create(p)
    PROVE  RowsExist'
<1>0. DbTypeOK /\ LocalsOK /\ req[p] \in Req
  BY LocalTypes DEF TypeInv
<1>l. {"create_user", "create_seats", "create_slot", "create_insert"} \cap Targeted = {}
  BY DEF Targeted
<1>f. ASSUME Finish(p), UNCHANGED db PROVE RowsExist'
  BY <1>f, QuietIsSilent, SilentFinish
<1>1. ASSUME NEW u \in Users, NEW q \in 0..MaxTickets, NEW units \in SUBSET Seats,
             NEW total \in Prices, BeginCreate(p, u, q, units, total)
      PROVE  RowsExist'
  <2> DEFINE r == [NoReq EXCEPT !.now = clock,
                                !.draft = [NoBooking EXCEPT !.status = "pending",
                                                            !.user = u,
                                                            !.quantity = q,
                                                            !.units = units,
                                                            !.total = total]]
  <2>1. Goto(p, "create_user", r) /\ r.todo = {}
    BY <1>1 DEF BeginCreate, NoReq
  <2> HIDE DEF r
  <2>2. Silent
    BY <1>1, QuietIsSilent DEF BeginCreate
  <2> QED
    BY <1>l, <2>1, <2>2, SilentStep
<1>2. CASE CreateLockUser(p)
  <2>1. UNCHANGED db
    BY <1>2 DEF CreateLockUser
  <2>2. CASE ~Finish(p)
    <3>1. PICK t \in req[p].now..clock :
            Goto(p, IF UnitMode THEN "create_seats" ELSE "create_slot",
                 [req[p] EXCEPT !.draft.created = t,
                                !.want = req[p].draft.units,
                                !.cap = service.max_capacity])
      BY <1>2, <2>2 DEF CreateLockUser
    <3> DEFINE r == [req[p] EXCEPT !.draft.created = t,
                                   !.want = req[p].draft.units,
                                   !.cap = service.max_capacity]
    <3>2. PICK label \in {"create_seats", "create_slot"} : Goto(p, label, r)
      BY <3>1
    <3>3. r.todo = req[p].todo
      BY <1>0 DEF Req
    <3> HIDE DEF r
    <3> QED
      BY <1>l, <2>1, <3>2, <3>3, TargetRows, QuietIsSilent, SilentStep
  <2> QED
    BY <1>f, <2>1, <2>2
<1>3. CASE CreateSeats(p) \/ CreateSlot(p)
  <2>1. UNCHANGED db /\ (Goto(p, "create_insert", req[p]) \/ Finish(p))
    BY <1>3 DEF CreateSeats, CreateSlot
  <2> QED
    BY <1>l, <1>f, <2>1, TargetRows, QuietIsSilent, SilentStep
<1>4. CASE CreateInsert(p)
  <2>1. \A b \in Bookings : Exists(b) => Exists(b)'
    BY <1>0, <1>4 DEF CreateInsert, db, Exists, DbTypeOK
  <2>2. UNCHANGED payments
    BY <1>4 DEF CreateInsert, db
  <2> QED
    BY <1>4, <2>1, <2>2, NoTarget, RowsStep DEF CreateInsert, Finish
<1> QED
  BY <1>1, <1>2, <1>3, <1>4 DEF Create

LEMMA PayRows ==
    ASSUME TypeInv, RowsExist, NEW p \in Procs, Pay(p)
    PROVE  RowsExist'
<1>0. DbTypeOK /\ LocalsOK /\ req[p] \in Req
  BY LocalTypes DEF TypeInv
<1>l. {"pay_lock", "pay_retrieve", "pay_reread", "pay_retrieve_failed", "pay_confirm",
       "pay_create", "pay_store"} \subseteq Targeted
  BY DEF Labels, Targeted
<1>f. ASSUME Finish(p), UNCHANGED db PROVE RowsExist'
  BY <1>f, QuietIsSilent, SilentFinish
<1>1. ASSUME NEW b \in Bookings, BeginPay(p, b) PROVE RowsExist'
  <2> DEFINE r == [NoReq EXCEPT !.now = clock, !.bk = b]
  <2>1. Goto(p, "pay_lock", r) /\ r.bk = b /\ r.todo = {}
    BY <1>1 DEF BeginPay, NoReq
  <2> HIDE DEF r
  <2>2. Silent /\ Exists(b)
    BY <1>1, QuietIsSilent DEF BeginPay, Pending, Exists
  <2> QED
    BY <2>1, <2>2, SilentStep
<1>2. CASE PayLock(p)
  <2>1. UNCHANGED db /\ pc[p] \in Targeted
    BY <1>2, <1>l DEF PayLock
  <2> DEFINE r == [req[p] EXCEPT !.seen = payments[req[p].bk].status,
                                 !.intent = payments[req[p].bk].intent,
                                 !.want = bookings[req[p].bk].units]
  <2>2. r.bk = req[p].bk /\ r.todo = req[p].todo
    BY <1>0 DEF Req
  <2>3. Finish(p) \/ \E label : Goto(p, label, r)
    BY <1>2 DEF PayLock
  <2> HIDE DEF r
  <2> QED
    BY <1>f, <2>1, <2>2, <2>3, QuietIsSilent, SameTarget
<1>3. ASSUME NEW label, PayGiveUpIntent(p, label), pc[p] \in Targeted PROVE RowsExist'
  <2> DEFINE r == [req[p] EXCEPT !.seen = "canceled"]
  <2>1. Goto(p, label, r) /\ r.bk = req[p].bk /\ r.todo = req[p].todo
    BY <1>0, <1>3 DEF PayGiveUpIntent, Req
  <2> HIDE DEF r
  <2>2. Silent
    BY <1>0, <1>3, StatusIsSilent DEF PayGiveUpIntent, OnlyPayments
  <2> QED
    BY <1>3, <2>1, <2>2, SameTarget
<1>4. ASSUME NEW label, Goto(p, label, req[p]), pc[p] \in Targeted, UNCHANGED db
      PROVE  RowsExist'
  BY <1>4, QuietIsSilent, SameTarget
<1>5. CASE PayRetrieve(p)
  BY <1>3, <1>4, <1>5, <1>f, <1>l DEF PayRetrieve
<1>6. CASE PayReread(p)
  <2> DEFINE r == [req[p] EXCEPT !.seen = Reread(p).status, !.intent = Reread(p).intent]
  <2>1. r.bk = req[p].bk /\ r.todo = req[p].todo
    BY <1>0 DEF Req
  <2>2. \E label : Goto(p, label, r)
    BY <1>6 DEF PayReread
  <2>3. UNCHANGED db /\ pc[p] \in Targeted
    BY <1>6, <1>l DEF PayReread
  <2> HIDE DEF r
  <2> QED
    BY <2>1, <2>2, <2>3, QuietIsSilent, SameTarget
<1>7. CASE PayRetrieveFailed(p)
  <2>1. CASE PayStatus(req[p].bk, "requires") /\ Finish(p) /\ OnlyPayments
    BY <1>0, <2>1, StatusIsSilent, SilentFinish DEF OnlyPayments
  <2> QED
    BY <1>3, <1>4, <1>7, <1>l, <2>1 DEF PayRetrieveFailed
<1>8. CASE PayConfirm(p)
  <2>1. pc[p] \in Targeted
    BY <1>8, <1>l DEF PayConfirm
  <2> QED
    BY <1>8, <2>1, ConfirmRows, NoTarget, RowsStep DEF PayConfirm, Finish
<1>9. CASE PayCreate(p)
  <2>1. UNCHANGED db /\ pc[p] \in Targeted
    BY <1>9, <1>l DEF PayCreate
  <2>2. ASSUME NEW i, Goto(p, "pay_store", [req[p] EXCEPT !.intent = i]) PROVE RowsExist'
    <3> DEFINE r == [req[p] EXCEPT !.intent = i]
    <3>1. Goto(p, "pay_store", r) /\ r.bk = req[p].bk /\ r.todo = req[p].todo
      BY <1>0, <2>2 DEF Req
    <3> HIDE DEF r
    <3> QED
      BY <2>1, <3>1, QuietIsSilent, SameTarget
  <2> QED
    BY <1>9, <1>f, <2>1, <2>2 DEF PayCreate
<1>10. CASE PayStore(p)
  <2>1. req[p].bk \in Bookings /\ Exists(req[p].bk)
    BY <1>10, <1>l, TargetRows DEF PayStore
  <2>2. UNCHANGED bookings /\ \A b \in Bookings \ {req[p].bk} : payments'[b] = payments[b]
    BY <1>0, <1>10 DEF PayStore, DbTypeOK
  <2>3. \A b \in Bookings : Exists(b) => Exists(b)'
    BY <2>2 DEF Exists
  <2> QED
    BY <1>10, <2>1, <2>2, <2>3, NoTarget, RowsStep DEF PayStore, Finish
<1> QED
  BY <1>1, <1>2, <1>5, <1>6, <1>7, <1>8, <1>9, <1>10 DEF Pay

LEMMA WebhookRows ==
    ASSUME TypeInv, RowsExist, NEW p \in Procs, Webhook(p)
    PROVE  RowsExist'
<1>0. DbTypeOK /\ LocalsOK /\ StripeTypeOK /\ req[p] \in Req
  BY LocalTypes DEF TypeInv
<1>l. {"hook_lock", "hook_seats", "hook_service", "hook_confirm", "hook_refund",
       "hook_cancel"} \subseteq Targeted
  BY DEF Labels, Targeted
<1>f. ASSUME Finish(p), UNCHANGED db PROVE RowsExist'
  BY <1>f, QuietIsSilent, SilentFinish
\* An event is of an intent that Stripe made, so a payment row that names it is
\* no empty one.
<1>1. ASSUME NEW e \in events, BeginWebhook(p, e) PROVE RowsExist'
  <2>1. PICK b \in Bookings :
          /\ payments[b].intent = e.intent
          /\ Goto(p, "hook_lock", [NoReq EXCEPT !.bk = b, !.intent = e.intent,
                                                !.event = e.type])
    BY <1>1 DEF BeginWebhook
  <2> DEFINE r == [NoReq EXCEPT !.bk = b, !.intent = e.intent, !.event = e.type]
  <2>2. Goto(p, "hook_lock", r) /\ r.bk = b /\ r.todo = {}
    BY <2>1 DEF NoReq
  <2> HIDE DEF r
  <2>3. e.intent # NoIntent
    BY <1>0, MaxIntentsAssumption DEF StripeTypeOK, Event, Intents, NoIntent
  <2>4. Exists(b) /\ Silent
    BY <1>1, <2>1, <2>3, QuietIsSilent DEF RowsExist, BeginWebhook
  <2> QED
    BY <2>2, <2>4, SilentStep
<1>2. CASE HookLock(p)
  <2>1. UNCHANGED bookings /\ pc[p] \in Targeted
    BY <1>2, <1>l DEF HookLock, OnlyPayments
  <2>2. Silent
    BY <1>0, <1>2, <2>1, StatusIsSilent
    DEF HookLock, HookFailed, HookSucceeded, Silent, DbTypeOK, Payment
  <2> DEFINE r == [req[p] EXCEPT
                     !.seen = payments[req[p].bk].status,
                     !.cap = service.max_capacity,
                     !.want = IF Pending(req[p].bk) THEN bookings[req[p].bk].units ELSE {},
                     !.reserved = Reserved(req[p].bk)]
  <2>3. r.bk = req[p].bk /\ r.todo = req[p].todo
    BY <1>0 DEF Req
  <2>4. Finish(p) \/ \E label : Goto(p, label, r)
    BY <1>2 DEF HookLock, HookFailed, HookSucceeded
  <2> HIDE DEF r
  <2> QED
    BY <2>1, <2>2, <2>3, <2>4, SilentFinish, SameTarget
<1>3. CASE HookSeats(p) \/ HookService(p)
  <2>1. UNCHANGED db /\ pc[p] \in Targeted /\ \E label : Goto(p, label, req[p])
    BY <1>3, <1>l DEF HookSeats, HookService
  <2> QED
    BY <2>1, QuietIsSilent, SameTarget
<1>4. CASE HookConfirm(p)
  <2>1. pc[p] \in Targeted
    BY <1>4, <1>l DEF HookConfirm
  <2> QED
    BY <1>4, <2>1, ConfirmRows, NoTarget, RowsStep DEF HookConfirm, Finish
<1>5. CASE HookRefund(p)
  <2> DEFINE r == [req[p] EXCEPT !.settle = "refunded"]
  <2>1. r.bk = req[p].bk /\ r.todo = req[p].todo
    BY <1>0 DEF Req
  <2>2. /\ UNCHANGED db /\ pc[p] \in Targeted
        /\ Finish(p) \/ Goto(p, "hook_cancel", r)
    BY <1>5, <1>l DEF HookRefund
  <2> HIDE DEF r
  <2> QED
    BY <1>f, <2>1, <2>2, QuietIsSilent, SameTarget
<1>6. CASE HookCancel(p)
  <2>1. req[p].bk \in Bookings
    BY <1>6, <1>l, TargetRows DEF HookCancel
  <2>2. /\ \A b \in Bookings : Exists(b) => Exists(b)'
        /\ \A b \in Bookings : payments'[b].intent = payments[b].intent
    BY <1>6, <2>1, CancelRows DEF HookCancel
  <2> QED
    BY <1>6, <2>2, NoTarget, RowsStep DEF HookCancel, Finish
<1> QED
  BY <1>1, <1>2, <1>3, <1>4, <1>5, <1>6 DEF Webhook

LEMMA CancelBookingRows ==
    ASSUME TypeInv, RowsExist, NEW p \in Procs, CancelBooking(p)
    PROVE  RowsExist'
<1>0. DbTypeOK /\ LocalsOK /\ req[p] \in Req
  BY LocalTypes DEF TypeInv
<1>l. {"cancel_lock", "cancel_refund", "cancel_intent", "cancel_commit"} \subseteq Targeted
  BY DEF Labels, Targeted
<1>f. ASSUME Finish(p), UNCHANGED db PROVE RowsExist'
  BY <1>f, QuietIsSilent, SilentFinish
<1>1. ASSUME NEW b \in Bookings, BeginCancel(p, b) PROVE RowsExist'
  <2> DEFINE r == [NoReq EXCEPT !.now = clock, !.bk = b]
  <2>1. Goto(p, "cancel_lock", r) /\ r.bk = b /\ r.todo = {}
    BY <1>1 DEF BeginCancel, NoReq
  <2> HIDE DEF r
  <2>2. Silent /\ Exists(b)
    BY <1>1, QuietIsSilent DEF BeginCancel, Live, Exists
  <2> QED
    BY <2>1, <2>2, SilentStep
<1>2. CASE CancelLock(p)
  <2>1. UNCHANGED db /\ pc[p] \in Targeted
    BY <1>2, <1>l DEF CancelLock
  <2> DEFINE r(settle) == [req[p] EXCEPT !.intent = payments[req[p].bk].intent,
                                         !.want = bookings[req[p].bk].units,
                                         !.settle = settle]
  <2>2. \A settle : r(settle).bk = req[p].bk /\ r(settle).todo = req[p].todo
    BY <1>0 DEF Req
  <2>3. Finish(p) \/ \E label, settle : Goto(p, label, r(settle))
    BY <1>2 DEF CancelLock
  <2> HIDE DEF r
  <2> QED
    BY <1>f, <2>1, <2>2, <2>3, QuietIsSilent, SameTarget
<1>3. CASE CancelRefund(p) \/ CancelIntent(p)
  <2> DEFINE r(settle) == [req[p] EXCEPT !.settle = settle]
  <2>1. \A settle : r(settle).bk = req[p].bk /\ r(settle).todo = req[p].todo
    BY <1>0 DEF Req
  <2>2. /\ UNCHANGED db /\ pc[p] \in Targeted
        /\ \/ Finish(p)
           \/ Goto(p, "cancel_commit", req[p])
           \/ \E settle : Goto(p, "cancel_commit", r(settle))
    BY <1>3, <1>l DEF CancelRefund, CancelIntent
  <2> HIDE DEF r
  <2> QED
    BY <1>f, <2>1, <2>2, QuietIsSilent, SameTarget
<1>4. CASE CancelCommit(p)
  <2>1. req[p].bk \in Bookings
    BY <1>4, <1>l, TargetRows DEF CancelCommit
  <2>2. /\ \A b \in Bookings : Exists(b) => Exists(b)'
        /\ \A b \in Bookings : payments'[b].intent = payments[b].intent
    BY <1>4, <2>1, CancelRows DEF CancelCommit
  <2> QED
    BY <1>4, <2>2, NoTarget, RowsStep DEF CancelCommit, Finish
<1> QED
  BY <1>1, <1>2, <1>3, <1>4 DEF CancelBooking

LEMMA SweepRows ==
    ASSUME TypeInv, RowsExist, NEW p \in Procs, Sweep(p)
    PROVE  RowsExist'
<1>0. DbTypeOK /\ LocalsOK /\ req[p] \in Req
  BY LocalTypes DEF TypeInv
<1>l. {"sweep_lock", "sweep_intent", "sweep_retrieve", "sweep_seats", "sweep_service",
       "sweep_confirm", "sweep_refund", "sweep_release"} \subseteq Targeted
  BY DEF Labels, Targeted
<1>n. ASSUME NextCandidate(p), UNCHANGED db PROVE RowsExist'
  BY <1>n, QuietIsSilent, SilentNext
<1>h. ASSUME NEW label, NEW r, Goto(p, label, r), r.bk = req[p].bk, r.todo = req[p].todo,
             pc[p] \in Targeted, UNCHANGED db
      PROVE  RowsExist'
  BY <1>h, QuietIsSilent, SameTarget
<1>s. \A settle : /\ [req[p] EXCEPT !.settle = settle].bk = req[p].bk
                  /\ [req[p] EXCEPT !.settle = settle].todo = req[p].todo
  BY <1>0 DEF Req
<1>1. CASE BeginSweep(p)
  <2> DEFINE candidates == {b \in Bookings : Pending(b) /\ Expired(b, clock)}
             r == [NoReq EXCEPT !.now = clock, !.todo = candidates]
  <2>1. Goto(p, "sweep_next", r) /\ r.todo = candidates
    BY <1>1 DEF BeginSweep, NoReq
  <2>2. \A b \in candidates : b \in Bookings /\ Exists(b)
    BY DEF Pending, Exists
  <2> HIDE DEF candidates, r
  <2> QED
    BY <1>1, <2>1, <2>2, NoTarget, QuietIsSilent, SilentStep DEF BeginSweep
<1>2. CASE SweepNext(p)
  <2>1. PICK b \in req[p].todo :
          Goto(p, "sweep_lock", [req[p] EXCEPT !.bk = b, !.todo = @ \ {b}])
    BY <1>2 DEF SweepNext
  <2> DEFINE r == [req[p] EXCEPT !.bk = b, !.todo = @ \ {b}]
  <2>2. Goto(p, "sweep_lock", r) /\ r.bk = b /\ r.todo = req[p].todo \ {b}
    BY <1>0, <2>1 DEF Req
  <2> HIDE DEF r
  <2>3. Silent
    BY <1>2, QuietIsSilent DEF SweepNext
  <2> QED
    BY <2>2, <2>3, TargetRows, SilentStep
<1>3. CASE SweepEnd(p)
  BY <1>3, QuietIsSilent, SilentFinish DEF SweepEnd
<1>4. CASE SweepLock(p)
  <2> DEFINE r == [req[p] EXCEPT !.intent = payments[req[p].bk].intent,
                                 !.want = bookings[req[p].bk].units]
  <2>1. r.bk = req[p].bk /\ r.todo = req[p].todo
    BY <1>0 DEF Req
  <2>2. /\ UNCHANGED db /\ pc[p] \in Targeted
        /\ NextCandidate(p) \/ \E label : Goto(p, label, r)
    BY <1>4, <1>l DEF SweepLock
  <2> HIDE DEF r
  <2> QED
    BY <1>n, <1>h, <2>1, <2>2
<1>5. CASE SweepIntent(p)
  <2>1. /\ UNCHANGED db /\ pc[p] \in Targeted
        /\ \/ NextCandidate(p)
           \/ Goto(p, "sweep_retrieve", req[p])
           \/ Goto(p, "sweep_release", [req[p] EXCEPT !.settle = "canceled"])
    BY <1>5, <1>l DEF SweepIntent, Skip
  <2> QED
    BY <1>n, <1>h, <1>s, <2>1
<1>6. CASE SweepRetrieve(p)
  <2> DEFINE r == [req[p] EXCEPT !.cap = service.max_capacity,
                                 !.reserved = Reserved(req[p].bk)]
  <2>1. r.bk = req[p].bk /\ r.todo = req[p].todo
    BY <1>0 DEF Req
  <2>2. /\ UNCHANGED db /\ pc[p] \in Targeted
        /\ \/ NextCandidate(p)
           \/ Goto(p, "sweep_release", [req[p] EXCEPT !.settle = "canceled"])
           \/ \E label : Goto(p, label, r)
    BY <1>6, <1>l DEF SweepRetrieve, Skip
  <2> HIDE DEF r
  <2> QED
    BY <1>n, <1>h, <1>s, <2>1, <2>2
<1>7. CASE SweepSeats(p) \/ SweepService(p)
  <2>1. UNCHANGED db /\ pc[p] \in Targeted /\ \E label : Goto(p, label, req[p])
    BY <1>7, <1>l DEF SweepSeats, SweepService
  <2> QED
    BY <1>h, <2>1
<1>8. CASE SweepConfirm(p)
  <2> DEFINE r == [NoReq EXCEPT !.now = req[p].now, !.todo = req[p].todo]
  <2>1. Goto(p, "sweep_next", r) /\ r.todo = req[p].todo
    BY <1>8 DEF SweepConfirm, NextCandidate, NoReq
  <2> HIDE DEF r
  <2>2. pc[p] \in Targeted
    BY <1>8, <1>l DEF SweepConfirm
  <2> QED
    BY <1>8, <2>1, <2>2, ConfirmRows, TargetRows, NoTarget, RowsStep DEF SweepConfirm
<1>9. CASE SweepRefund(p)
  <2>1. /\ UNCHANGED db /\ pc[p] \in Targeted
        /\ \/ NextCandidate(p)
           \/ Goto(p, "sweep_release", [req[p] EXCEPT !.settle = "refunded"])
    BY <1>9, <1>l DEF SweepRefund
  <2> QED
    BY <1>n, <1>h, <1>s, <2>1
<1>10. CASE SweepRelease(p)
  <2> DEFINE r == [NoReq EXCEPT !.now = req[p].now, !.todo = req[p].todo]
  <2>1. Goto(p, "sweep_next", r) /\ r.todo = req[p].todo
    BY <1>10 DEF SweepRelease, NextCandidate, NoReq
  <2> HIDE DEF r
  <2>2. req[p].bk \in Bookings
    BY <1>10, <1>l, TargetRows DEF SweepRelease
  <2>3. /\ \A b \in Bookings : Exists(b) => Exists(b)'
        /\ \A b \in Bookings : payments'[b].intent = payments[b].intent
    BY <1>10, <2>2, CancelRows DEF SweepRelease
  <2> QED
    BY <2>1, <2>3, TargetRows, NoTarget, RowsStep
<1>11. CASE SweepItemError(p)
  BY <1>n, <1>11 DEF SweepItemError
<1> QED
  BY <1>1, <1>2, <1>3, <1>4, <1>5, <1>6, <1>7, <1>8, <1>9, <1>10, <1>11 DEF Sweep

LEMMA SellerRows ==
    ASSUME TypeInv, RowsExist, NEW p \in Procs, Seller(p)
    PROVE  RowsExist'
<1>l. {"update_commit", "delete_commit"} \cap Targeted = {}
  BY DEF Targeted
<1>1. Silent
  BY QuietIsSilent DEF Seller, BeginUpdate, UpdateCommit, BeginDelete, DeleteCommit, db, Silent
<1>2. \/ Finish(p)
      \/ \E cap : Goto(p, "update_commit", [NoReq EXCEPT !.cap = cap])
      \/ \E hist : Goto(p, "delete_commit", [NoReq EXCEPT !.hist = hist])
  BY DEF Seller, BeginUpdate, UpdateCommit, BeginDelete, DeleteCommit
<1>3. \A x : [NoReq EXCEPT !.cap = x].todo = {} /\ [NoReq EXCEPT !.hist = x].todo = {}
  BY DEF NoReq
<1> QED
  BY <1>l, <1>1, <1>2, <1>3, SilentFinish, SilentStep

LEMMA LockSeatRows ==
    ASSUME TypeInv, RowsExist, NEW p \in Procs, LockSeat(p)
    PROVE  RowsExist'
<1>1. PICK s : req' = [req EXCEPT ![p].want = @ \ {s}]
  BY DEF LockSeat
<1>2. /\ \A q \in Procs : req'[q].bk = req[q].bk /\ req'[q].todo = req[q].todo
      /\ UNCHANGED <<bookings, payments, pc>>
  BY <1>1 DEF LockSeat, db, TypeInv, LocalsOK, ProcsTypeOK, Req
<1> QED
  BY <1>2 DEF RowsExist, TargetExists, Exists

LEMMA RowsNext == TypeInv /\ RowsExist /\ [Next]_vars => RowsExist'
<1> SUFFICES ASSUME TypeInv, RowsExist, [Next]_vars PROVE RowsExist'
  OBVIOUS
<1> USE DEF Procs
<1>s. ASSUME UNCHANGED <<db, pc, req>> PROVE RowsExist'
  BY <1>s DEF RowsExist, TargetExists, Exists, db
<1>1. ASSUME NEW p \in Requests, Create(p) \/ Pay(p) \/ Webhook(p) \/ CancelBooking(p)
      PROVE  RowsExist'
  BY <1>1, CreateRows, PayRows, WebhookRows, CancelBookingRows
<1>2. ASSUME NEW p \in Sweepers, Sweep(p) PROVE RowsExist'
  BY <1>2, SweepRows
<1>3. ASSUME NEW p \in Sellers, Seller(p) PROVE RowsExist'
  BY <1>3, SellerRows
<1>4. ASSUME NEW p \in Procs, LockSeat(p) PROVE RowsExist'
  BY <1>4, LockSeatRows
<1>5. ASSUME NEW p \in Procs, Crash(p) PROVE RowsExist'
  BY <1>5, QuietIsSilent, SilentFinish DEF Crash
<1>6. CASE Stripe \/ Tick \/ UNCHANGED vars
  BY <1>s, <1>6 DEF Stripe, Tick, vars
<1> QED
  BY <1>1, <1>2, <1>3, <1>4, <1>5, <1>6 DEF Next

LEMMA RowsInit == Init => RowsExist
BY DEF Init, StoreInit, RowsExist, TargetExists, NoPayment, NoReq, Targeted

LEMMA RowsExistHolds == Spec => []RowsExist
BY RowsInit, RowsNext, TypeInvHolds, PTL DEF Spec

-----------------------------------------------------------------------------
(* The steps that write bookings, seats or what is on record of them *)

ConfirmLabels == {"pay_confirm", "hook_confirm", "sweep_confirm"}

LEMMA WritingActions ==
    ASSUME [Next]_vars
    PROVE  \/ UNCHANGED <<bookings, seats, cancellations, invoices, mails>>
           \/ \E p \in Procs : CreateInsert(p)
           \/ \E p \in Procs : PayConfirm(p) \/ HookConfirm(p) \/ SweepConfirm(p)
           \/ \E p \in Procs : HookCancel(p) \/ CancelCommit(p) \/ SweepRelease(p)
<1> USE DEF Procs
<1> DEFINE Quiet == UNCHANGED <<bookings, seats, cancellations, invoices, mails>>
<1>1. ASSUME NEW p \in Requests, Create(p) PROVE Quiet \/ CreateInsert(p)
  BY <1>1 DEF Create, BeginCreate, CreateLockUser, CreateSeats, CreateSlot, db
<1>2. ASSUME NEW p \in Requests, Pay(p)
      PROVE  Quiet \/ PayConfirm(p)
  BY <1>2 DEF Pay, BeginPay, PayLock, PayRetrieve, PayReread, PayRetrieveFailed, PayCreate,
              PayStore, PayGiveUpIntent, OnlyPayments, db
<1>3. ASSUME NEW p \in Requests, Webhook(p)
      PROVE  Quiet \/ HookCancel(p) \/ HookConfirm(p)
  BY <1>3 DEF Webhook, BeginWebhook, HookLock, OnlyPayments, HookSeats, HookService, HookRefund,
              db
<1>4. ASSUME NEW p \in Requests, CancelBooking(p) PROVE Quiet \/ CancelCommit(p)
  BY <1>4 DEF CancelBooking, BeginCancel, CancelLock, CancelRefund, CancelIntent, db
<1>5. ASSUME NEW p \in Sweepers, Sweep(p)
      PROVE  Quiet \/ SweepRelease(p) \/ SweepConfirm(p)
  BY <1>5 DEF Sweep, BeginSweep, SweepNext, SweepEnd, SweepLock, SweepIntent, SweepRetrieve,
              SweepSeats, SweepService, SweepRefund, SweepItemError, db
<1>6. ASSUME NEW p \in Sellers, Seller(p) PROVE Quiet
  BY <1>6 DEF Seller, BeginUpdate, UpdateCommit, BeginDelete, DeleteCommit, db
<1>7. ASSUME NEW p \in Procs, LockSeat(p) \/ Crash(p) PROVE Quiet
  BY <1>7 DEF LockSeat, Crash, db
<1>8. CASE Stripe \/ Tick \/ UNCHANGED vars
  BY <1>8 DEF Stripe, Tick, vars, db
<1> HIDE DEF Quiet
<1>9. \/ Quiet
      \/ \E p \in Procs : CreateInsert(p)
      \/ \E p \in Procs : PayConfirm(p) \/ HookConfirm(p) \/ SweepConfirm(p)
      \/ \E p \in Procs : HookCancel(p) \/ CancelCommit(p) \/ SweepRelease(p)
  <2>1. CASE Stripe \/ Tick \/ UNCHANGED vars
    BY <1>8, <2>1 DEF Quiet
  <2>2. CASE \E p \in Requests : Create(p) \/ Pay(p) \/ Webhook(p) \/ CancelBooking(p)
    BY <1>1, <1>2, <1>3, <1>4, <2>2
  <2>3. CASE \/ \E p \in Sweepers : Sweep(p)
             \/ \E p \in Sellers : Seller(p)
             \/ \E p \in Procs : LockSeat(p) \/ Crash(p)
    BY <1>5, <1>6, <1>7, <2>3
  <2> QED
    BY <2>1, <2>2, <2>3 DEF Next
<1> QED
  BY <1>9 DEF Quiet

LEMMA WritersOfNext ==
    ASSUME [Next]_vars
    PROVE  \/ UNCHANGED <<bookings, seats, cancellations, invoices, mails>>
           \/ \E p \in Procs : CreateInsert(p)
           \/ \E p \in Procs : pc[p] \in ConfirmLabels /\ Confirm(p, req[p].bk)
           \/ \E p \in Procs : HookCancel(p) \/ CancelCommit(p) \/ SweepRelease(p)
<1>1. ASSUME NEW p \in Procs, PayConfirm(p) \/ HookConfirm(p) \/ SweepConfirm(p)
      PROVE  pc[p] \in ConfirmLabels /\ Confirm(p, req[p].bk)
  BY <1>1 DEF PayConfirm, HookConfirm, SweepConfirm, ConfirmLabels
<1> QED
  BY <1>1, WritingActions

LEMMA ConfirmWrites ==
    ASSUME TypeInv, NEW p, NEW b \in Bookings, Confirm(p, b)
    PROVE  /\ bookings'[b].status = "confirmed" /\ bookings'[b].total = bookings[b].total
           /\ bookings'[b].units = bookings[b].units
           /\ \A c \in Bookings \ {b} : bookings'[c] = bookings[c] /\ payments'[c] = payments[c]
           /\ payments'[b].status = "succeeded"
           /\ invoices' = invoices \cup {b}
           /\ Enqueue("invoice", b)
           /\ UNCHANGED <<cancellations, stripe>>
BY DEF Confirm, TypeInv, DbTypeOK, Booking

LEMMA CancelWrites ==
    ASSUME TypeInv, NEW p, NEW b \in Bookings, NEW freed, NEW pay, NEW refund,
           Cancel(p, b, freed, pay, refund)
    PROVE  /\ bookings'[b].status = "cancelled" /\ bookings'[b].total = bookings[b].total
           /\ bookings'[b].units = bookings[b].units
           /\ \A c \in Bookings \ {b} : bookings'[c] = bookings[c] /\ payments'[c] = payments[c]
           /\ payments'[b].status = pay
           /\ \A c \in Bookings : \/ cancellations'[c] = cancellations[c]
                                  \/ c = b /\ cancellations'[c] = refund
           /\ seats' = freed
           /\ UNCHANGED <<invoices, stripe>>
BY DEF Cancel, TypeInv, DbTypeOK, Booking, Payment

-----------------------------------------------------------------------------
(* The event *)

LEMMA ServiceWriters ==
    ASSUME [Next]_vars
    PROVE  UNCHANGED service \/ \E p \in Procs : UpdateCommit(p) \/ DeleteCommit(p)
<1> USE DEF db
<1>1. ASSUME NEW p \in Procs, Create(p) \/ Pay(p) \/ Webhook(p) PROVE UNCHANGED service
  BY <1>1 DEF Create, BeginCreate, CreateLockUser, CreateSeats, CreateSlot, CreateInsert,
              Pay, BeginPay, PayLock, PayRetrieve, PayReread, PayRetrieveFailed, PayCreate,
              PayStore, PayGiveUpIntent, PayConfirm, OnlyPayments, Confirm,
              Webhook, BeginWebhook, HookLock, HookSeats, HookService, HookRefund, HookConfirm,
              HookCancel, Cancel
<1>2. ASSUME NEW p \in Procs, CancelBooking(p) \/ Sweep(p) PROVE UNCHANGED service
  BY <1>2 DEF CancelBooking, BeginCancel, CancelLock, CancelRefund, CancelIntent, CancelCommit,
              Cancel, Sweep, BeginSweep, SweepNext, SweepEnd, SweepLock, SweepIntent,
              SweepRetrieve, SweepSeats, SweepService, SweepRefund, SweepItemError,
              SweepConfirm, SweepRelease, Confirm
<1>3. ASSUME NEW p \in Procs, Seller(p) \/ LockSeat(p) \/ Crash(p)
      PROVE  UNCHANGED service \/ UpdateCommit(p) \/ DeleteCommit(p)
  BY <1>3 DEF Seller, BeginUpdate, BeginDelete, LockSeat, Crash
<1>4. CASE UNCHANGED <<db, mails, locks, pc, req>>
  BY <1>4
<1> QED
  BY <1>1, <1>2, <1>3, <1>4, NextMoves DEF Acts

LEMMA DeletedStep ==
    ASSUME TypeInv, RowsExist, DeletedHasNoBookings, [Next]_vars, NEW c \in Bookings,
           service'.state = "deleted"
    PROVE  bookings'[c].status = "none"
<1>1. CASE service.state = "deleted"
  <2>1. \A b \in Bookings : ~Exists(b)
    BY <1>1 DEF DeletedHasNoBookings, Exists
  <2>2. ASSUME NEW p \in Procs, CreateInsert(p) PROVE UNCHANGED bookings
    BY <1>1, <2>2 DEF CreateInsert, db
  <2>3. ASSUME NEW p \in Procs PROVE pc[p] \notin Targeted
    BY <2>1, TargetRows
  <2>4. UNCHANGED bookings
    BY <2>2, <2>3, WritersOfNext
    DEF ConfirmLabels, HookCancel, CancelCommit, SweepRelease, Targeted, Labels
  <2> QED
    BY <1>1, <2>4 DEF DeletedHasNoBookings
<1>2. CASE service.state # "deleted"
  <2>1. PICK p \in Procs : UpdateCommit(p) \/ DeleteCommit(p)
    BY <1>2, ServiceWriters
  <2>2. CASE UpdateCommit(p)
    <3>1. service' = [service EXCEPT !.max_capacity = req[p].cap]
      BY <1>2, <2>2 DEF UpdateCommit
    <3>2. service'.state = service.state
      BY <3>1 DEF TypeInv, DbTypeOK, Service
    <3> QED
      BY <1>2, <3>2
  <2>3. CASE DeleteCommit(p)
    <3>1. \/ service' = service \/ service' = [service EXCEPT !.state = "archived"]
          \/ ~ \E b \in Bookings : bookings[b].status # "none"
      BY <2>3 DEF DeleteCommit
    <3>2. service \in Service
      BY DEF TypeInv, DbTypeOK
    <3>3. ~ \E b \in Bookings : bookings[b].status # "none"
      BY <1>2, <3>1, <3>2 DEF Service
    <3>4. UNCHANGED bookings
      BY <2>3 DEF DeleteCommit
    <3> QED
      BY <3>3, <3>4
  <2> QED
    BY <2>1, <2>2, <2>3
<1> QED
  BY <1>1, <1>2

\* delete_service and create_booking both check before they write; a deleted
\* event has no booking all the same.
THEOREM DeletedIsUnbooked == Spec => []DeletedHasNoBookings
<1>1. Init => DeletedHasNoBookings
  BY DEF Init, StoreInit, NoBooking, DeletedHasNoBookings
<1>2. TypeInv /\ RowsExist /\ DeletedHasNoBookings /\ [Next]_vars => DeletedHasNoBookings'
  BY DeletedStep DEF DeletedHasNoBookings
<1> QED
  BY <1>1, <1>2, TypeInvHolds, RowsExistHolds, PTL DEF Spec
=============================================================================
