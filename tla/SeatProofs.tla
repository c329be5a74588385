----------------------------- MODULE SeatProofs -----------------------------
(***************************************************************************)
(* No seat is ever sold twice: the proof that seats and bookings agree in  *)
(* every reachable state, for any number of customers, seats, requests,    *)
(* sweepers and sellers.  It holds if nothing else commits between the     *)
(* commit at payments.py:187, which gives up the booking's lock, and the   *)
(* read that follows it; without that premise it does not hold (the run    *)
(* UnlockedReread).  With it, reserved seating implements SeatLedger.      *)
(***************************************************************************)
EXTENDS TicketSystemProofs

SeatInv == TypeInv /\ SeatsMatchBookings /\ LocksProtect

-----------------------------------------------------------------------------
(* What a step of p must leave alone for the others to be protected still *)

\* The locks, the labels and the locals of the others stay.
LocksKept(p) ==
    /\ \A b \in Bookings : bookingLock[b] \notin {p, Null} => bookingLock'[b] = bookingLock[b]
    /\ \A s \in Seats : seatLock[s] \notin {p, Null} => seatLock'[s] = seatLock[s]
    /\ \A q \in Procs \ {p} : pc'[q] = pc[q] /\ req'[q] = req[q]

\* The rows of bookings that others have locked stay; one that no one else has
\* locked may change.
RowsKept(p) ==
    \A b \in Bookings : bookingLock[b] \notin {p, Null} /\ bookings[b].status # "none"
                            => bookings'[b] = bookings[b]

\* An available seat that another has locked stays available.
SeatsKept(p) ==
    \A s \in Seats : seatLock[s] \notin {p, Null} /\ seats[s] = "available"
                        => seats'[s] = "available"

LEMMA ReleaseKeeps ==
    ASSUME TypeInv, NEW p \in Procs, Release(p)
    PROVE  /\ \A b \in Bookings : bookingLock[b] \notin {p, Null} => bookingLock'[b] = bookingLock[b]
           /\ \A s \in Seats : seatLock[s] \notin {p, Null} => seatLock'[s] = seatLock[s]
BY DEF Release, TypeInv, LocksTypeOK

LEMMA FinishKeeps ==
    ASSUME TypeInv, NEW p \in Procs, Finish(p)
    PROVE  LocksKept(p) /\ pc'[p] = "idle" /\ req'[p] = NoReq
BY ReleaseKeeps, GotoKeeps DEF Finish, LocksKept

LEMMA LockBookingKeeps ==
    ASSUME TypeInv, NEW p \in Procs, NEW b \in Bookings, LockBooking(p, b),
           NEW label, NEW r, Goto(p, label, r)
    PROVE  LocksKept(p) /\ bookingLock'[b] = p
BY GotoKeeps DEF LockBooking, LocksKept, Free, TypeInv, LocksTypeOK

LEMMA SameLocksKeep ==
    ASSUME TypeInv, NEW p \in Procs, UNCHANGED locks, NEW label, NEW r, Goto(p, label, r)
    PROVE  LocksKept(p)
BY GotoKeeps DEF LocksKept, locks

LEMMA OthersProtected ==
    ASSUME SeatInv, NEW p \in Procs, LocksKept(p), RowsKept(p), SeatsKept(p), TypeInv',
           NEW q \in Procs \ {p}
    PROVE  BookingProtected(q)' /\ DraftProtected(q)'
<1> USE DEF SeatInv, LocksProtect
<1>1. pc'[q] = pc[q] /\ req'[q] = req[q] /\ q \notin {p, Null}
  BY NullIsNoProc DEF LocksKept
<1>2. BookingProtected(q)'
  <2> DEFINE b == req[q].bk
  <2>1. CASE pc[q] \in PendingLabels \cup LiveLabels \cup RefundLabels
    <3>1. b \in Bookings /\ bookingLock[b] = q /\ bookings[b].status # "none"
      BY <2>1, LocalTypes
      DEF BookingProtected, PendingLabels, LiveLabels, RefundLabels, Targeted, Labels, TypeInv,
          Pending, Live
    <3>2. bookingLock'[b] = q /\ bookings'[b] = bookings[b]
      BY <1>1, <3>1 DEF LocksKept, RowsKept
    <3> QED
      BY <1>1, <3>1, <3>2 DEF BookingProtected, Pending, Live
  <2>2. CASE pc[q] \notin PendingLabels \cup LiveLabels \cup RefundLabels
    BY <1>1, <2>2 DEF BookingProtected, PendingLabels, RefundLabels, ReservedLabels
  <2> QED
    BY <2>1, <2>2
<1>3. DraftProtected(q)'
  <2>1. \A s \in req[q].draft.units : s \in Seats
    BY LocalTypes DEF TypeInv
  <2>2. \A s \in Seats : seatLock[s] = q => /\ seatLock'[s] = q
                                            /\ seats[s] = "available" => seats'[s] = "available"
    BY <1>1 DEF LocksKept, SeatsKept
  <2> QED
    BY <1>1, <2>1, <2>2 DEF DraftProtected, UnitMode
<1> QED
  BY <1>1, <1>2, <1>3

-----------------------------------------------------------------------------
(* The writes to bookings and seats keep the two tables in agreement *)

LEMMA SameRowsMatch ==
    ASSUME SeatInv, UNCHANGED <<bookings, seats>>, NEW p \in Procs
    PROVE  SeatsMatchBookings' /\ RowsKept(p) /\ SeatsKept(p)
BY DEF SeatInv, SeatsMatchBookings, SeatSoldOnce, SeatStatus, Live, Pending, RowsKept, SeatsKept

\* create_booking inserts a booking whose seats it has locked and found available.
LEMMA InsertMatches ==
    ASSUME SeatInv, NEW p \in Procs, pc[p] = "create_insert", NEW b \in Bookings,
           bookings[b].status = "none",
           bookings' = [bookings EXCEPT ![b] = req[p].draft],
           seats' = SetSeats(req[p].draft.units, "reserved")
    PROVE  SeatsMatchBookings' /\ RowsKept(p) /\ SeatsKept(p)
<1> DEFINE draft == req[p].draft
<1>1. /\ draft.status = "pending" /\ draft.units \subseteq Seats
      /\ \A s \in draft.units : seatLock[s] = p /\ seats[s] = "available"
  BY LocalTypes DEF SeatInv, TypeInv, LocksProtect, DraftProtected
<1>2. /\ bookings'[b] = draft
      /\ \A c \in Bookings \ {b} : bookings'[c] = bookings[c]
      /\ \A s \in Seats : seats'[s] = IF s \in draft.units THEN "reserved" ELSE seats[s]
  BY DEF SeatInv, TypeInv, DbTypeOK, SetSeats
<1>3. ~Live(b)
  BY DEF Live
<1>4. \A c \in Bookings : Live(c) => bookings[c].units \cap draft.units = {}
  <2> SUFFICES ASSUME NEW c \in Bookings, Live(c), NEW s \in bookings[c].units,
                      s \in draft.units
               PROVE  FALSE
    OBVIOUS
  <2>1. seats[s] \in {"reserved", "booked"}
    BY DEF SeatInv, SeatsMatchBookings, SeatStatus
  <2> QED
    BY <1>1, <2>1
<1> HIDE DEF draft
<1>5. SeatSoldOnce'
  BY <1>2, <1>3, <1>4 DEF SeatInv, SeatsMatchBookings, SeatSoldOnce, Live
<1>6. ASSUME NEW c \in Bookings, Live(c)', NEW s \in bookings'[c].units
      PROVE  seats'[s] = SeatStatus(c)'
  <2>1. CASE c = b
    BY <1>1, <1>2, <2>1 DEF SeatStatus, Pending
  <2>2. CASE c # b
    <3>1. s \in Seats /\ Live(c) /\ s \in bookings[c].units
      BY <1>2, <1>6, <2>2 DEF Live, SeatInv, TypeInv, DbTypeOK, Booking
    <3>2. s \notin draft.units /\ seats[s] = SeatStatus(c)
      BY <1>4, <3>1 DEF SeatInv, SeatsMatchBookings
    <3> QED
      BY <1>2, <2>2, <3>1, <3>2 DEF SeatStatus, Pending
  <2> QED
    BY <2>1, <2>2
<1>7. ASSUME NEW s \in Seats, seats'[s] # "available"
      PROVE  \E c \in Bookings : Live(c)' /\ s \in bookings'[c].units
  <2>1. CASE s \in draft.units
    BY <1>1, <1>2, <2>1 DEF Live
  <2>2. CASE s \notin draft.units
    <3>1. PICK c \in Bookings : Live(c) /\ s \in bookings[c].units
      BY <1>2, <1>7, <2>2 DEF SeatInv, SeatsMatchBookings
    <3> QED
      BY <1>2, <1>3, <3>1 DEF Live
  <2> QED
    BY <2>1, <2>2
<1>8. RowsKept(p)
  BY <1>1, <1>2 DEF RowsKept, Live, Pending
<1>9. SeatsKept(p)
  BY <1>1, <1>2, NullIsNoProc DEF SeatsKept
<1> QED
  BY <1>5, <1>6, <1>7, <1>8, <1>9 DEF SeatsMatchBookings

\* A booking changes status and all its seats with it.
LEMMA StatusMatches ==
    ASSUME SeatInv, NEW p \in Procs, NEW b \in Bookings, Live(b), bookingLock[b] = p,
           NEW status \in {"confirmed", "cancelled"},
           NEW item, item = (IF status = "confirmed" THEN "booked" ELSE "available"),
           bookings' = [bookings EXCEPT ![b].status = status],
           seats' = SetSeats(bookings[b].units, item)
    PROVE  SeatsMatchBookings' /\ RowsKept(p) /\ SeatsKept(p)
<1>1. /\ bookings'[b].status = status /\ bookings'[b].units = bookings[b].units
      /\ \A c \in Bookings \ {b} : bookings'[c] = bookings[c]
      /\ \A s \in Seats : seats'[s] = IF s \in bookings[b].units THEN item ELSE seats[s]
      /\ bookings[b].units \subseteq Seats
  BY DEF SeatInv, TypeInv, DbTypeOK, SetSeats, Booking
<1>2. \A c \in Bookings : c # b /\ Live(c) => bookings[c].units \cap bookings[b].units = {}
  BY DEF SeatInv, SeatsMatchBookings, SeatSoldOnce
<1>3. SeatSoldOnce'
  BY <1>1, <1>2 DEF SeatInv, SeatsMatchBookings, SeatSoldOnce, Live
<1>4. ASSUME NEW c \in Bookings, Live(c)', NEW s \in bookings'[c].units
      PROVE  seats'[s] = SeatStatus(c)'
  <2>1. CASE c = b
    BY <1>1, <1>4, <2>1 DEF SeatStatus, Pending, Live
  <2>2. CASE c # b
    <3>1. s \in Seats /\ Live(c) /\ s \in bookings[c].units
      BY <1>1, <1>4, <2>2 DEF Live, SeatInv, TypeInv, DbTypeOK, Booking
    <3>2. s \notin bookings[b].units /\ seats[s] = SeatStatus(c)
      BY <1>2, <2>2, <3>1 DEF SeatInv, SeatsMatchBookings
    <3> QED
      BY <1>1, <2>2, <3>1, <3>2 DEF SeatStatus, Pending
  <2> QED
    BY <2>1, <2>2
<1>5. ASSUME NEW s \in Seats, seats'[s] # "available"
      PROVE  \E c \in Bookings : Live(c)' /\ s \in bookings'[c].units
  <2>1. CASE s \in bookings[b].units
    <3>1. status = "confirmed"
      BY <1>1, <1>5, <2>1
    <3> QED
      BY <1>1, <2>1, <3>1 DEF Live
  <2>2. CASE s \notin bookings[b].units
    <3>1. PICK c \in Bookings : Live(c) /\ s \in bookings[c].units
      BY <1>1, <1>5, <2>2 DEF SeatInv, SeatsMatchBookings
    <3> QED
      BY <1>1, <2>2, <3>1 DEF Live
  <2> QED
    BY <2>1, <2>2
<1>6. RowsKept(p)
  BY <1>1 DEF RowsKept, Live, Pending
<1>7. SeatsKept(p)
  <2> SUFFICES ASSUME NEW s \in Seats, seats[s] = "available" PROVE seats'[s] = "available"
    BY DEF SeatsKept
  <2>1. s \notin bookings[b].units
    BY DEF SeatInv, SeatsMatchBookings, SeatStatus
  <2> QED
    BY <1>1, <2>1
<1> QED
  BY <1>3, <1>4, <1>5, <1>6, <1>7 DEF SeatsMatchBookings

\* A booking that holds no seats may become cancelled under its lock.
LEMMA EmptyCancelMatches ==
    ASSUME SeatInv, NEW p \in Procs, NEW b \in Bookings, ~Live(b), bookingLock[b] = p,
           bookings' = [bookings EXCEPT ![b].status = "cancelled"],
           UNCHANGED seats
    PROVE  SeatsMatchBookings' /\ RowsKept(p) /\ SeatsKept(p)
<1>1. /\ ~Live(b)'
      /\ \A c \in Bookings \ {b} : bookings'[c] = bookings[c]
  BY DEF SeatInv, TypeInv, DbTypeOK, Booking, Live
<1>2. SeatSoldOnce'
  BY <1>1 DEF SeatInv, SeatsMatchBookings, SeatSoldOnce, Live
<1>3. ASSUME NEW c \in Bookings, Live(c)', NEW s \in bookings'[c].units
      PROVE  seats'[s] = SeatStatus(c)'
  BY <1>1, <1>3 DEF SeatInv, SeatsMatchBookings, SeatStatus, Live, Pending
<1>4. ASSUME NEW s \in Seats, seats'[s] # "available"
      PROVE  \E c \in Bookings : Live(c)' /\ s \in bookings'[c].units
  <2>1. PICK c \in Bookings : Live(c) /\ s \in bookings[c].units
    BY <1>4 DEF SeatInv, SeatsMatchBookings
  <2> QED
    BY <1>1, <2>1 DEF Live
<1>5. RowsKept(p) /\ SeatsKept(p)
  BY <1>1 DEF RowsKept, SeatsKept, Live, Pending
<1> QED
  BY <1>2, <1>3, <1>4, <1>5 DEF SeatsMatchBookings

-----------------------------------------------------------------------------
(* The kinds of step there are *)

HoldingLabels == PendingLabels \cup LiveLabels \cup RefundLabels

LEMMA StepPreserves ==
    ASSUME SeatInv, NEW p \in Procs, TypeInv', LocksKept(p), RowsKept(p), SeatsKept(p),
           SeatsMatchBookings', BookingProtected(p)', DraftProtected(p)'
    PROVE  SeatInv'
BY OthersProtected DEF SeatInv, LocksProtect

\* A step to a label at which nothing is relied on
LEMMA FreeStep ==
    ASSUME SeatInv, NEW p \in Procs, TypeInv', LocksKept(p), RowsKept(p), SeatsKept(p),
           SeatsMatchBookings',
           pc'[p] \notin HoldingLabels \cup CreateLabels
    PROVE  SeatInv'
<1>1. BookingProtected(p)'
  BY DEF BookingProtected, HoldingLabels, PendingLabels, LiveLabels, RefundLabels,
         ReservedLabels
<1>2. DraftProtected(p)'
  BY DEF DraftProtected, CreateLabels
<1> QED
  BY <1>1, <1>2, StepPreserves

LEMMA FinishStep ==
    ASSUME SeatInv, NEW p \in Procs, TypeInv', RowsKept(p), SeatsKept(p),
           SeatsMatchBookings', Finish(p)
    PROVE  SeatInv'
<1>1. "idle" \notin HoldingLabels \cup CreateLabels
  BY DEF HoldingLabels, PendingLabels, LiveLabels, RefundLabels, CreateLabels
<1> QED
  BY <1>1, FinishKeeps, FreeStep DEF SeatInv

LEMMA QuietFinish ==
    ASSUME SeatInv, NEW p \in Procs, TypeInv', UNCHANGED <<bookings, seats>>, Finish(p)
    PROVE  SeatInv'
BY SameRowsMatch, FinishStep

LEMMA QuietFreeStep ==
    ASSUME SeatInv, NEW p \in Procs, TypeInv', UNCHANGED <<bookings, seats>>, LocksKept(p),
           pc'[p] \notin HoldingLabels \cup CreateLabels
    PROVE  SeatInv'
BY SameRowsMatch, FreeStep

\* A pending booking has its seats reserved, so a handler that has it locked
\* loads all of them as RESERVED.
LEMMA ReservedIsAll ==
    ASSUME SeatInv, NEW b \in Bookings, Pending(b)
    PROVE  Reserved(b) = bookings[b].units
BY DEF SeatInv, SeatsMatchBookings, SeatStatus, Live, Pending, Reserved

\* A step of a handler that keeps its booking locked and writes neither table
LEMMA HoldingStep ==
    ASSUME SeatInv, NEW p \in Procs, TypeInv', UNCHANGED <<bookings, seats, bookingLock>>,
           LocksKept(p), req'[p].bk = req[p].bk,
           \/ pc[p] \in PendingLabels /\ pc'[p] \in PendingLabels \cup RefundLabels
           \/ pc[p] \in LiveLabels /\ pc'[p] \in LiveLabels
           \/ pc[p] \in RefundLabels /\ pc'[p] \in RefundLabels,
           pc'[p] \in ReservedLabels =>
              \/ req'[p].reserved = Reserved(req[p].bk)
              \/ pc[p] \in ReservedLabels /\ req'[p].reserved = req[p].reserved
    PROVE  SeatInv'
<1>0. req[p].bk \in Bookings
  BY LocalTypes
  DEF SeatInv, TypeInv, PendingLabels, LiveLabels, RefundLabels, Targeted, Labels
<1>1. BookingProtected(p)'
  <2> DEFINE b == req[p].bk
  <2>1. /\ bookingLock'[b] = p
        /\ pc'[p] \in PendingLabels => Pending(b)
        /\ pc'[p] \in LiveLabels => Live(b)
        /\ pc'[p] \in RefundLabels => bookings[b].status \in {"pending", "cancelled"}
    BY DEF SeatInv, LocksProtect, BookingProtected, PendingLabels, LiveLabels, RefundLabels,
           Pending
  <2>2. pc'[p] \in ReservedLabels /\ Pending(b) => req'[p].reserved = bookings[b].units
    BY <1>0, ReservedIsAll DEF SeatInv, LocksProtect, BookingProtected
  <2> QED
    BY <2>1, <2>2 DEF BookingProtected, Pending, Live
<1>2. DraftProtected(p)'
  BY DEF DraftProtected, PendingLabels, LiveLabels, RefundLabels
<1> QED
  BY <1>1, <1>2, SameRowsMatch, StepPreserves

\* A handler locks its booking and has checked its status.
LEMMA LockingStep ==
    ASSUME SeatInv, NEW p \in Procs, TypeInv', UNCHANGED <<bookings, seats>>,
           LocksKept(p), bookingLock'[req[p].bk] = p, req'[p].bk = req[p].bk,
           \/ Pending(req[p].bk) /\ pc'[p] \in PendingLabels
           \/ Live(req[p].bk) /\ pc'[p] \in LiveLabels
           \/ /\ bookings[req[p].bk].status \in {"pending", "cancelled"}
              /\ pc'[p] \in RefundLabels,
           pc'[p] \in ReservedLabels =>
              req[p].bk \in Bookings /\ req'[p].reserved = Reserved(req[p].bk)
    PROVE  SeatInv'
<1>1. BookingProtected(p)'
  BY ReservedIsAll DEF BookingProtected, PendingLabels, LiveLabels, RefundLabels, Pending, Live
<1>2. DraftProtected(p)'
  BY DEF DraftProtected, PendingLabels, LiveLabels, RefundLabels
<1> QED
  BY <1>1, <1>2, SameRowsMatch, StepPreserves

LEMMA LockServiceKeeps ==
    ASSUME TypeInv, NEW p \in Procs, LockService(p), NEW label, NEW r, Goto(p, label, r)
    PROVE  LocksKept(p) /\ UNCHANGED bookingLock
BY GotoKeeps DEF LockService, LocksKept

-----------------------------------------------------------------------------
(* Every step keeps the invariant *)

LEMMA CreateKeeps ==
    ASSUME SeatInv, NEW p \in Procs, Create(p)
    PROVE  SeatInv'
<1>t. TypeInv /\ TypeInv'
  BY CreateType DEF SeatInv
<1>b. ASSUME pc'[p] \in CreateLabels PROVE BookingProtected(p)'
  BY <1>b DEF CreateLabels, BookingProtected, PendingLabels, LiveLabels, RefundLabels,
              ReservedLabels
<1>1. ASSUME NEW u \in Users, NEW q \in 0..MaxTickets, NEW units \in SUBSET Seats,
             NEW total \in Prices, BeginCreate(p, u, q, units, total)
      PROVE  SeatInv'
  <2>1. /\ UNCHANGED <<bookings, seats>>
        /\ UNCHANGED locks
        /\ ~UnitMode => units = {}
    BY <1>1 DEF BeginCreate, db
  <2> DEFINE draft == [NoBooking EXCEPT !.status = "pending", !.user = u,
                         !.quantity = q, !.units = units, !.total = total]
             r == [NoReq EXCEPT !.now = clock, !.draft = draft]
  <2>2. Goto(p, "create_user", r)
    BY <1>1 DEF BeginCreate
  <2>3. r.draft.status = "pending" /\ r.draft.units = units
    BY DEF NoReq, NoBooking
  <2> HIDE DEF r
  <2>4. DraftProtected(p)' /\ pc'[p] \in CreateLabels
    BY <1>t, <2>1, <2>2, <2>3, GotoKeeps DEF DraftProtected, CreateLabels, UnitMode
  <2> QED
    BY <1>t, <1>b, <2>1, <2>2, <2>4, SameLocksKeep, SameRowsMatch, StepPreserves
<1>2. CASE CreateLockUser(p)
  <2>1. UNCHANGED <<bookings, seats>>
    BY <1>2 DEF CreateLockUser, db
  <2>2. CASE Finish(p)
    BY <1>t, <2>1, <2>2, QuietFinish
  <2>3. ASSUME NEW t \in req[p].now..clock,
               UNCHANGED <<bookingLock, seatLock, serviceLock>>,
               Goto(p, IF UnitMode THEN "create_seats" ELSE "create_slot",
                    [req[p] EXCEPT !.draft.created = t, !.want = req[p].draft.units,
                                   !.cap = service.max_capacity])
        PROVE  SeatInv'
    <3> DEFINE r == [req[p] EXCEPT !.draft.created = t, !.want = req[p].draft.units,
                                   !.cap = service.max_capacity]
    <3>1. /\ r.draft.status = req[p].draft.status
          /\ r.draft.units = req[p].draft.units
          /\ r.want = req[p].draft.units
      BY <1>t, LocalTypes DEF Req, Booking, TypeInv
    <3> HIDE DEF r
    <3>2. LocksKept(p) /\ req'[p] = r
          /\ pc'[p] = IF UnitMode THEN "create_seats" ELSE "create_slot"
      BY <1>t, <2>3, GotoKeeps DEF LocksKept, r
    <3>3. DraftProtected(p)' /\ pc'[p] \in CreateLabels
      BY <1>2, <3>1, <3>2
      DEF CreateLockUser, SeatInv, LocksProtect, DraftProtected, CreateLabels, UnitMode
    <3> QED
      BY <1>t, <1>b, <2>1, <3>2, <3>3, SameRowsMatch, StepPreserves
  <2> QED
    BY <1>2, <2>2, <2>3 DEF CreateLockUser
<1>3. CASE CreateSeats(p)
  <2>1. UNCHANGED <<bookings, seats>>
    BY <1>3 DEF CreateSeats, db
  <2>2. CASE Finish(p)
    BY <1>t, <2>1, <2>2, QuietFinish
  <2>3. CASE /\ \A s \in req[p].draft.units : seats[s] = "available"
             /\ Goto(p, "create_insert", req[p]) /\ UNCHANGED locks
    <3>1. pc'[p] = "create_insert" /\ req'[p] = req[p]
      BY <1>t, <2>3, GotoKeeps
    <3>2. DraftProtected(p)' /\ pc'[p] \in CreateLabels
      BY <1>3, <2>1, <2>3, <3>1
      DEF CreateSeats, SeatInv, LocksProtect, DraftProtected, CreateLabels, UnitMode, locks
    <3> QED
      BY <1>t, <1>b, <2>1, <2>3, <3>2, SameLocksKeep, SameRowsMatch, StepPreserves
  <2> QED
    BY <1>3, <2>2, <2>3 DEF CreateSeats
<1>4. CASE CreateSlot(p)
  <2>1. UNCHANGED <<bookings, seats>>
    BY <1>4 DEF CreateSlot, db
  <2>2. CASE Finish(p)
    BY <1>t, <2>1, <2>2, QuietFinish
  <2>3. CASE Goto(p, "create_insert", req[p]) /\ LockService(p)
    <3>1. pc'[p] = "create_insert" /\ req'[p] = req[p]
      BY <1>t, <2>3, GotoKeeps
    <3>2. DraftProtected(p)' /\ pc'[p] \in CreateLabels
      BY <1>4, <3>1
      DEF CreateSlot, SeatInv, LocksProtect, DraftProtected, CreateLabels, UnitMode
    <3> QED
      BY <1>t, <1>b, <2>1, <2>3, <3>2, LockServiceKeeps, SameRowsMatch, StepPreserves
  <2> QED
    BY <1>4, <2>2, <2>3 DEF CreateSlot
<1>5. CASE CreateInsert(p)
  <2>1. CASE UNCHANGED db
    BY <1>t, <1>5, <2>1, QuietFinish DEF CreateInsert, db
  <2>2. ASSUME NEW b \in Bookings, bookings[b].status = "none",
               bookings' = [bookings EXCEPT ![b] = req[p].draft],
               seats' = SetSeats(req[p].draft.units, "reserved")
        PROVE  SeatInv'
    BY <1>t, <1>5, <2>2, InsertMatches, FinishStep DEF CreateInsert
  <2> QED
    BY <1>5, <2>1, <2>2 DEF CreateInsert
<1> QED
  BY <1>1, <1>2, <1>3, <1>4, <1>5 DEF Create

\* confirm_booking_and_invoice, called by a handler that has the booking locked
LEMMA ConfirmMatches ==
    ASSUME SeatInv, NEW p \in Procs, pc[p] \in PendingLabels, Confirm(p, req[p].bk)
    PROVE  SeatsMatchBookings' /\ RowsKept(p) /\ SeatsKept(p)
<1>1. req[p].bk \in Bookings
  BY LocalTypes DEF SeatInv, TypeInv, PendingLabels, Targeted, Labels
<1>2. Live(req[p].bk) /\ bookingLock[req[p].bk] = p
  BY DEF SeatInv, LocksProtect, BookingProtected, Live, Pending
<1> QED
  BY <1>1, <1>2, StatusMatches DEF Confirm

\* A cancellation that gives back all the seats of a live booking
LEMMA CancelMatches ==
    ASSUME SeatInv, NEW p \in Procs, pc[p] \in PendingLabels \cup LiveLabels,
           NEW pay, NEW refund,
           Cancel(p, req[p].bk, SetSeats(bookings[req[p].bk].units, "available"), pay, refund)
    PROVE  SeatsMatchBookings' /\ RowsKept(p) /\ SeatsKept(p)
<1>1. req[p].bk \in Bookings
  BY LocalTypes DEF SeatInv, TypeInv, PendingLabels, LiveLabels, Targeted, Labels
<1>2. Live(req[p].bk) /\ bookingLock[req[p].bk] = p
  BY DEF SeatInv, LocksProtect, BookingProtected, Live, Pending
<1> QED
  BY <1>1, <1>2, StatusMatches DEF Cancel

LEMMA PayKeeps ==
    ASSUME SeatInv, RereadAtOnce, NEW p \in Procs, Pay(p)
    PROVE  SeatInv'
<1>t. TypeInv /\ TypeInv'
  BY PayType DEF SeatInv
<1>f. {"pay_lock", "pay_reread", "pay_create", "pay_store"} \cap
        (HoldingLabels \cup CreateLabels) = {}
  BY DEF HoldingLabels, PendingLabels, LiveLabels, RefundLabels, CreateLabels
<1>1. ASSUME NEW b \in Bookings, BeginPay(p, b) PROVE SeatInv'
  <2> DEFINE r == [NoReq EXCEPT !.now = clock, !.bk = b]
  <2>1. Goto(p, "pay_lock", r) /\ UNCHANGED locks /\ UNCHANGED <<bookings, seats>>
    BY <1>1 DEF BeginPay, db
  <2> HIDE DEF r
  <2>2. LocksKept(p) /\ pc'[p] = "pay_lock"
    BY <1>t, <2>1, SameLocksKeep, GotoKeeps
  <2> QED
    BY <1>t, <1>f, <2>1, <2>2, QuietFreeStep
<1>2. CASE PayLock(p)
  <2>1. UNCHANGED <<bookings, seats>> /\ req[p].bk \in Bookings
    BY <1>2, <1>t, LocalTypes DEF PayLock, db, Targeted, Labels, TypeInv
  <2>2. CASE Finish(p)
    BY <1>t, <2>1, <2>2, QuietFinish
  <2>3. ASSUME NEW label \in {"pay_retrieve", "pay_retrieve_failed", "pay_confirm",
                              "pay_create"},
               Pending(req[p].bk),
               LockBooking(p, req[p].bk),
               Goto(p, label, [req[p] EXCEPT !.seen = payments[req[p].bk].status,
                                             !.intent = payments[req[p].bk].intent,
                                             !.want = bookings[req[p].bk].units])
        PROVE  SeatInv'
    <3>1. LocksKept(p) /\ bookingLock'[req[p].bk] = p
      BY <1>t, <2>1, <2>3, LockBookingKeeps
    <3> DEFINE r == [req[p] EXCEPT !.seen = payments[req[p].bk].status,
                                   !.intent = payments[req[p].bk].intent,
                                   !.want = bookings[req[p].bk].units]
    <3>2. Goto(p, label, r) /\ r.bk = req[p].bk
      BY <1>t, <2>3, LocalTypes DEF Req, TypeInv
    <3> HIDE DEF r
    <3>3. pc'[p] = label /\ req'[p].bk = req[p].bk
      BY <1>t, <3>2, GotoKeeps
    <3>4. CASE label = "pay_create"
      BY <1>t, <1>f, <2>1, <3>1, <3>3, <3>4, QuietFreeStep
    <3>5. CASE label # "pay_create"
      <4>1. label \in PendingLabels \ ReservedLabels
        BY <3>5 DEF PendingLabels, ReservedLabels
      <4> QED
        BY <1>t, <2>1, <2>3, <3>1, <3>3, <4>1, LockingStep
    <3> QED
      BY <3>4, <3>5
  <2> QED
    BY <1>2, <2>2, <2>3 DEF PayLock
<1>3. ASSUME pc[p] \in PendingLabels, Goto(p, "pay_confirm", req[p]),
             UNCHANGED <<clock, db, mails, locks, stripe>>
      PROVE  SeatInv'
  <2>1. LocksKept(p) /\ UNCHANGED <<bookings, seats, bookingLock>>
    BY <1>t, <1>3, SameLocksKeep DEF db, locks
  <2>2. /\ pc'[p] = "pay_confirm" /\ req'[p] = req[p]
        /\ "pay_confirm" \in PendingLabels \ ReservedLabels
    BY <1>t, <1>3, GotoKeeps DEF PendingLabels, ReservedLabels
  <2> QED
    BY <1>t, <1>3, <2>1, <2>2, HoldingStep
<1>4. ASSUME NEW label \in {"pay_create", "pay_reread"}, PayGiveUpIntent(p, label)
      PROVE  SeatInv'
  <2>1. UNCHANGED <<bookings, seats>>
    BY <1>4 DEF PayGiveUpIntent, OnlyPayments
  <2>2. LocksKept(p) /\ pc'[p] = label
    BY <1>t, <1>4, ReleaseKeeps, GotoKeeps DEF PayGiveUpIntent, LocksKept
  <2> QED
    BY <1>t, <1>f, <2>1, <2>2, QuietFreeStep
<1>5. CASE PayRetrieve(p)
  <2>1. pc[p] \in PendingLabels
    BY <1>5 DEF PayRetrieve, PendingLabels
  <2>2. CASE Finish(p) /\ UNCHANGED <<clock, db, mails, stripe>>
    BY <1>t, <2>2, QuietFinish DEF db
  <2> QED
    BY <1>3, <1>4, <1>5, <2>1, <2>2 DEF PayRetrieve
<1>6. CASE PayReread(p)
  <2> DEFINE r == [req[p] EXCEPT !.seen = Reread(p).status, !.intent = Reread(p).intent]
  <2>1. Goto(p, "pay_create", r)
    BY <1>6 DEF PayReread, Reread
  <2> HIDE DEF r
  <2>2. UNCHANGED locks /\ UNCHANGED <<bookings, seats>>
    BY <1>6 DEF PayReread, db
  <2>3. LocksKept(p) /\ pc'[p] = "pay_create"
    BY <1>t, <2>1, <2>2, SameLocksKeep, GotoKeeps
  <2> QED
    BY <1>t, <1>f, <2>2, <2>3, QuietFreeStep
<1>7. CASE PayRetrieveFailed(p)
  <2>1. pc[p] \in PendingLabels
    BY <1>7 DEF PayRetrieveFailed, PendingLabels
  <2>2. CASE Finish(p) /\ OnlyPayments
    BY <1>t, <2>2, QuietFinish DEF OnlyPayments
  <2>3. CASE Goto(p, "pay_create", req[p]) /\ UNCHANGED <<clock, db, mails, locks, stripe>>
    <3>1. LocksKept(p) /\ pc'[p] = "pay_create" /\ UNCHANGED <<bookings, seats>>
      BY <1>t, <2>3, SameLocksKeep, GotoKeeps DEF db
    <3> QED
      BY <1>t, <1>f, <3>1, QuietFreeStep
  <2> QED
    BY <1>3, <1>4, <1>7, <2>1, <2>2, <2>3 DEF PayRetrieveFailed
<1>8. CASE PayConfirm(p)
  BY <1>t, <1>8, ConfirmMatches, FinishStep DEF PayConfirm, PendingLabels
<1>9. CASE PayCreate(p)
  <2>1. UNCHANGED <<bookings, seats>>
    BY <1>9 DEF PayCreate, db
  <2>2. CASE Finish(p)
    BY <1>t, <2>1, <2>2, QuietFinish
  <2>3. ASSUME NEW i, Goto(p, "pay_store", [req[p] EXCEPT !.intent = i]), UNCHANGED locks
        PROVE  SeatInv'
    <3>1. LocksKept(p) /\ pc'[p] = "pay_store"
      BY <1>t, <2>3, SameLocksKeep, GotoKeeps
    <3> QED
      BY <1>t, <1>f, <2>1, <3>1, QuietFreeStep
  <2> QED
    BY <1>9, <2>2, <2>3 DEF PayCreate
<1>10. CASE PayStore(p)
  BY <1>t, <1>10, QuietFinish DEF PayStore
<1> QED
  BY <1>1, <1>2, <1>5, <1>6, <1>7, <1>8, <1>9, <1>10 DEF Pay

LEMMA WebhookKeeps ==
    ASSUME SeatInv, RowsExist, NEW p \in Procs, Webhook(p)
    PROVE  SeatInv'
<1>t. TypeInv /\ TypeInv'
  BY WebhookType DEF SeatInv
<1>1. ASSUME NEW e \in events, BeginWebhook(p, e) PROVE SeatInv'
  <2>1. UNCHANGED <<bookings, seats>> /\ UNCHANGED locks
    BY <1>1 DEF BeginWebhook, db
  <2>2. \E r : Goto(p, "hook_lock", r)
    BY <1>1 DEF BeginWebhook
  <2>3. LocksKept(p) /\ pc'[p] = "hook_lock"
    BY <1>t, <2>1, <2>2, SameLocksKeep, GotoKeeps
  <2>4. "hook_lock" \notin HoldingLabels \cup CreateLabels
    BY DEF HoldingLabels, PendingLabels, LiveLabels, RefundLabels, CreateLabels
  <2> QED
    BY <1>t, <2>1, <2>3, <2>4, QuietFreeStep
<1>2. CASE HookLock(p)
  <2>1. UNCHANGED <<bookings, seats>> /\ req[p].bk \in Bookings
    BY <1>2, <1>t, LocalTypes DEF HookLock, OnlyPayments, Targeted, Labels, TypeInv
  <2>2. CASE Finish(p)
    BY <1>t, <2>1, <2>2, QuietFinish
  <2>0. bookings[req[p].bk].status # "none"
    BY <1>2, <1>t, TargetRows DEF HookLock, Targeted, Labels, Exists
  <2>3. ASSUME NEW want, NEW label,
               \/ Pending(req[p].bk) /\ label \in {"hook_seats", "hook_service"}
               \/ /\ bookings[req[p].bk].status \in {"pending", "cancelled"}
                  /\ label = "hook_refund",
               LockBooking(p, req[p].bk),
               Goto(p, label, [req[p] EXCEPT !.seen = payments[req[p].bk].status,
                                             !.cap = service.max_capacity,
                                             !.want = want,
                                             !.reserved = Reserved(req[p].bk)])
        PROVE  SeatInv'
    <3>1. LocksKept(p) /\ bookingLock'[req[p].bk] = p
      BY <1>t, <2>1, <2>3, LockBookingKeeps
    <3> DEFINE r == [req[p] EXCEPT !.seen = payments[req[p].bk].status,
                                   !.cap = service.max_capacity,
                                   !.want = want,
                                   !.reserved = Reserved(req[p].bk)]
    <3>2. Goto(p, label, r) /\ r.bk = req[p].bk /\ r.reserved = Reserved(req[p].bk)
      BY <1>t, <2>3, LocalTypes DEF Req, TypeInv
    <3> HIDE DEF r
    <3>3. /\ pc'[p] = label /\ req'[p].bk = req[p].bk
          /\ req'[p].reserved = Reserved(req[p].bk)
      BY <1>t, <3>2, GotoKeeps
    <3>4. /\ {"hook_seats", "hook_service"} \subseteq PendingLabels
          /\ "hook_refund" \in RefundLabels
      BY DEF PendingLabels, RefundLabels
    <3> QED
      BY <1>t, <2>1, <2>3, <3>1, <3>3, <3>4, LockingStep
  <2>4. CASE HookFailed(p)
    BY <2>2, <2>4 DEF HookFailed
  <2>5. CASE HookSucceeded(p)
    <3> DEFINE b == req[p].bk
               want == IF Pending(b) THEN bookings[b].units ELSE {}
               label == IF ~Pending(b) THEN "hook_refund"
                        ELSE IF UnitMode THEN "hook_seats" ELSE "hook_service"
    <3>1. \/ Finish(p)
          \/ /\ bookings[b].status # "confirmed"
             /\ LockBooking(p, b)
             /\ Goto(p, label, [req[p] EXCEPT !.seen = payments[b].status,
                                              !.cap = service.max_capacity,
                                              !.want = want,
                                              !.reserved = Reserved(b)])
      BY <2>5 DEF HookSucceeded
    <3>2. \/ Pending(b) /\ label \in {"hook_seats", "hook_service"}
          \/ ~Pending(b) /\ label = "hook_refund"
      OBVIOUS
    <3>3. bookings[b].status \in {"none", "pending", "confirmed", "cancelled"}
      BY <1>t, <2>1 DEF TypeInv, DbTypeOK, Booking, BookingStatus
    <3> HIDE DEF label, want
    <3> QED
      BY <2>0, <2>2, <2>3, <3>1, <3>2, <3>3 DEF Pending
  <2> QED
    BY <1>2, <2>4, <2>5 DEF HookLock
<1>3. CASE HookSeats(p) \/ HookService(p)
  <2>1. PICK label \in {"hook_confirm", "hook_refund"} : Goto(p, label, req[p])
    BY <1>3 DEF HookSeats, HookService
  <2>2. LocksKept(p) /\ UNCHANGED <<bookings, seats, bookingLock>>
    BY <1>3, <1>t, <2>1, SameLocksKeep, LockServiceKeeps
    DEF HookSeats, HookService, locks, db
  <2>3. pc'[p] \in PendingLabels \cup RefundLabels /\ req'[p] = req[p]
    BY <1>t, <2>1, GotoKeeps DEF PendingLabels, RefundLabels
  <2>4. pc[p] \in PendingLabels \cap ReservedLabels
    BY <1>3 DEF HookSeats, HookService, PendingLabels, ReservedLabels
  <2> QED
    BY <1>t, <2>2, <2>3, <2>4, HoldingStep
<1>4. CASE HookConfirm(p)
  BY <1>t, <1>4, ConfirmMatches, FinishStep DEF HookConfirm, PendingLabels
<1>5. CASE HookRefund(p)
  <2>1. UNCHANGED <<bookings, seats>>
    BY <1>5 DEF HookRefund, db
  <2>2. CASE Finish(p)
    BY <1>t, <2>1, <2>2, QuietFinish
  <2>3. CASE Goto(p, "hook_cancel", [req[p] EXCEPT !.settle = "refunded"]) /\ UNCHANGED locks
    <3>1. LocksKept(p) /\ UNCHANGED bookingLock
      BY <1>t, <2>3, SameLocksKeep DEF locks
    <3> DEFINE r == [req[p] EXCEPT !.settle = "refunded"]
    <3>0. Goto(p, "hook_cancel", r) /\ r.bk = req[p].bk /\ r.reserved = req[p].reserved
      BY <1>t, <2>3, LocalTypes DEF TypeInv, Req
    <3> HIDE DEF r
    <3>2. /\ pc'[p] = "hook_cancel" /\ req'[p].bk = req[p].bk
          /\ req'[p].reserved = req[p].reserved
      BY <1>t, <3>0, GotoKeeps
    <3>3. pc[p] \in RefundLabels \cap ReservedLabels /\ "hook_cancel" \in RefundLabels
      BY <1>5 DEF HookRefund, RefundLabels, ReservedLabels
    <3> QED
      BY <1>t, <2>1, <3>1, <3>2, <3>3, HoldingStep
  <2> QED
    BY <1>5, <2>2, <2>3 DEF HookRefund
<1>6. CASE HookCancel(p)
  <2> DEFINE b == req[p].bk
             mine == IF Pending(b) THEN req[p].reserved ELSE {}
  <2>1. b \in Bookings
    BY <1>6, <1>t, LocalTypes DEF HookCancel, Targeted, Labels, TypeInv
  <2>2. /\ bookingLock[b] = p /\ bookings[b].status \in {"pending", "cancelled"}
        /\ Pending(b) => req[p].reserved = bookings[b].units
    BY <1>6 DEF HookCancel, SeatInv, LocksProtect, BookingProtected, RefundLabels, ReservedLabels
  <2>3. /\ bookings' = [bookings EXCEPT ![b].status = "cancelled"]
        /\ seats' = SetSeats(mine, "available")
    BY <1>6 DEF HookCancel, Cancel
  <2>4. CASE Pending(b)
    <3>1. mine = bookings[b].units
      BY <2>2, <2>4
    <3> QED
      BY <1>6, <1>t, <2>1, <2>2, <2>3, <2>4, <3>1, StatusMatches, FinishStep
      DEF HookCancel, Live, Pending
  <2>5. CASE ~Pending(b)
    <3>1. ~Live(b)
      BY <2>2, <2>5 DEF Live, Pending
    <3>2. UNCHANGED seats
      BY <1>t, <2>3, <2>5 DEF SetSeats, TypeInv, DbTypeOK
    <3> QED
      BY <1>6, <1>t, <2>1, <2>2, <2>3, <3>1, <3>2, EmptyCancelMatches, FinishStep DEF HookCancel
  <2> QED
    BY <2>4, <2>5
<1> QED
  BY <1>1, <1>2, <1>3, <1>4, <1>5, <1>6 DEF Webhook

LEMMA CancelBookingKeeps ==
    ASSUME SeatInv, NEW p \in Procs, CancelBooking(p)
    PROVE  SeatInv'
<1>t. TypeInv /\ TypeInv'
  BY CancelBookingType DEF SeatInv
<1>1. ASSUME NEW b \in Bookings, BeginCancel(p, b) PROVE SeatInv'
  <2>1. UNCHANGED <<bookings, seats>> /\ UNCHANGED locks
    BY <1>1 DEF BeginCancel, db
  <2>2. \E r : Goto(p, "cancel_lock", r)
    BY <1>1 DEF BeginCancel
  <2>3. LocksKept(p) /\ pc'[p] = "cancel_lock"
    BY <1>t, <2>1, <2>2, SameLocksKeep, GotoKeeps
  <2>4. "cancel_lock" \notin HoldingLabels \cup CreateLabels
    BY DEF HoldingLabels, PendingLabels, LiveLabels, RefundLabels, CreateLabels
  <2> QED
    BY <1>t, <2>1, <2>3, <2>4, QuietFreeStep
<1>2. CASE CancelLock(p)
  <2>1. UNCHANGED <<bookings, seats>> /\ req[p].bk \in Bookings
    BY <1>2, <1>t, LocalTypes DEF CancelLock, db, Targeted, Labels, TypeInv
  <2>2. CASE Finish(p)
    BY <1>t, <2>1, <2>2, QuietFinish
  <2>3. ASSUME NEW settle, NEW label \in LiveLabels, Live(req[p].bk),
               LockBooking(p, req[p].bk),
               Goto(p, label, [req[p] EXCEPT !.intent = payments[req[p].bk].intent,
                                             !.want = bookings[req[p].bk].units,
                                             !.settle = settle])
        PROVE  SeatInv'
    <3>0. label \notin ReservedLabels
      BY <2>3 DEF LiveLabels, ReservedLabels
    <3>1. LocksKept(p) /\ bookingLock'[req[p].bk] = p
      BY <1>t, <2>1, <2>3, LockBookingKeeps
    <3> DEFINE r == [req[p] EXCEPT !.intent = payments[req[p].bk].intent,
                                   !.want = bookings[req[p].bk].units,
                                   !.settle = settle]
    <3>2. Goto(p, label, r) /\ r.bk = req[p].bk
      BY <1>t, <2>3, LocalTypes DEF Req, TypeInv
    <3> HIDE DEF r
    <3>3. pc'[p] = label /\ req'[p].bk = req[p].bk
      BY <1>t, <3>2, GotoKeeps
    <3> QED
      BY <1>t, <2>1, <2>3, <3>0, <3>1, <3>3, LockingStep
  <2> QED
    BY <1>2, <2>2, <2>3 DEF CancelLock, LiveLabels
<1>3. CASE CancelRefund(p)
  <2>1. UNCHANGED <<bookings, seats>>
    BY <1>3 DEF CancelRefund, db
  <2>2. CASE Finish(p)
    BY <1>t, <2>1, <2>2, QuietFinish
  <2>3. CASE Goto(p, "cancel_commit", req[p]) /\ UNCHANGED locks
    <3>1. LocksKept(p) /\ UNCHANGED bookingLock
      BY <1>t, <2>3, SameLocksKeep DEF locks
    <3>2. pc'[p] = "cancel_commit" /\ req'[p] = req[p]
      BY <1>t, <2>3, GotoKeeps
    <3>3. pc[p] \in LiveLabels /\ "cancel_commit" \in LiveLabels \ ReservedLabels
      BY <1>3 DEF CancelRefund, LiveLabels, ReservedLabels
    <3> QED
      BY <1>t, <2>1, <3>1, <3>2, <3>3, HoldingStep
  <2> QED
    BY <1>3, <2>2, <2>3 DEF CancelRefund
<1>4. CASE CancelIntent(p)
  <2>1. UNCHANGED <<bookings, seats>> /\ UNCHANGED locks
    BY <1>4 DEF CancelIntent, db
  <2>2. PICK r : Goto(p, "cancel_commit", r) /\ r.bk = req[p].bk
    <3>1. \A settle \in {"canceled", "keep"} : [req[p] EXCEPT !.settle = settle].bk = req[p].bk
      BY <1>t, SettledReqType DEF TypeInv
    <3> QED
      BY <1>4, <3>1 DEF CancelIntent
  <2>3. LocksKept(p) /\ UNCHANGED bookingLock
    BY <1>t, <2>1, <2>2, SameLocksKeep DEF locks
  <2>4. pc'[p] = "cancel_commit" /\ req'[p].bk = req[p].bk
    BY <1>t, <2>2, GotoKeeps
  <2>5. pc[p] \in LiveLabels /\ "cancel_commit" \in LiveLabels \ ReservedLabels
    BY <1>4 DEF CancelIntent, LiveLabels, ReservedLabels
  <2> QED
    BY <1>t, <2>1, <2>3, <2>4, <2>5, HoldingStep
<1>5. CASE CancelCommit(p)
  <2>1. SeatsMatchBookings' /\ RowsKept(p) /\ SeatsKept(p)
    BY <1>5, CancelMatches DEF CancelCommit, LiveLabels
  <2> QED
    BY <1>t, <1>5, <2>1, FinishStep DEF CancelCommit
<1> QED
  BY <1>1, <1>2, <1>3, <1>4, <1>5 DEF CancelBooking

LEMMA NextCandidateKeeps ==
    ASSUME TypeInv, NEW p \in Procs, NextCandidate(p)
    PROVE  /\ UNCHANGED locks \/ Release(p) => LocksKept(p)
           /\ pc'[p] \notin HoldingLabels \cup CreateLabels
<1>1. PICK r : Goto(p, "sweep_next", r)
  BY DEF NextCandidate
<1>2. "sweep_next" \notin HoldingLabels \cup CreateLabels
  BY DEF HoldingLabels, PendingLabels, LiveLabels, RefundLabels, CreateLabels
<1>3. UNCHANGED locks \/ Release(p) => LocksKept(p)
  BY <1>1, SameLocksKeep, ReleaseKeeps, GotoKeeps DEF LocksKept
<1> QED
  BY <1>1, <1>2, <1>3, GotoKeeps

LEMMA SweepKeeps ==
    ASSUME SeatInv, NEW p \in Procs, Sweep(p)
    PROVE  SeatInv'
<1>t. TypeInv /\ TypeInv'
  BY SweepType DEF SeatInv
<1>f. {"sweep_next", "sweep_lock"} \cap
        (HoldingLabels \cup CreateLabels) = {}
  BY DEF HoldingLabels, PendingLabels, LiveLabels, RefundLabels, CreateLabels
\* The loop goes on, with the locks or without.
<1>n. ASSUME NextCandidate(p), UNCHANGED locks \/ Release(p), UNCHANGED <<bookings, seats>>
      PROVE  SeatInv'
  BY <1>t, <1>n, NextCandidateKeeps, QuietFreeStep
\* A candidate that is locked stays so while Stripe is asked.
<1>h. ASSUME NEW label \in PendingLabels, NEW r, Goto(p, label, r), r.bk = req[p].bk,
             pc[p] \in PendingLabels, UNCHANGED locks, UNCHANGED <<bookings, seats>>,
             label \in ReservedLabels => r.reserved = Reserved(req[p].bk)
      PROVE  SeatInv'
  <2>1. LocksKept(p) /\ UNCHANGED bookingLock
    BY <1>t, <1>h, SameLocksKeep DEF locks
  <2>2. pc'[p] = label /\ req'[p] = r
    BY <1>t, <1>h, GotoKeeps
  <2> QED
    BY <1>t, <1>h, <2>1, <2>2, HoldingStep
<1>s. \A settle \in {"canceled", "refunded"} : [req[p] EXCEPT !.settle = settle].bk = req[p].bk
  BY <1>t, SettledReqType DEF TypeInv
<1>1. CASE BeginSweep(p) \/ SweepNext(p)
  <2>1. UNCHANGED <<bookings, seats>> /\ UNCHANGED locks
    BY <1>1 DEF BeginSweep, SweepNext, db
  <2>2. \E label \in {"sweep_next", "sweep_lock"} : \E r : Goto(p, label, r)
    BY <1>1 DEF BeginSweep, SweepNext
  <2>3. LocksKept(p) /\ pc'[p] \in {"sweep_next", "sweep_lock"}
    BY <1>t, <2>1, <2>2, SameLocksKeep, GotoKeeps
  <2> QED
    BY <1>t, <1>f, <2>1, <2>3, QuietFreeStep
<1>2. CASE SweepEnd(p)
  BY <1>t, <1>2, QuietFinish DEF SweepEnd, db
<1>3. CASE SweepLock(p)
  <2>1. /\ UNCHANGED <<bookings, seats>> /\ req[p].bk \in Bookings
        /\ LockBooking(p, req[p].bk)
    BY <1>3, <1>t, LocalTypes DEF SweepLock, db, Targeted, Labels, TypeInv
  <2>2. CASE NextCandidate(p)
    <3>1. PICK r : Goto(p, "sweep_next", r)
      BY <2>2 DEF NextCandidate
    <3>2. LocksKept(p)
      BY <1>t, <2>1, <3>1, LockBookingKeeps
    <3> QED
      BY <1>t, <2>1, <2>2, <3>2, NextCandidateKeeps, QuietFreeStep
  <2>3. ASSUME Pending(req[p].bk), NEW label \in {"sweep_intent", "sweep_release"},
               Goto(p, label, [req[p] EXCEPT !.intent = payments[req[p].bk].intent,
                                             !.want = bookings[req[p].bk].units])
        PROVE  SeatInv'
    <3> DEFINE r == [req[p] EXCEPT !.intent = payments[req[p].bk].intent,
                                   !.want = bookings[req[p].bk].units]
    <3>1. Goto(p, label, r) /\ r.bk = req[p].bk
      BY <1>t, <2>3, LocalTypes DEF Req, TypeInv
    <3> HIDE DEF r
    <3>2. LocksKept(p) /\ bookingLock'[req[p].bk] = p
      BY <1>t, <2>1, <3>1, LockBookingKeeps
    <3>3. pc'[p] \in PendingLabels \ ReservedLabels /\ req'[p].bk = req[p].bk
      BY <1>t, <3>1, GotoKeeps DEF PendingLabels, ReservedLabels
    <3> QED
      BY <1>t, <2>1, <2>3, <3>2, <3>3, LockingStep
  <2> QED
    BY <1>3, <2>2, <2>3 DEF SweepLock
<1>4. CASE SweepIntent(p)
  <2>1. /\ UNCHANGED <<bookings, seats>> /\ UNCHANGED locks
        /\ pc[p] \in PendingLabels
    BY <1>4 DEF SweepIntent, Skip, db, PendingLabels
  <2>2. \/ NextCandidate(p)
        \/ Goto(p, "sweep_release", [req[p] EXCEPT !.settle = "canceled"])
        \/ Goto(p, "sweep_retrieve", req[p])
    BY <1>4 DEF SweepIntent, Skip
  <2>3. {"sweep_release", "sweep_retrieve"} \subseteq PendingLabels \ ReservedLabels
    BY DEF PendingLabels, ReservedLabels
  <2> QED
    BY <1>n, <1>h, <1>s, <2>1, <2>2, <2>3
<1>5. CASE SweepRetrieve(p)
  <2> DEFINE r == [req[p] EXCEPT !.cap = service.max_capacity,
                                 !.reserved = Reserved(req[p].bk)]
  <2>1. /\ UNCHANGED <<bookings, seats>> /\ UNCHANGED locks
        /\ pc[p] \in PendingLabels
    BY <1>5 DEF SweepRetrieve, Skip, db, PendingLabels
  <2>2. \/ NextCandidate(p)
        \/ Goto(p, "sweep_release", [req[p] EXCEPT !.settle = "canceled"])
        \/ \E label \in {"sweep_seats", "sweep_service"} :
              Goto(p, label, r)
    BY <1>5 DEF SweepRetrieve, Skip
  <2>3. /\ {"sweep_release", "sweep_seats", "sweep_service"} \subseteq PendingLabels
        /\ "sweep_release" \notin ReservedLabels
    BY DEF PendingLabels, ReservedLabels
  <2>4. r.bk = req[p].bk /\ r.reserved = Reserved(req[p].bk)
    BY <1>t, LocalTypes DEF TypeInv, Req
  <2> HIDE DEF r
  <2> QED
    BY <1>n, <1>h, <1>s, <2>1, <2>2, <2>3, <2>4
<1>6. CASE SweepSeats(p) \/ SweepService(p)
  <2>1. PICK label \in {"sweep_confirm", "sweep_refund"} : Goto(p, label, req[p])
    BY <1>6 DEF SweepSeats, SweepService
  <2>2. LocksKept(p) /\ UNCHANGED <<bookings, seats, bookingLock>>
    BY <1>6, <1>t, <2>1, SameLocksKeep, LockServiceKeeps
    DEF SweepSeats, SweepService, locks, db
  <2>3. pc'[p] \in PendingLabels \ ReservedLabels /\ req'[p] = req[p]
    BY <1>t, <2>1, GotoKeeps DEF PendingLabels, ReservedLabels
  <2>4. pc[p] \in PendingLabels
    BY <1>6 DEF SweepSeats, SweepService, PendingLabels
  <2> QED
    BY <1>t, <2>2, <2>3, <2>4, HoldingStep
<1>7. CASE SweepConfirm(p)
  <2>1. SeatsMatchBookings' /\ RowsKept(p) /\ SeatsKept(p)
    BY <1>7, ConfirmMatches DEF SweepConfirm, PendingLabels
  <2> QED
    BY <1>t, <1>7, <2>1, NextCandidateKeeps, FreeStep DEF SweepConfirm
<1>8. CASE SweepRefund(p)
  <2>1. UNCHANGED <<bookings, seats>> /\ pc[p] \in PendingLabels
    BY <1>8 DEF SweepRefund, db, PendingLabels
  <2>2. CASE Release(p) /\ NextCandidate(p)
    BY <1>n, <2>1, <2>2
  <2>3. CASE Goto(p, "sweep_release", [req[p] EXCEPT !.settle = "refunded"]) /\ UNCHANGED locks
    <3>1. "sweep_release" \in PendingLabels \ ReservedLabels
      BY DEF PendingLabels, ReservedLabels
    <3> QED
      BY <1>h, <1>s, <2>1, <2>3, <3>1
  <2> QED
    BY <1>8, <2>2, <2>3 DEF SweepRefund
<1>9. CASE SweepRelease(p)
  <2>1. SeatsMatchBookings' /\ RowsKept(p) /\ SeatsKept(p)
    BY <1>9, CancelMatches DEF SweepRelease, PendingLabels
  <2> QED
    BY <1>t, <1>9, <2>1, NextCandidateKeeps, FreeStep DEF SweepRelease
<1>10. CASE SweepItemError(p)
  BY <1>n, <1>10 DEF SweepItemError, db
<1> QED
  BY <1>1, <1>2, <1>3, <1>4, <1>5, <1>6, <1>7, <1>8, <1>9, <1>10 DEF Sweep

LEMMA SellerKeeps ==
    ASSUME SeatInv, NEW p \in Procs, Seller(p)
    PROVE  SeatInv'
<1>t. TypeInv /\ TypeInv'
  BY SellerType DEF SeatInv
<1>1. ASSUME NEW label \in {"update_commit", "delete_commit"}, NEW r, Goto(p, label, r),
             UNCHANGED locks, UNCHANGED <<bookings, seats>>
      PROVE  SeatInv'
  <2>1. LocksKept(p) /\ pc'[p] = label
    BY <1>t, <1>1, SameLocksKeep, GotoKeeps
  <2>2. label \notin HoldingLabels \cup CreateLabels
    BY DEF HoldingLabels, PendingLabels, LiveLabels, RefundLabels, CreateLabels
  <2> QED
    BY <1>t, <1>1, <2>1, <2>2, QuietFreeStep
<1>2. ASSUME NEW cap \in Capacities, BeginUpdate(p, cap) PROVE SeatInv'
  BY <1>1, <1>2 DEF BeginUpdate, db
<1>3. CASE BeginDelete(p)
  <2>1. UNCHANGED locks /\ UNCHANGED <<bookings, seats>>
    BY <1>3 DEF BeginDelete, db
  <2>2. \E r : Goto(p, "delete_commit", r)
    BY <1>3 DEF BeginDelete
  <2> QED
    BY <1>1, <2>1, <2>2
<1>4. CASE UpdateCommit(p) \/ DeleteCommit(p)
  BY <1>t, <1>4, QuietFinish DEF UpdateCommit, DeleteCommit
<1> QED
  BY <1>2, <1>3, <1>4 DEF Seller

LEMMA LockSeatKeeps ==
    ASSUME SeatInv, NEW p \in Procs, LockSeat(p)
    PROVE  SeatInv'
<1>t. TypeInv /\ TypeInv'
  BY LockSeatType DEF SeatInv
<1>1. PICK s \in req[p].want : /\ Free(seatLock[s], p)
                               /\ seatLock' = [seatLock EXCEPT ![s] = p]
                               /\ req' = [req EXCEPT ![p].want = @ \ {s}]
  BY DEF LockSeat
<1>2. /\ UNCHANGED <<bookings, seats, bookingLock, pc>>
      /\ pc[p] \in SeatLocking /\ s \in Seats
  BY <1>t, LocalTypes DEF LockSeat, db, TypeInv
<1>3. /\ req'[p].want = req[p].want \ {s}
      /\ req'[p].bk = req[p].bk
      /\ req'[p].reserved = req[p].reserved
      /\ req'[p].draft = req[p].draft
      /\ \A q \in Procs \ {p} : req'[q] = req[q]
  BY <1>t, <1>1, LocalTypes DEF TypeInv, LocalsOK, ProcsTypeOK, Req
<1>4. /\ \A x \in Seats : seatLock'[x] = IF x = s THEN p ELSE seatLock[x]
      /\ seatLock[s] \in {Null, p}
  BY <1>t, <1>1 DEF TypeInv, LocksTypeOK, Free
<1>5. LocksKept(p)
  BY <1>2, <1>3, <1>4 DEF LocksKept
<1>6. BookingProtected(p)'
  BY <1>2, <1>3 DEF SeatInv, LocksProtect, BookingProtected, Pending, Live
<1>7. DraftProtected(p)'
  <2>1. req[p].draft.units \subseteq Seats
    BY <1>t, LocalTypes DEF TypeInv
  <2> QED
    BY <1>2, <1>3, <1>4, <2>1 DEF SeatInv, LocksProtect, DraftProtected, UnitMode
<1> QED
  BY <1>t, <1>2, <1>5, <1>6, <1>7, SameRowsMatch, StepPreserves DEF SeatInv

LEMMA StutterKeeps ==
    ASSUME SeatInv, TypeInv', UNCHANGED <<db, locks, pc, req>>
    PROVE  SeatInv'
BY DEF SeatInv, SeatsMatchBookings, SeatSoldOnce, SeatStatus, Live, Pending, LocksProtect,
       BookingProtected, DraftProtected, UnitMode, db, locks

LEMMA SeatInvNext == SeatInv /\ RowsExist /\ RereadAtOnce /\ [Next]_vars => SeatInv'
<1> SUFFICES ASSUME SeatInv, RowsExist, RereadAtOnce, [Next]_vars PROVE SeatInv'
  OBVIOUS
<1> USE DEF Procs
<1>t. TypeInv'
  BY NextType DEF SeatInv
<1>1. ASSUME NEW p \in Requests, Create(p) \/ Pay(p) \/ Webhook(p) \/ CancelBooking(p)
      PROVE  SeatInv'
  BY <1>1, CreateKeeps, PayKeeps, WebhookKeeps, CancelBookingKeeps
<1>2. ASSUME NEW p \in Sweepers, Sweep(p) PROVE SeatInv'
  BY <1>2, SweepKeeps
<1>3. ASSUME NEW p \in Sellers, Seller(p) PROVE SeatInv'
  BY <1>3, SellerKeeps
<1>4. ASSUME NEW p \in Procs, LockSeat(p) PROVE SeatInv'
  BY <1>4, LockSeatKeeps
<1>5. ASSUME NEW p \in Procs, Crash(p) PROVE SeatInv'
  BY <1>5, <1>t, QuietFinish DEF Crash, db
<1>6. CASE Stripe
  BY <1>6, <1>t, StutterKeeps DEF Stripe
<1>7. CASE Tick
  BY <1>7, <1>t, StutterKeeps DEF Tick
<1>8. CASE UNCHANGED vars
  BY <1>8, <1>t, StutterKeeps DEF vars
<1> QED
  BY <1>1, <1>2, <1>3, <1>4, <1>5, <1>6, <1>7, <1>8 DEF Next

LEMMA SeatInvInit == Init => SeatInv
<1> SUFFICES ASSUME Init PROVE SeatInv
  OBVIOUS
<1>1. TypeInv
  BY InitType
<1>2. SeatsMatchBookings
  BY DEF Init, StoreInit, SeatsMatchBookings, SeatSoldOnce, Live, NoBooking
<1>3. LocksProtect
  BY DEF Init, StoreInit, LocksProtect, BookingProtected, DraftProtected,
         PendingLabels, LiveLabels, RefundLabels, ReservedLabels
<1> QED
  BY <1>1, <1>2, <1>3 DEF SeatInv

LEMMA SeatInvHolds == ASSUME RereadAtOnce PROVE Spec => []SeatInv
<1>1. SeatInv /\ RowsExist /\ [Next]_vars => SeatInv'
  BY SeatInvNext
<1> QED
  BY <1>1, SeatInvInit, RowsExistHolds, PTL DEF Spec

\* Seats and bookings agree in every reachable state, and so no seat is ever
\* sold twice, whatever create, pay, webhook, cancel and sweep do to each other.
THEOREM SeatsConsistent == ASSUME RereadAtOnce PROVE Spec => []SeatsMatchBookings
<1>1. SeatInv => SeatsMatchBookings
  BY DEF SeatInv
<1> QED
  BY <1>1, SeatInvHolds, PTL

\* What a handler found under the row lock of its booking, and the seats it
\* locked for a new one, are still as it found them when it acts on them.
THEOREM LocksSuffice == ASSUME RereadAtOnce PROVE Spec => []LocksProtect
<1>1. SeatInv => LocksProtect
  BY DEF SeatInv
<1> QED
  BY <1>1, SeatInvHolds, PTL

-----------------------------------------------------------------------------
(* Which way the status of a booking may go *)

NoRevival ==
    \A b \in Bookings :
        /\ bookings[b].status = "cancelled" => bookings'[b].status = "cancelled"
        /\ bookings[b].status = "confirmed" =>
              bookings'[b].status \in {"confirmed", "cancelled"}

LEMMA ConfirmRevivesNone ==
    ASSUME SeatInv, NEW p \in Procs, pc[p] \in PendingLabels, Confirm(p, req[p].bk)
    PROVE  NoRevival
<1>1. Pending(req[p].bk)
  BY DEF SeatInv, LocksProtect, BookingProtected
<1> QED
  BY <1>1 DEF Confirm, NoRevival, Pending, SeatInv, TypeInv, DbTypeOK, Booking

LEMMA CancelRevivesNone ==
    ASSUME SeatInv, NEW p, NEW b, NEW freed, NEW pay, NEW refund,
           Cancel(p, b, freed, pay, refund)
    PROVE  NoRevival
BY DEF Cancel, NoRevival, SeatInv, TypeInv, DbTypeOK, Booking

LEMMA NextRevivesNone == SeatInv /\ [Next]_vars => NoRevival
<1> SUFFICES ASSUME SeatInv, [Next]_vars PROVE NoRevival
  OBVIOUS
<1>s. UNCHANGED bookings => NoRevival
  BY DEF NoRevival
<1>1. ASSUME NEW p \in Requests, Create(p) PROVE NoRevival
  <2>1. CASE CreateInsert(p)
    BY <1>s, <2>1 DEF CreateInsert, NoRevival, db, SeatInv, TypeInv, DbTypeOK
  <2>2. CASE ~CreateInsert(p)
    <3>1. UNCHANGED db
      BY <1>1, <2>2 DEF Create, BeginCreate, CreateLockUser, CreateSeats, CreateSlot
    <3> QED
      BY <1>s, <3>1 DEF db
  <2> QED
    BY <2>1, <2>2
<1>2. ASSUME NEW p \in Requests, Pay(p) PROVE NoRevival
  <2>1. CASE PayConfirm(p)
    BY <2>1, ConfirmRevivesNone DEF PayConfirm, PendingLabels, Procs
  <2>2. CASE ~PayConfirm(p)
    <3>1. UNCHANGED bookings
      BY <1>2, <2>2 DEF Pay, BeginPay, PayLock, PayRetrieve, PayReread, PayRetrieveFailed,
                        PayCreate, PayStore, PayGiveUpIntent, OnlyPayments, db
    <3> QED
      BY <1>s, <3>1
  <2> QED
    BY <2>1, <2>2
<1>3. ASSUME NEW p \in Requests, Webhook(p) PROVE NoRevival
  <2>1. CASE HookConfirm(p)
    BY <2>1, ConfirmRevivesNone DEF HookConfirm, PendingLabels, Procs
  <2>2. CASE HookCancel(p)
    BY <2>2, CancelRevivesNone DEF HookCancel
  <2>3. CASE ~HookConfirm(p) /\ ~HookCancel(p)
    <3>1. UNCHANGED bookings
      BY <1>3, <2>3 DEF Webhook, BeginWebhook, HookLock, OnlyPayments, HookSeats,
                        HookService, HookRefund, db
    <3> QED
      BY <1>s, <3>1
  <2> QED
    BY <2>1, <2>2, <2>3
<1>4. ASSUME NEW p \in Requests, CancelBooking(p) PROVE NoRevival
  <2>1. CASE CancelCommit(p)
    BY <2>1, CancelRevivesNone DEF CancelCommit
  <2>2. CASE ~CancelCommit(p)
    <3>1. UNCHANGED db
      BY <1>4, <2>2 DEF CancelBooking, BeginCancel, CancelLock, CancelRefund, CancelIntent
    <3> QED
      BY <1>s, <3>1 DEF db
  <2> QED
    BY <2>1, <2>2
<1>5. ASSUME NEW p \in Sweepers, Sweep(p) PROVE NoRevival
  <2>1. CASE SweepConfirm(p)
    BY <2>1, ConfirmRevivesNone DEF SweepConfirm, PendingLabels, Procs
  <2>2. CASE SweepRelease(p)
    BY <2>2, CancelRevivesNone DEF SweepRelease
  <2>3. CASE ~SweepConfirm(p) /\ ~SweepRelease(p)
    <3>1. UNCHANGED db
      BY <1>5, <2>3 DEF Sweep, BeginSweep, SweepNext, SweepEnd, SweepLock, SweepIntent,
                        SweepRetrieve, SweepSeats, SweepService, SweepRefund, SweepItemError
    <3> QED
      BY <1>s, <3>1 DEF db
  <2> QED
    BY <2>1, <2>2, <2>3
<1>6. ASSUME NEW p \in Sellers, Seller(p) PROVE NoRevival
  BY <1>s, <1>6 DEF Seller, BeginUpdate, UpdateCommit, BeginDelete, DeleteCommit, db
<1>7. ASSUME NEW p \in Procs, LockSeat(p) \/ Crash(p) PROVE NoRevival
  BY <1>s, <1>7 DEF LockSeat, Crash, db
<1>8. CASE Stripe \/ Tick \/ UNCHANGED vars
  BY <1>s, <1>8 DEF Stripe, Tick, vars, db
<1> QED
  BY <1>1, <1>2, <1>3, <1>4, <1>5, <1>6, <1>7, <1>8 DEF Next

\* A cancelled booking stays cancelled and a confirmed one is never pending
\* again, in whatever order pay, webhook, cancel and sweep commit.
THEOREM CancelledForGood == ASSUME RereadAtOnce PROVE Spec => BookingNeverRevives
<1>1. SeatInv /\ [Next]_vars => [NoRevival]_bookings
  BY NextRevivesNone
<1>2. [][NoRevival]_bookings <=> BookingNeverRevives
  BY PTL DEF NoRevival, BookingNeverRevives
<1> QED
  BY <1>1, <1>2, SeatInvHolds, PTL DEF Spec

-----------------------------------------------------------------------------
(* Reserved seating implements SeatLedger *)

Has(b, s) == Live(b) /\ s \in bookings[b].units

\* Holder is what its CHOOSE is to choose.
HolderOK == \A s \in Seats : /\ Holder[s] \in Bookings \cup {Null}
                             /\ \A b \in Bookings : Holder[s] = b <=> Has(b, s)

LEMMA HolderIs == SeatsMatchBookings => HolderOK
<1> SUFFICES ASSUME SeatsMatchBookings, NEW s \in Seats
             PROVE  /\ Holder[s] \in Bookings \cup {Null}
                    /\ \A b \in Bookings : Holder[s] = b <=> Has(b, s)
  BY DEF HolderOK
<1> DEFINE c == CHOOSE b \in Bookings : Live(b) /\ s \in bookings[b].units
<1>1. CASE seats[s] = "available"
  <2>1. Holder[s] = Null
    BY <1>1 DEF Holder
  <2>2. \A b \in Bookings : ~Has(b, s)
    BY <1>1 DEF SeatsMatchBookings, SeatStatus, Has
  <2> QED
    BY <2>1, <2>2, NullIsNoBooking
<1>2. CASE seats[s] # "available"
  <2>1. Holder[s] = c
    BY <1>2 DEF Holder
  <2>2. \E b \in Bookings : Live(b) /\ s \in bookings[b].units
    BY <1>2 DEF SeatsMatchBookings
  <2>3. c \in Bookings /\ Live(c) /\ s \in bookings[c].units
    BY <2>2
  <2> HIDE DEF c
  <2>4. \A b \in Bookings : Has(b, s) => b = c
    BY <2>3 DEF SeatsMatchBookings, SeatSoldOnce, Has
  <2> QED
    BY <2>1, <2>3, <2>4 DEF Has
<1> QED
  BY <1>1, <1>2

LEMMA HolderFunction == Holder = [s \in Seats |-> Holder[s]]
BY DEF Holder

LEMMA HolderFunctionNext == (Holder = [s \in Seats |-> Holder[s]])'
BY HolderFunction, PTL

LEMMA HolderIsNext == SeatsMatchBookings' => HolderOK'
BY HolderIs, PTL

Sold == {b \in Bookings : bookings[b].status = "confirmed"}
Gone == {b \in Bookings : bookings[b].status = "cancelled"}

\* Every booking with reserved seats has some, also while it is being created.
DraftHasSeats(p) == pc[p] \in CreateLabels => req[p].draft.units # {}

BookingsHaveSeats == /\ \A b \in Bookings : Live(b) => bookings[b].units # {}
                     /\ \A p \in Procs : DraftHasSeats(p)

LEMMA DraftsHaveSeats ==
    ASSUME UnitMode, TypeInv, [Next]_vars, NEW p \in Procs, DraftHasSeats(p)
    PROVE  DraftHasSeats(p)'
<1>0. req[p] \in Req /\ req[p].draft \in Booking
  BY LocalTypes DEF TypeInv
<1>1. CASE Stays(p)
  BY <1>1 DEF Stays, DraftHasSeats
<1>2. CASE Create(p)
  <2>1. ASSUME NEW u \in Users, NEW q \in 0..MaxTickets, NEW units \in SUBSET Seats,
               NEW total \in Prices, BeginCreate(p, u, q, units, total)
        PROVE  DraftHasSeats(p)'
    <3> DEFINE d == [NoBooking EXCEPT !.status = "pending", !.user = u, !.quantity = q,
                                      !.units = units, !.total = total]
               r == [NoReq EXCEPT !.now = clock, !.draft = d]
    <3>1. d.units = units
      BY DEF NoBooking
    <3>2. r.draft = d
      BY DEF NoReq
    <3>3. Goto(p, "create_user", r) /\ units # {}
      BY <2>1 DEF BeginCreate
    <3> HIDE DEF d, r
    <3> QED
      BY <3>1, <3>2, <3>3, GotoKeeps DEF DraftHasSeats
  <2>2. CASE CreateLockUser(p)
    <3>1. pc[p] \in CreateLabels
      BY <2>2 DEF CreateLockUser, CreateLabels
    <3> DEFINE r(t) == [req[p] EXCEPT !.draft.created = t,
                                      !.want = req[p].draft.units,
                                      !.cap = service.max_capacity]
    <3>2. \A t : r(t).draft.units = req[p].draft.units
      BY <1>0 DEF Req, Booking
    <3>3. Finish(p) \/ \E label, t : Goto(p, label, r(t))
      BY <2>2 DEF CreateLockUser
    <3> HIDE DEF r
    <3>4. CASE Finish(p)
      BY <3>4, FinishKeeps DEF DraftHasSeats, CreateLabels
    <3>5. ASSUME NEW label, NEW t, Goto(p, label, r(t)) PROVE DraftHasSeats(p)'
      BY <3>1, <3>2, <3>5, GotoKeeps DEF DraftHasSeats
    <3> QED
      BY <3>3, <3>4, <3>5
  <2>3. CASE CreateSeats(p) \/ CreateSlot(p) \/ CreateInsert(p)
    <3>1. pc[p] \in CreateLabels /\ (Finish(p) \/ Goto(p, "create_insert", req[p]))
      BY <2>3 DEF CreateSeats, CreateSlot, CreateInsert, CreateLabels
    <3> QED
      BY <3>1, FinishKeeps, GotoKeeps DEF DraftHasSeats, CreateLabels
  <2> QED
    BY <1>2, <2>1, <2>2, <2>3 DEF Create
<1>3. CASE Acts(p) /\ ~Create(p)
  <2>1. (PayLabels \cup HookLabels \cup CancelLabels \cup SweepLabels \cup SellerLabels
           \cup {"idle"}) \cap CreateLabels = {}
    BY DEF CreateLabels, PayLabels, HookLabels, CancelLabels, SweepLabels, SellerLabels
  <2>2. pc'[p] \notin CreateLabels
    BY <1>3, <2>1, WhereTo, GotoKeeps DEF Acts
  <2> QED
    BY <2>2 DEF DraftHasSeats
<1> QED
  BY <1>1, <1>2, <1>3, StaysOrActs

\* The ledger's step when a row is inserted, confirmed or cancelled
LEMMA InsertHolds ==
    ASSUME SeatInv, SeatsMatchBookings', BookingsHaveSeats, NEW p \in Procs, CreateInsert(p),
           bookings' # bookings
    PROVE  \E b \in Bookings, S \in (SUBSET Seats) \ {{}} : Ledger!Hold(b, S)
<1> DEFINE draft == req[p].draft
<1>1. PICK b \in Bookings : /\ bookings[b].status = "none"
                            /\ bookings' = [bookings EXCEPT ![b] = draft]
  BY DEF CreateInsert, db
<1>2. /\ draft.status = "pending" /\ draft.units \subseteq Seats /\ draft.units # {}
      /\ \A s \in draft.units : seats[s] = "available"
  BY LocalTypes
  DEF SeatInv, TypeInv, LocksProtect, DraftProtected, CreateInsert, BookingsHaveSeats,
      DraftHasSeats, CreateLabels
<1>3. bookings'[b] = draft /\ \A c \in Bookings \ {b} : bookings'[c] = bookings[c]
  BY <1>1 DEF SeatInv, TypeInv, DbTypeOK
<1>4. HolderOK /\ HolderOK'
  BY HolderIs, HolderIsNext DEF SeatInv
<1> DEFINE S == draft.units
<1>5. \A s \in Seats : /\ ~Has(b, s)
                       /\ Has(b, s)' <=> s \in S
                       /\ \A c \in Bookings \ {b} : Has(c, s)' <=> Has(c, s)
  BY <1>1, <1>2, <1>3 DEF Has, Live
<1>6. \A s \in S : Holder[s] = Null
  BY <1>2 DEF Holder
<1> HIDE DEF S
<1>7. ASSUME NEW s \in Seats PROVE Holder'[s] = IF s \in S THEN b ELSE Holder[s]
  BY <1>4, <1>5, NullIsNoBooking DEF HolderOK
<1>8. Holder' = [s \in Seats |-> IF s \in S THEN b ELSE Holder[s]]
  BY <1>7, HolderFunctionNext
<1>9. {s \in Seats : Holder[s] = b} = {}
  BY <1>4, <1>5 DEF HolderOK
<1>10. Sold' = Sold /\ Gone' = Gone /\ b \notin Gone
  BY <1>1, <1>2, <1>3 DEF Sold, Gone
<1>11. Ledger!Hold(b, S)
  BY <1>6, <1>8, <1>9, <1>10 DEF Ledger!Hold, Ledger!SeatsOf, Sold, Gone
<1>12. S \in (SUBSET Seats) \ {{}}
  <2>1. S \subseteq Seats /\ S # {}
    BY <1>2 DEF S
  <2> QED
    BY <2>1
<1> QED
  BY <1>11, <1>12

LEMMA ConfirmSells ==
    ASSUME SeatInv, SeatsMatchBookings', BookingsHaveSeats, NEW p \in Procs,
           pc[p] \in PendingLabels, Confirm(p, req[p].bk), NEW b \in Bookings, b = req[p].bk
    PROVE  Ledger!Sell(b)
<1>1. Pending(b)
  BY DEF SeatInv, LocksProtect, BookingProtected
<1>2. /\ bookings'[b].status = "confirmed" /\ bookings'[b].units = bookings[b].units
      /\ \A c \in Bookings \ {b} : bookings'[c] = bookings[c]
  BY <1>1, ConfirmWrites DEF SeatInv
<1>3. HolderOK /\ HolderOK'
  BY HolderIs, HolderIsNext DEF SeatInv
<1>4. \A s \in Seats, c \in Bookings : Has(c, s)' <=> Has(c, s)
  BY <1>1, <1>2 DEF Has, Live, Pending
<1>5. ASSUME NEW s \in Seats PROVE Holder'[s] = Holder[s]
  BY <1>3, <1>4 DEF HolderOK
<1>6. Holder' = Holder
  BY <1>5, HolderFunction, HolderFunctionNext
<1>7. {s \in Seats : Holder[s] = b} # {}
  <2>1. PICK s \in bookings[b].units : s \in Seats
    BY <1>1, RowTypes DEF SeatInv, TypeInv, BookingsHaveSeats, Live, Pending
  <2>2. Has(b, s)
    BY <1>1, <2>1 DEF Has, Live, Pending
  <2> QED
    BY <1>1, <1>3, <2>1, <2>2 DEF HolderOK
<1>8. Sold' = Sold \cup {b} /\ Gone' = Gone /\ b \notin Sold
  BY <1>1, <1>2 DEF Sold, Gone, Pending
<1> QED
  BY <1>6, <1>7, <1>8 DEF Ledger!Sell, Ledger!SeatsOf, Sold, Gone

LEMMA CancelGivesBack ==
    ASSUME SeatInv, SeatsMatchBookings', BookingsHaveSeats, NEW b \in Bookings, Live(b),
           bookings'[b].status = "cancelled",
           \A c \in Bookings \ {b} : bookings'[c] = bookings[c]
    PROVE  Ledger!GiveBack(b)
<1>1. HolderOK /\ HolderOK'
  BY HolderIs, HolderIsNext DEF SeatInv
<1>2. \A s \in Seats : /\ ~Has(b, s)'
                       /\ \A c \in Bookings \ {b} : Has(c, s)' <=> Has(c, s)
  BY DEF Has, Live
<1>3. ASSUME NEW s \in Seats PROVE Holder'[s] = IF Holder[s] = b THEN Null ELSE Holder[s]
  BY <1>1, <1>2, NullIsNoBooking DEF HolderOK
<1>4. Holder' = [s \in Seats |-> IF Holder[s] = b THEN Null ELSE Holder[s]]
  BY <1>3, HolderFunctionNext
<1>5. {s \in Seats : Holder[s] = b} # {}
  <2>1. PICK s \in bookings[b].units : s \in Seats
    BY RowTypes DEF SeatInv, TypeInv, BookingsHaveSeats
  <2> QED
    BY <1>1, <2>1 DEF HolderOK, Has
<1>6. Sold' = Sold \ {b} /\ Gone' = Gone \cup {b}
  BY DEF Sold, Gone
<1> QED
  BY <1>4, <1>5, <1>6 DEF Ledger!GiveBack, Ledger!SeatsOf, Sold, Gone

LEMMA LedgerMoves ==
    ASSUME NEW b \in Bookings, Ledger!Sell(b) \/ Ledger!GiveBack(b)
    PROVE  Ledger!Next
BY Zenon DEF Ledger!Next

\* Every step of the handlers is one of the ledger's, or none of its business.
LEMMA LedgerStep ==
    ASSUME SeatInv, SeatsMatchBookings', RowsExist, BookingsHaveSeats, [Next]_vars
    PROVE  [Ledger!Next]_<<Holder, Sold, Gone>> /\ \A b \in Bookings : Live(b)' => bookings'[b].units # {}
<1> DEFINE Kept == \A b \in Bookings : Live(b)' => bookings'[b].units # {}
<1>0. TypeInv
  BY DEF SeatInv
<1>1. CASE UNCHANGED bookings
  <2>1. HolderOK /\ HolderOK'
    BY HolderIs, HolderIsNext DEF SeatInv
  <2>2. \A s \in Seats, c \in Bookings : Has(c, s)' <=> Has(c, s)
    BY <1>1 DEF Has, Live
  <2>3. ASSUME NEW s \in Seats PROVE Holder'[s] = Holder[s]
    BY <2>1, <2>2 DEF HolderOK
  <2>4. Holder' = Holder
    BY <2>3, HolderFunction, HolderFunctionNext
  <2>5. Kept
    BY <1>1 DEF Live, BookingsHaveSeats
  <2> QED
    BY <1>1, <2>4, <2>5 DEF Sold, Gone
<1>2. ASSUME NEW p \in Procs, CreateInsert(p), bookings' # bookings
      PROVE  Ledger!Next /\ Kept
  <2>1. Ledger!Next
    BY <1>2, InsertHolds DEF Ledger!Next
  <2>2. Kept
    <3>1. PICK b \in Bookings : bookings' = [bookings EXCEPT ![b] = req[p].draft]
      BY <1>2 DEF CreateInsert, db
    <3>2. req[p].draft.units # {}
      BY <1>2 DEF CreateInsert, BookingsHaveSeats, DraftHasSeats, CreateLabels
    <3> QED
      BY <1>0, <3>1, <3>2 DEF TypeInv, DbTypeOK, Live, BookingsHaveSeats
  <2> QED
    BY <2>1, <2>2
<1>3. ASSUME NEW p \in Procs, pc[p] \in ConfirmLabels, Confirm(p, req[p].bk)
      PROVE  Ledger!Next /\ Kept
  <2>1. pc[p] \in PendingLabels
    BY <1>3 DEF ConfirmLabels, PendingLabels
  <2>2. PICK b \in Bookings : b = req[p].bk
    BY <1>0, <1>3, TargetRows DEF ConfirmLabels, Targeted, Labels
  <2>3. Pending(b)
    BY <2>1, <2>2 DEF SeatInv, LocksProtect, BookingProtected
  <2>4. Kept
    <3>1. /\ bookings'[b].units = bookings[b].units
          /\ \A c \in Bookings \ {b} : bookings'[c] = bookings[c]
      BY <1>0, <1>3, <2>2, ConfirmWrites
    <3> QED
      BY <2>2, <2>3, <3>1 DEF Live, Pending, BookingsHaveSeats
  <2>5. Ledger!Sell(b)
    BY <1>3, <2>1, <2>2, ConfirmSells
  <2>6. Ledger!Next
    BY <2>5, LedgerMoves
  <2> QED
    BY <2>4, <2>6
<1>4. ASSUME NEW p \in Procs, HookCancel(p) \/ CancelCommit(p) \/ SweepRelease(p)
      PROVE  (UNCHANGED bookings \/ Ledger!Next) /\ Kept
  <2>1. PICK b \in Bookings : b = req[p].bk
    BY <1>0, <1>4, TargetRows DEF HookCancel, CancelCommit, SweepRelease, Targeted, Labels
  <2>2. bookings' = [bookings EXCEPT ![b].status = "cancelled"]
    BY <1>4, <2>1 DEF HookCancel, CancelCommit, SweepRelease, Cancel
  <2>3. bookings[b].status \in {"pending", "confirmed", "cancelled"}
    BY <1>4, <2>1
    DEF HookCancel, CancelCommit, SweepRelease, SeatInv, LocksProtect, BookingProtected,
        PendingLabels, LiveLabels, RefundLabels, Live, Pending
  <2>4. /\ bookings'[b].status = "cancelled" /\ bookings'[b].units = bookings[b].units
        /\ \A c \in Bookings \ {b} : bookings'[c] = bookings[c]
    BY <1>0, <2>1, <2>2 DEF TypeInv, DbTypeOK, Booking
  <2>5. Kept
    BY <2>4 DEF Live, BookingsHaveSeats
  <2>6. UNCHANGED bookings \/ Ledger!Next
    <3>1. CASE Live(b)
      <4>1. Ledger!GiveBack(b)
        BY <2>1, <2>4, <3>1, CancelGivesBack
      <4> QED
        BY <2>1, <4>1, LedgerMoves
    <3>2. CASE ~Live(b)
      <4>1. bookings[b].status = "cancelled"
        BY <2>3, <3>2 DEF Live
      <4>2. UNCHANGED bookings
        BY <1>0, <2>1, <2>2, <4>1 DEF TypeInv, DbTypeOK, Booking
      <4> QED
        BY <4>2
    <3> QED
      BY <3>1, <3>2
  <2> QED
    BY <2>5, <2>6
<1> QED
  BY <1>1, <1>2, <1>3, <1>4, WritersOfNext

LEMMA HaveSeatsHolds ==
    ASSUME RereadAtOnce, UnitMode
    PROVE  Spec => []BookingsHaveSeats
<1>1. Init => BookingsHaveSeats
  BY DEF Init, StoreInit, NoBooking, BookingsHaveSeats, DraftHasSeats, Live, CreateLabels
<1>2. SeatInv /\ SeatInv' /\ RowsExist /\ BookingsHaveSeats /\ [Next]_vars => BookingsHaveSeats'
  BY LedgerStep, DraftsHaveSeats DEF SeatInv, BookingsHaveSeats
<1> QED
  BY <1>1, <1>2, SeatInvHolds, RowsExistHolds, PTL DEF Spec

\* All the handlers together, with their locks, calls of Stripe, crashes and
\* retries, do to reserved seats only what SeatLedger allows: seats are held
\* together, sold together and given back together.
THEOREM ReservedSeatsImplementLedger ==
    ASSUME RereadAtOnce, UnitMode
    PROVE  Spec => ImplementsLedger
<1>1. Init => Ledger!Init
  BY DEF Init, StoreInit, NoBooking, Ledger!Init, Holder
<1>2. SeatInv /\ SeatInv' /\ RowsExist /\ BookingsHaveSeats /\ [Next]_vars
         => [Ledger!Next]_<<Holder, Sold, Gone>>
  BY LedgerStep DEF SeatInv
<1> QED
  BY <1>1, <1>2, SeatInvHolds, RowsExistHolds, HaveSeatsHolds, PTL
  DEF Spec, ImplementsLedger, Ledger!Spec, Sold, Gone
=============================================================================
