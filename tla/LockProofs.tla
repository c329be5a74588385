----------------------------- MODULE LockProofs -----------------------------
(***************************************************************************)
(* What the row locks are good for besides the seats: the lock on the      *)
(* user's row caps the user's holds, the lock on the service row keeps the *)
(* tickets within the capacity, and the order in which handlers take locks *)
(* keeps them from waiting for each other in a circle.                     *)
(***************************************************************************)
EXTENDS SeatProofs, FiniteSetTheorems, WellFoundedInduction

-----------------------------------------------------------------------------
(* What a step does to locks *)

\* A handler takes one lock, gives up all it has, or leaves the locks alone.
LEMMA LocksOfActs ==
    ASSUME NEW p, Acts(p)
    PROVE  \/ UNCHANGED locks
           \/ Release(p)
           \/ LockBooking(p, req[p].bk)
           \/ LockService(p)
           \/ /\ pc[p] = "create_user"
              /\ Free(userLock[req[p].draft.user], p)
              /\ userLock' = [userLock EXCEPT ![req[p].draft.user] = p]
              /\ UNCHANGED <<bookingLock, seatLock, serviceLock>>
<1> USE DEF Finish
<1>1. ASSUME Create(p), ~CreateLockUser(p)
      PROVE  UNCHANGED locks \/ Release(p) \/ LockService(p)
  BY <1>1 DEF Create, BeginCreate, CreateSeats, CreateSlot, CreateInsert
<1>2. ASSUME CreateLockUser(p)
      PROVE  \/ Release(p)
             \/ /\ pc[p] = "create_user"
                /\ Free(userLock[req[p].draft.user], p)
                /\ userLock' = [userLock EXCEPT ![req[p].draft.user] = p]
                /\ UNCHANGED <<bookingLock, seatLock, serviceLock>>
  BY <1>2 DEF CreateLockUser
<1>3. ASSUME Pay(p) PROVE UNCHANGED locks \/ Release(p) \/ LockBooking(p, req[p].bk)
  BY <1>3 DEF Pay, BeginPay, PayLock, PayRetrieve, PayReread, PayRetrieveFailed, PayCreate,
              PayStore, PayGiveUpIntent, PayConfirm
<1>4. ASSUME Webhook(p)
      PROVE  UNCHANGED locks \/ Release(p) \/ LockBooking(p, req[p].bk) \/ LockService(p)
  BY <1>4 DEF Webhook, BeginWebhook, HookLock, HookFailed, HookSucceeded, HookSeats, HookService,
              HookRefund, HookConfirm, HookCancel
<1>5. ASSUME CancelBooking(p) PROVE UNCHANGED locks \/ Release(p) \/ LockBooking(p, req[p].bk)
  BY <1>5 DEF CancelBooking, BeginCancel, CancelLock, CancelRefund, CancelIntent, CancelCommit
<1>6. ASSUME Sweep(p)
      PROVE  UNCHANGED locks \/ Release(p) \/ LockBooking(p, req[p].bk) \/ LockService(p)
  BY <1>6 DEF Sweep, BeginSweep, SweepNext, SweepEnd, SweepLock, SweepIntent, SweepRetrieve,
              SweepSeats, SweepService, SweepRefund, SweepItemError, SweepConfirm, SweepRelease,
              Skip
<1>7. ASSUME Seller(p) \/ Crash(p) PROVE UNCHANGED locks \/ Release(p)
  BY <1>7 DEF Seller, BeginUpdate, UpdateCommit, BeginDelete, DeleteCommit, Crash
<1> QED
  BY <1>1, <1>2, <1>3, <1>4, <1>5, <1>6, <1>7 DEF Acts

\* No step of p takes or gives up a lock for q.
LEMMA LocksOfOthersStay ==
    ASSUME TypeInv, NEW p \in Procs, Acts(p) \/ LockSeat(p), NEW q \in Procs \ {p}
    PROVE  /\ \A b \in Bookings : bookingLock'[b] = q <=> bookingLock[b] = q
           /\ \A s \in Seats : seatLock'[s] = q <=> seatLock[s] = q
           /\ \A u \in Users : userLock'[u] = q <=> userLock[u] = q
           /\ serviceLock' = q <=> serviceLock = q
<1>n. q # Null /\ q # p
  BY NullIsNoProc
<1>1. CASE UNCHANGED locks
  BY <1>1 DEF locks
<1>2. CASE Release(p)
  BY <1>2, <1>n DEF Release, TypeInv, LocksTypeOK
<1>3. CASE LockBooking(p, req[p].bk)
  BY <1>3, <1>n DEF LockBooking, Free, TypeInv, LocksTypeOK
<1>4. CASE LockService(p)
  BY <1>4, <1>n DEF LockService, Free, TypeInv, LocksTypeOK
<1>5. CASE /\ Free(userLock[req[p].draft.user], p)
           /\ userLock' = [userLock EXCEPT ![req[p].draft.user] = p]
           /\ UNCHANGED <<bookingLock, seatLock, serviceLock>>
  BY <1>5, <1>n DEF Free, TypeInv, LocksTypeOK
<1>6. CASE LockSeat(p)
  BY <1>6, <1>n DEF LockSeat, Free, TypeInv, LocksTypeOK
<1> QED
  BY <1>1, <1>2, <1>3, <1>4, <1>5, <1>6, LocksOfActs

\* Who does not act, whoever else does, keeps the locks it has and gets none,
\* but for the seat it is waiting for.
LEMMA LocksStay ==
    ASSUME TypeInv, [Next]_vars, NEW q \in Procs, ~Acts(q)
    PROVE  /\ \A b \in Bookings : bookingLock'[b] = q <=> bookingLock[b] = q
           /\ \A u \in Users : userLock'[u] = q <=> userLock[u] = q
           /\ serviceLock' = q <=> serviceLock = q
           /\ LockSeat(q) \/ \A s \in Seats : seatLock'[s] = q <=> seatLock[s] = q
<1>1. CASE UNCHANGED <<db, mails, locks, pc, req>>
  BY <1>1 DEF locks
<1>2. CASE LockSeat(q)
  BY <1>2 DEF LockSeat
<1>3. ASSUME NEW p \in Procs \ {q}, Acts(p) \/ LockSeat(p)
      PROVE  /\ \A b \in Bookings : bookingLock'[b] = q <=> bookingLock[b] = q
             /\ \A u \in Users : userLock'[u] = q <=> userLock[u] = q
             /\ serviceLock' = q <=> serviceLock = q
             /\ \A s \in Seats : seatLock'[s] = q <=> seatLock[s] = q
  BY <1>3, LocksOfOthersStay
<1> QED
  BY <1>1, <1>2, <1>3, NextMoves

LEMMA ClockAdvances ==
    ASSUME [Next]_vars
    PROVE  clock' = clock \/ clock' = clock + 1
<1>1. ASSUME NEW p \in Procs, Create(p) \/ Pay(p) \/ Webhook(p) PROVE clock' = clock
  BY <1>1 DEF Create, BeginCreate, CreateLockUser, CreateSeats, CreateSlot, CreateInsert,
              Pay, BeginPay, PayLock, PayRetrieve, PayReread, PayRetrieveFailed, PayCreate,
              PayStore, PayGiveUpIntent, PayConfirm, OnlyPayments, Confirm,
              Webhook, BeginWebhook, HookLock, HookSeats, HookService, HookRefund, HookConfirm,
              HookCancel, Cancel
<1>2. ASSUME NEW p \in Procs, CancelBooking(p) \/ Sweep(p) PROVE clock' = clock
  BY <1>2 DEF CancelBooking, BeginCancel, CancelLock, CancelRefund, CancelIntent, CancelCommit,
              Cancel, Sweep, BeginSweep, SweepNext, SweepEnd, SweepLock, SweepIntent,
              SweepRetrieve, SweepSeats, SweepService, SweepRefund, SweepItemError,
              SweepConfirm, SweepRelease, Confirm
<1>3. ASSUME NEW p \in Procs, Seller(p) \/ LockSeat(p) \/ Crash(p) PROVE clock' = clock
  BY <1>3 DEF Seller, BeginUpdate, UpdateCommit, BeginDelete, DeleteCommit, LockSeat, Crash
<1>4. CASE Stripe \/ Tick \/ UNCHANGED vars
  BY <1>4 DEF Stripe, Tick, vars
<1> QED
  BY <1>1, <1>2, <1>3, <1>4 DEF Next, Procs

-----------------------------------------------------------------------------
(* The holds of a user *)

Rows == {b \in Bookings : Exists(b)}

Holds(u, t) == {b \in Bookings : bookings[b].user = u /\ Pending(b) /\ Unexpired(b, t)}

\* create_booking has counted the holds of a user whose row it has locked: at
\* the time it read first, which is past.
DraftCounted(p) ==
    LET u == req[p].draft.user
        t == req[p].now
    IN  pc[p] \in CreateLabels =>
          /\ u \in Users
          /\ t <= clock
          /\ pc[p] # "create_user" => userLock[u] = p /\ PendingHolds(u, t) < MaxPendingHolds

HoldInv == /\ IsFiniteSet(Rows)
           /\ HoldsCapped
           /\ \A p \in Procs : DraftCounted(p)

LEMMA HoldsFinite ==
    ASSUME IsFiniteSet(Rows), NEW u, NEW t
    PROVE  /\ IsFiniteSet(Holds(u, t))
           /\ PendingHolds(u, t) = Cardinality(Holds(u, t))
           /\ PendingHolds(u, t) \in Nat
           /\ \A T \in SUBSET Holds(u, t) : /\ Cardinality(T) \in Nat
                                            /\ Cardinality(T) <= PendingHolds(u, t)
<1>1. Holds(u, t) \in SUBSET Rows
  BY DEF Holds, Rows, Pending, Exists
<1>2. IsFiniteSet(Holds(u, t))
  BY <1>1, FS_Subset
<1>3. PendingHolds(u, t) = Cardinality(Holds(u, t))
  BY DEF PendingHolds, Holds
<1>4. PendingHolds(u, t) \in Nat
  BY <1>2, <1>3, FS_CardinalityType
<1>5. ASSUME NEW T \in SUBSET Holds(u, t)
      PROVE  Cardinality(T) \in Nat /\ Cardinality(T) <= PendingHolds(u, t)
  BY <1>2, <1>3, FS_Subset, FS_CardinalityType
<1> QED
  BY <1>2, <1>3, <1>4, <1>5

\* Only create_booking adds a row, and with it a hold of the user it has counted.
LEMMA RowsAdded ==
    ASSUME TypeInv, RowsExist, [Next]_vars
    PROVE  \/ /\ Rows' \subseteq Rows
              /\ \A u, t : Holds(u, t)' \subseteq Holds(u, t)
           \/ \E p \in Procs, b \in Bookings :
                 /\ CreateInsert(p)
                 /\ Rows' \subseteq Rows \cup {b}
                 /\ \A u, t : \/ Holds(u, t)' \subseteq Holds(u, t)
                              \/ /\ u = req[p].draft.user
                                 /\ Holds(u, t)' \subseteq Holds(u, t) \cup {b}
<1> USE DEF Rows, Holds, Exists, Pending, Unexpired
<1>1. CASE UNCHANGED bookings
  BY <1>1
<1>2. ASSUME NEW p \in Procs, NEW b \in Bookings, NEW status,
             b = req[p].bk, pc[p] \in Targeted, status # "pending",
             bookings' = [bookings EXCEPT ![b].status = status]
      PROVE  /\ Rows' \subseteq Rows
             /\ \A u, t : Holds(u, t)' \subseteq Holds(u, t)
  <2>1. Exists(b)
    BY <1>2, TargetRows
  <2>2. bookings'[b].status = status /\ \A c \in Bookings \ {b} : bookings'[c] = bookings[c]
    BY <1>2 DEF TypeInv, DbTypeOK, Booking
  <2> QED
    BY <1>2, <2>1, <2>2
<1>3. ASSUME NEW p \in Procs, pc[p] \in ConfirmLabels, Confirm(p, req[p].bk)
      PROVE  /\ Rows' \subseteq Rows
             /\ \A u, t : Holds(u, t)' \subseteq Holds(u, t)
  <2>1. pc[p] \in Targeted
    BY <1>3 DEF ConfirmLabels, Targeted, Labels
  <2>2. PICK b \in Bookings : b = req[p].bk
    BY <2>1, TargetRows
  <2>3. bookings' = [bookings EXCEPT ![b].status = "confirmed"]
    BY <1>3, <2>2 DEF Confirm
  <2> QED
    BY <1>2, <2>1, <2>2, <2>3
<1>4. ASSUME NEW p \in Procs, HookCancel(p) \/ CancelCommit(p) \/ SweepRelease(p)
      PROVE  /\ Rows' \subseteq Rows
             /\ \A u, t : Holds(u, t)' \subseteq Holds(u, t)
  <2>1. pc[p] \in Targeted
    BY <1>4 DEF HookCancel, CancelCommit, SweepRelease, Targeted, Labels
  <2>2. PICK b \in Bookings : b = req[p].bk
    BY <2>1, TargetRows
  <2>3. bookings' = [bookings EXCEPT ![b].status = "cancelled"]
    BY <1>4, <2>2 DEF HookCancel, CancelCommit, SweepRelease, Cancel
  <2> QED
    BY <1>2, <2>1, <2>2, <2>3
<1>5. ASSUME NEW p \in Procs, CreateInsert(p), bookings' # bookings
      PROVE  \E b \in Bookings :
                 /\ Rows' \subseteq Rows \cup {b}
                 /\ \A u, t : \/ Holds(u, t)' \subseteq Holds(u, t)
                              \/ /\ u = req[p].draft.user
                                 /\ Holds(u, t)' \subseteq Holds(u, t) \cup {b}
  <2>1. PICK b \in Bookings : bookings' = [bookings EXCEPT ![b] = req[p].draft]
    BY <1>5 DEF CreateInsert, db
  <2>2. bookings'[b] = req[p].draft /\ \A c \in Bookings \ {b} : bookings'[c] = bookings[c]
    BY <2>1 DEF TypeInv, DbTypeOK
  <2> QED
    BY <2>2
<1> HIDE DEF Rows, Holds, Exists, Pending, Unexpired
<1> QED
  BY <1>1, <1>3, <1>4, <1>5, WritersOfNext

\* Only its own insert adds to the holds of a user whose row p has locked.
LEMMA CountStays ==
    ASSUME TypeInv, RowsExist, HoldInv, [Next]_vars, NEW p \in Procs, ~CreateInsert(p),
           NEW u \in Users, userLock[u] = p, NEW t
    PROVE  Holds(u, t)' \subseteq Holds(u, t)
<1>1. ASSUME NEW q \in Procs, CreateInsert(q) PROVE u # req[q].draft.user
  BY <1>1 DEF HoldInv, DraftCounted, CreateInsert, CreateLabels
<1> QED
  BY <1>1, RowsAdded

LEMMA DraftCountedNext ==
    ASSUME TypeInv, RowsExist, HoldInv, [Next]_vars, NEW p \in Procs
    PROVE  DraftCounted(p)'
<1>0. /\ req[p] \in Req /\ req[p].draft \in Booking /\ req[p].now \in Nat
      /\ clock \in Nat /\ MaxPendingHolds \in Nat
      /\ DraftCounted(p) /\ IsFiniteSet(Rows)
  BY LocalTypes, NumbersAssumption DEF TypeInv, DbTypeOK, HoldInv
\* What remains to be shown of a step that keeps the user and the time
<1>k. ASSUME pc[p] \in CreateLabels, ~CreateInsert(p),
             req'[p].draft.user = req[p].draft.user, req'[p].now = req[p].now,
             pc'[p] # "create_user" =>
                 /\ userLock'[req[p].draft.user] = p
                 /\ PendingHolds(req[p].draft.user, req[p].now) < MaxPendingHolds
                 /\ UNCHANGED bookings \/ userLock[req[p].draft.user] = p
      PROVE  DraftCounted(p)'
  <2>1. PICK u \in Users, t \in Nat : u = req[p].draft.user /\ t = req[p].now /\ t <= clock
    BY <1>0, <1>k DEF DraftCounted
  <2>2. t <= clock'
    BY <1>0, <2>1, ClockAdvances
  <2>3. CASE pc'[p] = "create_user"
    BY <1>k, <2>1, <2>2, <2>3 DEF DraftCounted
  <2>4. CASE pc'[p] # "create_user"
    <3>1. Holds(u, t)' \in SUBSET Holds(u, t)
      <4>1. CASE UNCHANGED bookings
        BY <4>1 DEF Holds, Pending, Unexpired
      <4>2. CASE userLock[u] = p
        BY <1>k, <4>2, CountStays
      <4> QED
        BY <1>k, <2>1, <2>4, <4>1, <4>2
    <3>2. PendingHolds(u, t)' < MaxPendingHolds
      <4>1. PendingHolds(u, t)' = Cardinality(Holds(u, t)')
        BY DEF PendingHolds, Holds
      <4>2. /\ Cardinality(Holds(u, t)') \in Nat /\ PendingHolds(u, t) \in Nat
            /\ Cardinality(Holds(u, t)') <= PendingHolds(u, t)
        BY <1>0, <3>1, HoldsFinite
      <4>3. PendingHolds(u, t) < MaxPendingHolds
        BY <1>k, <2>1, <2>4
      <4> QED
        BY <1>0, <4>1, <4>2, <4>3
    <3> QED
      BY <1>k, <2>1, <2>2, <2>4, <3>2 DEF DraftCounted, PendingHolds, Pending, Unexpired
  <2> QED
    BY <2>3, <2>4
<1>1. CASE ~Acts(p)
  <2>1. Stays(p) /\ ~CreateInsert(p)
    BY <1>1, StaysOrActs DEF Acts, Create
  <2>2. CASE pc[p] \in CreateLabels
    <3>1. req[p].draft.user \in Users
      BY <1>0, <2>2 DEF DraftCounted
    <3> QED
      BY <1>0, <1>1, <1>k, <2>1, <2>2, <3>1, LocksStay DEF Stays, DraftCounted
  <2>3. CASE pc[p] \notin CreateLabels
    BY <2>1, <2>3 DEF Stays, DraftCounted
  <2> QED
    BY <2>2, <2>3
<1>2. CASE Create(p)
  <2>f. ASSUME Finish(p) PROVE DraftCounted(p)'
    BY <2>f, GotoKeeps DEF Finish, DraftCounted, CreateLabels
  <2>1. ASSUME NEW u \in Users, NEW q \in 0..MaxTickets, NEW units \in SUBSET Seats,
               NEW total \in Prices, BeginCreate(p, u, q, units, total)
        PROVE  DraftCounted(p)'
    <3> DEFINE d == [NoBooking EXCEPT !.status = "pending", !.user = u, !.quantity = q,
                                      !.units = units, !.total = total]
               r == [NoReq EXCEPT !.now = clock, !.draft = d]
    <3>1. d.user = u
      BY DEF NoBooking
    <3>2. r.draft = d /\ r.now = clock
      BY DEF NoReq
    <3>3. Goto(p, "create_user", r) /\ UNCHANGED clock
      BY <2>1 DEF BeginCreate
    <3> HIDE DEF d, r
    <3>4. pc'[p] = "create_user" /\ req'[p].draft.user = u /\ req'[p].now = clock'
      BY <3>1, <3>2, <3>3, GotoKeeps
    <3> QED
      BY <1>0, <3>3, <3>4 DEF DraftCounted
  <2>2. CASE CreateLockUser(p)
    <3> DEFINE u == req[p].draft.user
               r(t) == [req[p] EXCEPT !.draft.created = t,
                                      !.want = req[p].draft.units,
                                      !.cap = service.max_capacity]
    <3>1. \A t : r(t).draft.user = u /\ r(t).now = req[p].now
      BY <1>0 DEF Req, Booking
    <3>2. pc[p] \in CreateLabels /\ ~CreateInsert(p) /\ UNCHANGED bookings
      BY <2>2 DEF CreateLockUser, CreateLabels, CreateInsert, db
    <3>3. \/ Finish(p)
          \/ /\ ~(PendingHolds(u, req[p].now) >= MaxPendingHolds)
             /\ userLock' = [userLock EXCEPT ![u] = p]
             /\ \E label, t : Goto(p, label, r(t))
      BY <2>2 DEF CreateLockUser
    <3> HIDE DEF r
    <3>4. CASE ~Finish(p)
      <4>1. PICK label, t : Goto(p, label, r(t))
        BY <3>3, <3>4
      <4>2. req'[p].draft.user = u /\ req'[p].now = req[p].now
        BY <3>1, <4>1, GotoKeeps
      <4>3. u \in Users
        BY <1>0, <3>2 DEF DraftCounted
      <4>4. userLock'[u] = p
        BY <3>3, <3>4, <4>3 DEF TypeInv, LocksTypeOK
      <4>5. PendingHolds(u, req[p].now) < MaxPendingHolds
        BY <1>0, <3>3, <3>4, HoldsFinite
      <4> QED
        BY <1>k, <3>2, <4>2, <4>4, <4>5
    <3> QED
      BY <2>f, <3>4
  <2>3. CASE CreateSeats(p) \/ CreateSlot(p)
    <3>1. /\ pc[p] \in CreateLabels \ {"create_user"} /\ ~CreateInsert(p) /\ UNCHANGED bookings
      BY <2>3 DEF CreateSeats, CreateSlot, CreateLabels, CreateInsert, db
    <3>2. \/ Finish(p)
          \/ Goto(p, "create_insert", req[p]) /\ UNCHANGED userLock
      BY <2>3 DEF CreateSeats, CreateSlot, LockService, locks
    <3>3. CASE Goto(p, "create_insert", req[p]) /\ UNCHANGED userLock
      BY <1>0, <1>k, <3>1, <3>3, GotoKeeps DEF DraftCounted
    <3> QED
      BY <2>f, <3>2, <3>3
  <2>4. CASE CreateInsert(p)
    BY <2>f, <2>4 DEF CreateInsert
  <2> QED
    BY <1>2, <2>1, <2>2, <2>3, <2>4 DEF Create
<1>3. CASE Acts(p) /\ ~Create(p)
  <2>1. (PayLabels \cup HookLabels \cup CancelLabels \cup SweepLabels \cup SellerLabels
           \cup {"idle"}) \cap CreateLabels = {}
    BY DEF CreateLabels, PayLabels, HookLabels, CancelLabels, SweepLabels, SellerLabels
  <2>2. pc'[p] \notin CreateLabels
    BY <1>3, <2>1, WhereTo, GotoKeeps DEF Acts
  <2> QED
    BY <2>2 DEF DraftCounted
<1> QED
  BY <1>1, <1>2, <1>3

LEMMA HoldsCappedNext ==
    ASSUME TypeInv, RowsExist, HoldInv, [Next]_vars
    PROVE  HoldsCapped' /\ IsFiniteSet(Rows)'
<1>0. IsFiniteSet(Rows) /\ clock \in Nat /\ MaxPendingHolds \in Nat /\ HoldDuration \in Nat
  BY NumbersAssumption DEF HoldInv, TypeInv, DbTypeOK
<1>1. IsFiniteSet(Rows')
  <2>1. CASE Rows' \subseteq Rows
    BY <1>0, <2>1, FS_Subset
  <2>2. ASSUME NEW b, Rows' \subseteq Rows \cup {b} PROVE IsFiniteSet(Rows')
    <3>1. IsFiniteSet(Rows \cup {b})
      BY <1>0, FS_AddElement
    <3> QED
      BY <2>2, <3>1, FS_Subset
  <2> QED
    BY <2>1, <2>2, RowsAdded
<1>m. ASSUME NEW u, NEW t \in Nat, NEW later \in Nat, t <= later
      PROVE  Holds(u, later) \subseteq Holds(u, t)
  <2>1. ASSUME NEW b \in Bookings, Unexpired(b, later) PROVE Unexpired(b, t)
    <3>1. bookings[b].created \in Nat
      BY DEF TypeInv, DbTypeOK, Booking
    <3> QED
      BY <1>0, <1>m, <2>1, <3>1 DEF Unexpired
  <2> QED
    BY <2>1 DEF Holds
<1>2. ASSUME NEW u \in Users PROVE PendingHolds(u, clock)' <= MaxPendingHolds
  <2>1. PICK now \in Nat : now = clock' /\ clock <= now
    BY <1>0, ClockAdvances
  <2>2. PendingHolds(u, clock)' = Cardinality(Holds(u, now)')
    BY <2>1 DEF PendingHolds, Holds, Unexpired, Pending
  <2>3. CASE Holds(u, now)' \subseteq Holds(u, now)
    <3>1. Holds(u, now)' \in SUBSET Holds(u, clock)
      BY <1>0, <1>m, <2>1, <2>3
    <3>2. /\ Cardinality(Holds(u, now)') \in Nat /\ PendingHolds(u, clock) \in Nat
          /\ Cardinality(Holds(u, now)') <= PendingHolds(u, clock)
      BY <1>0, <3>1, HoldsFinite
    <3>3. PendingHolds(u, clock) <= MaxPendingHolds
      BY DEF HoldInv, HoldsCapped
    <3> QED
      BY <1>0, <2>2, <3>2, <3>3
  <2>4. ASSUME NEW p \in Procs, NEW b \in Bookings, CreateInsert(p), u = req[p].draft.user,
               Holds(u, now)' \subseteq Holds(u, now) \cup {b}
        PROVE  PendingHolds(u, clock)' <= MaxPendingHolds
    <3>1. PICK t \in Nat : t = req[p].now
      BY LocalTypes DEF TypeInv
    <3>2. t <= clock /\ PendingHolds(u, t) < MaxPendingHolds
      BY <2>4, <3>1 DEF HoldInv, DraftCounted, CreateInsert, CreateLabels
    <3>3. Holds(u, now)' \in SUBSET (Holds(u, t) \cup {b})
      <4>1. t <= now
        BY <1>0, <2>1, <3>2
      <4> QED
        BY <1>m, <2>4, <4>1
    <3>4. /\ IsFiniteSet(Holds(u, t)) /\ PendingHolds(u, t) = Cardinality(Holds(u, t))
          /\ PendingHolds(u, t) \in Nat
      BY <1>0, HoldsFinite
    <3>5. /\ IsFiniteSet(Holds(u, t) \cup {b})
          /\ Cardinality(Holds(u, t) \cup {b}) <= PendingHolds(u, t) + 1
      <4>h. PICK H : H = Holds(u, t)
        OBVIOUS
      <4>1. PICK n \in Nat : n = PendingHolds(u, t)
        BY <3>4
      <4>2. IsFiniteSet(H) /\ Cardinality(H) = n
        BY <3>4, <4>1, <4>h
      <4>3. IsFiniteSet(H \cup {b}) /\ Cardinality(H \cup {b}) <= n + 1
        <5>1. /\ IsFiniteSet(H \cup {b})
              /\ Cardinality(H \cup {b}) = IF b \in H THEN Cardinality(H) ELSE Cardinality(H) + 1
          BY <4>2, FS_AddElement
        <5>2. CASE b \in H
          BY <4>2, <5>1, <5>2
        <5>3. CASE b \notin H
          BY <4>2, <5>1, <5>3
        <5> QED
          BY <5>2, <5>3
      <4> QED
        BY <4>1, <4>3, <4>h
    <3>6. /\ Cardinality(Holds(u, now)') <= Cardinality(Holds(u, t) \cup {b})
          /\ Cardinality(Holds(u, now)') \in Nat /\ Cardinality(Holds(u, t) \cup {b}) \in Nat
      BY <3>3, <3>5, FS_Subset, FS_CardinalityType
    <3> QED
      BY <1>0, <2>2, <3>2, <3>4, <3>5, <3>6
  <2> QED
    BY <2>3, <2>4, RowsAdded
<1> QED
  BY <1>1, <1>2 DEF HoldsCapped

LEMMA HoldInvHolds == Spec => []HoldInv
<1>1. Init => HoldInv
  <2> SUFFICES ASSUME Init PROVE HoldInv
    OBVIOUS
  <2>1. Rows = {} /\ \A u \in Users : PendingHolds(u, clock) = Cardinality({})
    BY DEF Init, StoreInit, NoBooking, Rows, Exists, PendingHolds, Pending
  <2>2. IsFiniteSet(Rows) /\ HoldsCapped
    BY <2>1, FS_EmptySet, NumbersAssumption DEF HoldsCapped
  <2>3. \A p \in Procs : DraftCounted(p)
    BY DEF Init, StoreInit, DraftCounted, CreateLabels
  <2> QED
    BY <2>2, <2>3 DEF HoldInv
<1>2. TypeInv /\ RowsExist /\ HoldInv /\ [Next]_vars => HoldInv'
  BY HoldsCappedNext, DraftCountedNext DEF HoldInv
<1> QED
  BY <1>1, <1>2, TypeInvHolds, RowsExistHolds, PTL DEF Spec

\* However many requests of a user race, the lock on the user's row lets no more
\* than the allowed number of holds through.
THEOREM HoldsAreCapped == Spec => []HoldsCapped
<1>1. HoldInv => HoldsCapped
  BY DEF HoldInv
<1> QED
  BY <1>1, HoldInvHolds, PTL

-----------------------------------------------------------------------------
(* The order in which handlers take row locks *)

\* Where a handler begins: it has no lock, unless it is a sweeper
FirstLabels  == {"idle", "create_user", "pay_lock", "hook_lock", "cancel_lock", "update_commit"}
LockLabels   == {"pay_lock", "hook_lock", "cancel_lock", "sweep_lock"}

\* Where a handler may have the row of a user, of the service, or of a seat
UserLabels    == {"create_seats", "create_slot", "create_insert"}
SlotLabels    == {"create_slot", "hook_service", "sweep_service"}
ServiceLabels == {"create_insert", "hook_confirm", "hook_refund", "hook_cancel",
                  "sweep_confirm", "sweep_refund", "sweep_release"}
SeatLabels    == SeatLocking \cup {"create_insert", "hook_confirm", "hook_refund", "hook_cancel",
                                   "sweep_confirm", "sweep_refund"}

\* The user's row comes before seats and service, the booking's as well, and the
\* seats in the order of their ids; who has the service wants no seat.
InOrder(p) ==
    /\ \A u \in Users : userLock[u] = p => pc[p] \in UserLabels
    /\ \A b \in Bookings : bookingLock[b] = p => pc[p] \notin FirstLabels
    /\ serviceLock = p => pc[p] \in ServiceLabels /\ req[p].want = {}
    /\ \A s \in Seats : seatLock[s] = p => pc[p] \in SeatLabels /\ \A t \in req[p].want : s < t

\* Only a sweeper sweeps, and without reserved seating no row of a seat is wanted.
RightMode(p) ==
    /\ pc[p] \in SweepLabels => p \in Sweepers
    /\ pc[p] \in SlotLabels => ~UnitMode
    /\ ~UnitMode => req[p].want = {} /\ req[p].draft.units = {}

NoSeatsInSlots == ~UnitMode => \A b \in Bookings : bookings[b].units = {}

OrderInv == NoSeatsInSlots /\ \A p \in Procs : InOrder(p) /\ RightMode(p)

\* A step from one label to the next that keeps the locks a handler has
GoesOn(from, to) ==
    /\ to \notin FirstLabels
    /\ from \in UserLabels => to \in UserLabels
    /\ from \in ServiceLabels => to \in ServiceLabels
    /\ from \in SeatLabels => to \in SeatLabels

\* How a handler may go on with the locks it has
LocksInOrder(p) ==
    \/ Release(p)
    \/ pc[p] = "idle" /\ UNCHANGED locks
    \/ /\ pc[p] \in LockLabels /\ pc'[p] \notin FirstLabels
       /\ LockBooking(p, req[p].bk)
    \/ /\ UNCHANGED locks /\ req'[p].want = req[p].want
       /\ GoesOn(pc[p], pc'[p])
    \/ /\ pc[p] \in {"sweep_next", "sweep_intent", "sweep_retrieve"} /\ pc'[p] \in SweepLabels
       /\ UNCHANGED locks
    \/ /\ pc[p] \in SlotLabels /\ pc'[p] \in ServiceLabels \cap SeatLabels
       /\ req'[p].want = req[p].want
       /\ GoesOn(pc[p], pc'[p])
       /\ LockService(p)
    \/ /\ pc[p] = "create_user" /\ pc'[p] \in UserLabels
       /\ userLock' = [userLock EXCEPT ![req[p].draft.user] = p]
       /\ UNCHANGED <<bookingLock, seatLock, serviceLock>>

LEMMA ActsInOrder ==
    ASSUME TypeInv, NEW p \in Procs, Acts(p)
    PROVE  LocksInOrder(p)
<1>0. pc \in [Procs -> Labels] /\ req \in [Procs -> Req] /\ req[p] \in Req
  BY LocalTypes DEF TypeInv, LocalsOK, ProcsTypeOK
<1> USE <1>0 DEF LocksInOrder, GoesOn, FirstLabels, LockLabels, UserLabels, SlotLabels,
                 ServiceLabels, SeatLabels, SeatLocking, SweepLabels, Finish
<1>1. ASSUME Create(p) PROVE LocksInOrder(p)
  <2>1. ASSUME NEW u \in Users, NEW q \in 0..MaxTickets, NEW units \in SUBSET Seats,
               NEW total \in Prices, BeginCreate(p, u, q, units, total)
        PROVE  LocksInOrder(p)
    BY <2>1 DEF BeginCreate
  <2>2. CASE CreateLockUser(p)
    BY <2>2 DEF CreateLockUser, Goto
  <2>3. CASE CreateSeats(p)
    BY <2>3 DEF CreateSeats, Goto
  <2>4. CASE CreateSlot(p)
    BY <2>4 DEF CreateSlot, Goto
  <2>5. CASE CreateInsert(p)
    BY <2>5 DEF CreateInsert
  <2> QED
    BY <1>1, <2>1, <2>2, <2>3, <2>4, <2>5 DEF Create
<1>2. ASSUME Pay(p) PROVE LocksInOrder(p)
  <2>1. CASE PayLock(p)
    BY <2>1 DEF PayLock, Goto
  <2>2. CASE PayRetrieve(p) \/ PayReread(p) \/ PayRetrieveFailed(p)
    BY <2>2 DEF PayRetrieve, PayReread, PayRetrieveFailed, PayGiveUpIntent, Goto, Req
  <2>3. CASE PayCreate(p)
    BY <2>3 DEF PayCreate, Goto, Req
  <2>4. CASE \E b \in Bookings : BeginPay(p, b)
    BY <2>4 DEF BeginPay
  <2>5. CASE PayStore(p) \/ PayConfirm(p)
    BY <2>5 DEF PayStore, PayConfirm
  <2> QED
    BY <1>2, <2>1, <2>2, <2>3, <2>4, <2>5 DEF Pay
<1>3. ASSUME Webhook(p) PROVE LocksInOrder(p)
  <2>1. CASE HookLock(p)
    BY <2>1 DEF HookLock, HookFailed, HookSucceeded, Goto
  <2>2. CASE HookSeats(p)
    BY <2>2 DEF HookSeats, Goto
  <2>3. CASE HookService(p)
    BY <2>3 DEF HookService, Goto
  <2>4. CASE HookRefund(p)
    BY <2>4 DEF HookRefund, Goto, Req
  <2>5. CASE HookConfirm(p) \/ HookCancel(p) \/ \E e \in events : BeginWebhook(p, e)
    BY <2>5 DEF HookConfirm, HookCancel, BeginWebhook
  <2> QED
    BY <1>3, <2>1, <2>2, <2>3, <2>4, <2>5 DEF Webhook
<1>4. ASSUME CancelBooking(p) PROVE LocksInOrder(p)
  <2>1. CASE CancelLock(p)
    BY <2>1 DEF CancelLock, Goto
  <2>2. CASE CancelRefund(p)
    BY <2>2 DEF CancelRefund, Goto
  <2>3. CASE CancelIntent(p)
    BY <2>3 DEF CancelIntent, Goto, Req
  <2>4. CASE CancelCommit(p) \/ \E b \in Bookings : BeginCancel(p, b)
    BY <2>4 DEF CancelCommit, BeginCancel
  <2> QED
    BY <1>4, <2>1, <2>2, <2>3, <2>4 DEF CancelBooking
<1>5. ASSUME Sweep(p) PROVE LocksInOrder(p)
  <2>1. CASE SweepLock(p)
    BY <2>1 DEF SweepLock, NextCandidate, Goto
  <2>2. CASE SweepNext(p) \/ SweepIntent(p) \/ SweepRetrieve(p)
    BY <2>2 DEF SweepNext, SweepIntent, SweepRetrieve, Skip, NextCandidate, Goto
  <2>3. CASE SweepSeats(p)
    BY <2>3 DEF SweepSeats, Goto
  <2>4. CASE SweepService(p)
    BY <2>4 DEF SweepService, Goto
  <2>5. CASE SweepRefund(p)
    BY <2>5 DEF SweepRefund, NextCandidate, Goto, Req
  <2>6. CASE SweepConfirm(p) \/ SweepRelease(p) \/ SweepItemError(p) \/ SweepEnd(p) \/ BeginSweep(p)
    BY <2>6 DEF SweepConfirm, SweepRelease, SweepItemError, SweepEnd, BeginSweep
  <2> QED
    BY <1>5, <2>1, <2>2, <2>3, <2>4, <2>5, <2>6 DEF Sweep
<1>6. ASSUME Seller(p) \/ Crash(p) PROVE LocksInOrder(p)
  BY <1>6 DEF Seller, BeginUpdate, UpdateCommit, BeginDelete, DeleteCommit, Crash
<1> QED
  BY <1>1, <1>2, <1>3, <1>4, <1>5, <1>6 DEF Acts

LEMMA InOrderOfActs ==
    ASSUME TypeInv, NEW p \in Procs, InOrder(p), RightMode(p), Acts(p)
    PROVE  InOrder(p)'
<1>n. Null # p
  BY NullIsNoProc
<1> USE <1>n DEF InOrder
<1>1. CASE Release(p)
  BY <1>1 DEF Release, TypeInv, LocksTypeOK
<1>2. CASE pc[p] = "idle" /\ UNCHANGED locks
  BY <1>2 DEF locks, FirstLabels, UserLabels, ServiceLabels, SeatLabels, SeatLocking
<1>3. CASE /\ pc[p] \in LockLabels /\ pc'[p] \notin FirstLabels
           /\ LockBooking(p, req[p].bk)
  BY <1>3 DEF LockBooking, LockLabels, UserLabels, ServiceLabels, SeatLabels, SeatLocking
<1>4. CASE /\ UNCHANGED locks /\ req'[p].want = req[p].want
           /\ GoesOn(pc[p], pc'[p])
  BY <1>4 DEF GoesOn, locks
<1>5. CASE /\ pc[p] \in {"sweep_next", "sweep_intent", "sweep_retrieve"} /\ pc'[p] \in SweepLabels
           /\ UNCHANGED locks
  BY <1>5 DEF locks, SweepLabels, FirstLabels, UserLabels, ServiceLabels, SeatLabels, SeatLocking
<1>6. CASE /\ pc[p] \in SlotLabels /\ pc'[p] \in ServiceLabels \cap SeatLabels
           /\ req'[p].want = req[p].want
           /\ GoesOn(pc[p], pc'[p])
           /\ LockService(p)
  <2>1. req'[p].want = {}
    BY <1>6 DEF RightMode
  <2> QED
    BY <1>6, <2>1 DEF GoesOn, LockService
<1>7. CASE /\ pc[p] = "create_user" /\ pc'[p] \in UserLabels
           /\ userLock' = [userLock EXCEPT ![req[p].draft.user] = p]
           /\ UNCHANGED <<bookingLock, seatLock, serviceLock>>
  <2>1. /\ \A u \in Users : userLock'[u] = p => pc'[p] \in UserLabels
        /\ \A b \in Bookings : bookingLock[b] # p
    BY <1>7 DEF FirstLabels
  <2> QED
    BY <1>7, <2>1 DEF ServiceLabels, SeatLabels, SeatLocking
<1> QED
  BY <1>1, <1>2, <1>3, <1>4, <1>5, <1>6, <1>7, ActsInOrder DEF LocksInOrder

LEMMA InOrderNext ==
    ASSUME TypeInv, OrderInv, [Next]_vars, NEW p \in Procs
    PROVE  InOrder(p)'
<1>1. CASE Acts(p)
  BY <1>1, InOrderOfActs DEF OrderInv
<1>2. CASE ~Acts(p) /\ LockSeat(p)
  <2>1. /\ pc'[p] = pc[p] /\ pc[p] \in SeatLocking
        /\ UNCHANGED <<bookingLock, userLock, serviceLock>>
    BY <1>2 DEF LockSeat
  <2>2. req \in [Procs -> Req] /\ req[p] \in Req /\ req[p].want \subseteq Seats /\ Seats \subseteq Nat
    BY LocalTypes, NumbersAssumption DEF TypeInv, LocalsOK, ProcsTypeOK
  <2>3. PICK s \in Seats : /\ s \in req[p].want /\ \A t \in req[p].want : s <= t
                           /\ seatLock' = [seatLock EXCEPT ![s] = p]
                           /\ req' = [req EXCEPT ![p].want = req[p].want \ {s}]
    BY <1>2, <2>2 DEF LockSeat
  <2>4. req'[p].want = req[p].want \ {s}
    BY <2>2, <2>3 DEF Req
  <2>5. ASSUME NEW x \in Seats, seatLock'[x] = p
        PROVE  pc'[p] \in SeatLabels /\ \A t \in req'[p].want : x < t
    <3>1. \A t \in req'[p].want : t \in Nat /\ s \in Nat /\ s < t
      BY <2>2, <2>3, <2>4
    <3>2. CASE x = s
      BY <2>1, <3>1, <3>2 DEF SeatLabels
    <3>3. CASE x # s
      BY <2>1, <2>3, <2>4, <2>5, <3>3 DEF OrderInv, InOrder, TypeInv, LocksTypeOK
    <3> QED
      BY <3>2, <3>3
  <2> QED
    BY <2>1, <2>4, <2>5 DEF OrderInv, InOrder
<1>3. CASE ~Acts(p) /\ ~LockSeat(p)
  BY <1>3, StaysOrActs, LocksStay DEF Stays, OrderInv, InOrder
<1> QED
  BY <1>1, <1>2, <1>3

\* What a step of p leaves behind of RightMode
ModeKept(p) ==
    /\ pc'[p] \in SlotLabels => ~UnitMode
    /\ ~UnitMode => req'[p].want = {} /\ req'[p].draft.units = {}

LEMMA ModeOfActs ==
    ASSUME TypeInv, RowsExist, NoSeatsInSlots, NEW p \in Procs, RightMode(p), Acts(p)
    PROVE  ModeKept(p)
<1>0. /\ pc \in [Procs -> Labels] /\ req \in [Procs -> Req]
      /\ req[p] \in Req /\ req[p].draft \in Booking
      /\ pc[p] \in SlotLabels => ~UnitMode
      /\ ~UnitMode => req[p].want = {} /\ req[p].draft.units = {}
  BY LocalTypes DEF TypeInv, LocalsOK, ProcsTypeOK, RightMode
<1>b. ~UnitMode /\ pc[p] \in LockLabels => bookings[req[p].bk].units = {}
  BY TargetRows DEF NoSeatsInSlots, LockLabels, Targeted, Labels
<1>i. NoReq.want = {} /\ NoReq.draft.units = {} /\ NoReq \in Req
  BY IdleReqType DEF NoReq, NoBooking
<1>f. ASSUME Finish(p) PROVE ModeKept(p)
  BY <1>0, <1>f, <1>i DEF Finish, Goto, ModeKept, SlotLabels
<1> USE DEF ModeKept, SlotLabels
<1>1. ASSUME Create(p) PROVE ModeKept(p)
  <2>1. ASSUME NEW u \in Users, NEW q \in 0..MaxTickets, NEW units \in SUBSET Seats,
               NEW total \in Prices, BeginCreate(p, u, q, units, total)
        PROVE  ModeKept(p)
    <3> DEFINE r == [NoReq EXCEPT !.now = clock,
                                  !.draft = [NoBooking EXCEPT !.status = "pending",
                                                              !.user = u,
                                                              !.quantity = q,
                                                              !.units = units,
                                                              !.total = total]]
    <3>1. Goto(p, "create_user", r) /\ (~UnitMode => units = {})
      BY <2>1 DEF BeginCreate
    <3>2. r.want = {} /\ r.draft.units = units
      BY DEF NoReq, NoBooking
    <3> HIDE DEF r
    <3> QED
      BY <3>1, <3>2, GotoKeeps
  <2>2. CASE CreateLockUser(p)
    <3> DEFINE to == IF UnitMode THEN "create_seats" ELSE "create_slot"
               r(t) == [req[p] EXCEPT !.draft.created = t,
                                      !.want = req[p].draft.units,
                                      !.cap = service.max_capacity]
    <3>1. Finish(p) \/ \E t : Goto(p, to, r(t))
      BY <2>2 DEF CreateLockUser
    <3>2. \A t : r(t).want = req[p].draft.units /\ r(t).draft.units = req[p].draft.units
      BY <1>0 DEF Req, Booking
    <3>3. to \in SlotLabels => ~UnitMode
      OBVIOUS
    <3> HIDE DEF r, to
    <3>4. ASSUME NEW t, Goto(p, to, r(t)) PROVE ModeKept(p)
      BY <1>0, <3>2, <3>3, <3>4, GotoKeeps
    <3> QED
      BY <1>f, <3>1, <3>4
  <2>3. CASE CreateSeats(p) \/ CreateSlot(p) \/ CreateInsert(p)
    BY <1>0, <1>f, <2>3 DEF Goto, CreateSeats, CreateSlot, CreateInsert
  <2> QED
    BY <1>1, <2>1, <2>2, <2>3 DEF Create
<1>2. ASSUME Pay(p) PROVE ModeKept(p)
  <2>1. CASE PayLock(p)
    <3>1. pc[p] \in LockLabels
      BY <2>1 DEF PayLock, LockLabels
    <3>2. \/ Finish(p)
          \/ /\ req'[p].want \in {bookings[req[p].bk].units, {}}
             /\ req'[p].draft = req[p].draft
             /\ pc'[p] \in SlotLabels => ~UnitMode
      <4> DEFINE r == [req[p] EXCEPT !.seen = payments[req[p].bk].status,
                               !.intent = payments[req[p].bk].intent,
                               !.want = bookings[req[p].bk].units]
      <4>3. Finish(p) \/ \E label : Goto(p, label, r)
        BY <2>1 DEF PayLock
      <4>4. r.want \in {bookings[req[p].bk].units, {}} /\ r.draft = req[p].draft
        BY <1>0 DEF Req
      <4> HIDE DEF r
      <4>1. \/ Finish(p)
            \/ req'[p].want \in {bookings[req[p].bk].units, {}} /\ req'[p].draft = req[p].draft
        BY <4>3, <4>4, GotoKeeps
      <4>2. Finish(p) \/ (pc'[p] \in SlotLabels => ~UnitMode)
        BY <1>0, <2>1 DEF PayLock, Goto
      <4> QED
        BY <4>1, <4>2
    <3> QED
      BY <1>0, <1>b, <1>f, <3>1, <3>2
  <2>2. CASE PayRetrieve(p)
    BY <1>0, <1>f, <2>2 DEF Goto, PayRetrieve, PayGiveUpIntent, Req
  <2>5. CASE PayReread(p)
    <3> DEFINE r == [req[p] EXCEPT !.seen = Reread(p).status, !.intent = Reread(p).intent]
    <3>1. \E label \in {"pay_retrieve_failed", "pay_create"} : Goto(p, label, r)
      BY <2>5 DEF PayReread
    <3>2. r.want = req[p].want /\ r.draft = req[p].draft
      BY <1>0 DEF Req
    <3> HIDE DEF r
    <3> QED
      BY <1>0, <3>1, <3>2, GotoKeeps
  <2>7. CASE PayCreate(p)
    <3> DEFINE r(i) == [req[p] EXCEPT !.intent = i]
    <3>1. Finish(p) \/ \E i \in Intents : Goto(p, "pay_store", r(i))
      BY <2>7 DEF PayCreate
    <3>2. \A i : r(i).want = req[p].want /\ r(i).draft = req[p].draft
      BY <1>0 DEF Req
    <3> HIDE DEF r
    <3> QED
      BY <1>0, <1>f, <3>1, <3>2, GotoKeeps
  <2>6. CASE PayRetrieveFailed(p)
    BY <1>0, <1>f, <2>6 DEF Goto, PayRetrieveFailed, PayGiveUpIntent, Req
  <2>3. CASE PayStore(p) \/ PayConfirm(p)
    BY <1>f, <2>3 DEF PayStore, PayConfirm
  <2>4. CASE \E b \in Bookings : BeginPay(p, b)
    BY <1>0, <1>i, <2>4 DEF Goto, BeginPay, Req
  <2> QED
    BY <1>2, <2>1, <2>2, <2>3, <2>4, <2>5, <2>6, <2>7 DEF Pay
<1>3. ASSUME Webhook(p) PROVE ModeKept(p)
  <2>1. CASE HookLock(p)
    <3>1. pc[p] \in LockLabels
      BY <2>1 DEF HookLock, LockLabels
    <3>2. \/ Finish(p)
          \/ /\ req'[p].want \in {bookings[req[p].bk].units, {}}
             /\ req'[p].draft = req[p].draft
             /\ pc'[p] \in SlotLabels => ~UnitMode
      <4> DEFINE r == [req[p] EXCEPT !.seen = payments[req[p].bk].status,
                               !.cap = service.max_capacity,
                               !.want = IF Pending(req[p].bk) THEN bookings[req[p].bk].units ELSE {},
                               !.reserved = Reserved(req[p].bk)]
      <4>3. Finish(p) \/ \E label : Goto(p, label, r)
        BY <2>1 DEF HookLock, HookFailed, HookSucceeded
      <4>4. r.want \in {bookings[req[p].bk].units, {}} /\ r.draft = req[p].draft
        BY <1>0 DEF Req
      <4> HIDE DEF r
      <4>1. \/ Finish(p)
            \/ req'[p].want \in {bookings[req[p].bk].units, {}} /\ req'[p].draft = req[p].draft
        BY <4>3, <4>4, GotoKeeps
      <4>2. Finish(p) \/ (pc'[p] \in SlotLabels => ~UnitMode)
        BY <1>0, <2>1 DEF HookLock, HookFailed, HookSucceeded, Goto
      <4> QED
        BY <4>1, <4>2
    <3> QED
      BY <1>0, <1>b, <1>f, <3>1, <3>2
  <2>2. CASE HookSeats(p) \/ HookService(p) \/ HookRefund(p)
    BY <1>0, <1>f, <2>2 DEF Goto, HookSeats, HookService, HookRefund, Req
  <2>3. CASE HookConfirm(p) \/ HookCancel(p)
    BY <1>f, <2>3 DEF HookConfirm, HookCancel
  <2>4. CASE \E e \in events : BeginWebhook(p, e)
    BY <1>0, <1>i, <2>4 DEF Goto, BeginWebhook, Req
  <2> QED
    BY <1>3, <2>1, <2>2, <2>3, <2>4 DEF Webhook
<1>4. ASSUME CancelBooking(p) PROVE ModeKept(p)
  <2>1. CASE CancelLock(p)
    <3>1. pc[p] \in LockLabels
      BY <2>1 DEF CancelLock, LockLabels
    <3>2. \/ Finish(p)
          \/ /\ req'[p].want \in {bookings[req[p].bk].units, {}}
             /\ req'[p].draft = req[p].draft
             /\ pc'[p] \in SlotLabels => ~UnitMode
      <4> DEFINE r(how) == [req[p] EXCEPT !.intent = payments[req[p].bk].intent,
                                    !.want = bookings[req[p].bk].units,
                                    !.settle = how]
      <4>3. Finish(p) \/ \E label, how : Goto(p, label, r(how))
        BY <2>1 DEF CancelLock
      <4>4. \A how : r(how).want = bookings[req[p].bk].units /\ r(how).draft = req[p].draft
        BY <1>0 DEF Req
      <4> HIDE DEF r
      <4>1. \/ Finish(p)
            \/ req'[p].want \in {bookings[req[p].bk].units, {}} /\ req'[p].draft = req[p].draft
        BY <4>3, <4>4, GotoKeeps
      <4>2. Finish(p) \/ (pc'[p] \in SlotLabels => ~UnitMode)
        BY <1>0, <2>1 DEF CancelLock, Goto
      <4> QED
        BY <4>1, <4>2
    <3> QED
      BY <1>0, <1>b, <1>f, <3>1, <3>2
  <2>2. CASE CancelRefund(p) \/ CancelIntent(p)
    BY <1>0, <1>f, <2>2 DEF Goto, CancelRefund, CancelIntent, Req
  <2>3. CASE CancelCommit(p)
    BY <1>f, <2>3 DEF CancelCommit
  <2>4. CASE \E b \in Bookings : BeginCancel(p, b)
    BY <1>0, <1>i, <2>4 DEF Goto, BeginCancel, Req
  <2> QED
    BY <1>4, <2>1, <2>2, <2>3, <2>4 DEF CancelBooking
<1>5. ASSUME Sweep(p) PROVE ModeKept(p)
  <2>n. ASSUME NextCandidate(p) PROVE ModeKept(p)
    BY <1>0, <1>i, <2>n DEF Goto, NextCandidate, Req
  <2>1. CASE SweepLock(p)
    <3>1. pc[p] \in LockLabels
      BY <2>1 DEF SweepLock, LockLabels
    <3>2. \/ NextCandidate(p)
          \/ /\ req'[p].want \in {bookings[req[p].bk].units, {}}
             /\ req'[p].draft = req[p].draft
             /\ pc'[p] \in SlotLabels => ~UnitMode
      <4> DEFINE r == [req[p] EXCEPT !.intent = payments[req[p].bk].intent,
                               !.want = bookings[req[p].bk].units]
      <4>3. NextCandidate(p) \/ \E label : Goto(p, label, r)
        BY <2>1 DEF SweepLock
      <4>4. r.want \in {bookings[req[p].bk].units, {}} /\ r.draft = req[p].draft
        BY <1>0 DEF Req
      <4> HIDE DEF r
      <4>1. \/ NextCandidate(p)
            \/ req'[p].want \in {bookings[req[p].bk].units, {}} /\ req'[p].draft = req[p].draft
        BY <4>3, <4>4, GotoKeeps
      <4>2. NextCandidate(p) \/ (pc'[p] \in SlotLabels => ~UnitMode)
        BY <1>0, <2>1 DEF SweepLock, Goto
      <4> QED
        BY <4>1, <4>2
    <3> QED
      BY <1>0, <1>b, <2>n, <3>1, <3>2
  <2>2. CASE SweepNext(p)
    <3> DEFINE r(b, rest) == [req[p] EXCEPT !.bk = b, !.todo = rest]
    <3>1. \E b, rest : Goto(p, "sweep_lock", r(b, rest))
      BY <2>2 DEF SweepNext
    <3>2. \A b, rest : r(b, rest).want = req[p].want /\ r(b, rest).draft = req[p].draft
      BY <1>0 DEF Req
    <3> HIDE DEF r
    <3> QED
      BY <1>0, <3>1, <3>2, GotoKeeps
  <2>7. CASE SweepIntent(p)
    BY <1>0, <2>n, <2>7 DEF Goto, SweepIntent, Skip, Req
  <2>6. CASE SweepRetrieve(p)
    <3> DEFINE paid == [req[p] EXCEPT !.cap = service.max_capacity, !.reserved = Reserved(req[p].bk)]
               over == [req[p] EXCEPT !.settle = "canceled"]
    <3>1. \/ Goto(p, "sweep_release", over)
          \/ \E label : Goto(p, label, paid) /\ (label \in SlotLabels => ~UnitMode)
          \/ NextCandidate(p)
      BY <2>6 DEF SweepRetrieve, Skip
    <3>2. /\ paid.want = req[p].want /\ paid.draft = req[p].draft
          /\ over.want = req[p].want /\ over.draft = req[p].draft
      BY <1>0 DEF Req
    <3> HIDE DEF paid, over
    <3> QED
      BY <1>0, <2>n, <3>1, <3>2, GotoKeeps
  <2>3. CASE SweepSeats(p) \/ SweepService(p) \/ SweepRefund(p)
    BY <1>0, <2>n, <2>3 DEF Goto, SweepSeats, SweepService, SweepRefund, Req
  <2>4. CASE SweepConfirm(p) \/ SweepRelease(p) \/ SweepItemError(p) \/ SweepEnd(p)
    BY <1>f, <2>n, <2>4 DEF SweepConfirm, SweepRelease, SweepItemError, SweepEnd
  <2>5. CASE BeginSweep(p)
    BY <1>0, <1>i, <2>5 DEF Goto, BeginSweep, Req
  <2> QED
    BY <1>5, <2>1, <2>2, <2>3, <2>4, <2>5, <2>6, <2>7 DEF Sweep
<1>6. ASSUME Seller(p) \/ Crash(p) PROVE ModeKept(p)
  BY <1>0, <1>f, <1>i, <1>6
  DEF Goto, Seller, BeginUpdate, UpdateCommit, BeginDelete, DeleteCommit, Crash, Req
<1> QED
  BY <1>1, <1>2, <1>3, <1>4, <1>5, <1>6 DEF Acts

\* Only the processes that sweep are ever at a label of the sweeper.
LEMMA OnlySweepersSweep ==
    ASSUME TypeInv, [Next]_vars, NEW p \in Procs, pc'[p] \in SweepLabels
    PROVE  pc[p] \in SweepLabels \/ p \in Sweepers
<1>1. ASSUME NEW q \in Procs, NEW label, NEW r, Goto(q, label, r), label \notin SweepLabels
      PROVE  pc[p] \in SweepLabels
  BY <1>1, GotoKeeps
<1>l. /\ SweepLabels \cap (CreateLabels \cup {"idle"}) = {}
      /\ SweepLabels \cap (PayLabels \cup {"idle"}) = {}
      /\ SweepLabels \cap (HookLabels \cup {"idle"}) = {}
      /\ SweepLabels \cap (CancelLabels \cup {"idle"}) = {}
      /\ SweepLabels \cap (SellerLabels \cup {"idle"}) = {}
  BY DEF CreateLabels, PayLabels, HookLabels, CancelLabels, SweepLabels, SellerLabels
<1>2. ASSUME NEW q \in Procs,
             Create(q) \/ Pay(q) \/ Webhook(q) \/ CancelBooking(q) \/ Seller(q) \/ Crash(q)
      PROVE  pc[p] \in SweepLabels
  <2>1. \E label, r : Goto(q, label, r) /\ label \notin SweepLabels
    BY <1>2, <1>l, WhereTo
  <2> QED
    BY <1>1, <2>1
<1>3. ASSUME NEW q \in Sweepers, Sweep(q) PROVE pc[p] \in SweepLabels \/ p \in Sweepers
  <2>1. q \in Procs /\ \E label, r : Goto(q, label, r)
    BY <1>3, WhereTo DEF Procs
  <2> QED
    BY <2>1, GotoKeeps
<1>4. ASSUME NEW q \in Procs, LockSeat(q) PROVE pc[p] \in SweepLabels
  BY <1>4 DEF LockSeat
<1>5. CASE Stripe \/ Tick \/ UNCHANGED vars
  BY <1>5 DEF Stripe, Tick, vars
<1> QED
  BY <1>2, <1>3, <1>4, <1>5 DEF Next, Procs

LEMMA RightModeNext ==
    ASSUME TypeInv, RowsExist, OrderInv, [Next]_vars, NEW p \in Procs
    PROVE  RightMode(p)'
<1>1. RightMode(p) /\ NoSeatsInSlots
  BY DEF OrderInv
<1>2. ModeKept(p)
  <2>1. CASE Acts(p)
    BY <1>1, <2>1, ModeOfActs
  <2>2. CASE Stays(p)
    BY <1>1, <2>2 DEF Stays, RightMode, ModeKept
  <2> QED
    BY <2>1, <2>2, StaysOrActs
<1>3. pc'[p] \in SweepLabels => p \in Sweepers
  BY <1>1, OnlySweepersSweep DEF RightMode
<1> QED
  BY <1>2, <1>3 DEF ModeKept, RightMode, UnitMode

LEMMA NoSeatsInSlotsNext ==
    ASSUME TypeInv, RowsExist, OrderInv, [Next]_vars
    PROVE  NoSeatsInSlots'
<1> SUFFICES ASSUME ~UnitMode, NEW b \in Bookings PROVE bookings'[b].units = {}
  BY DEF NoSeatsInSlots, UnitMode
<1>0. /\ bookings \in [Bookings -> Booking]
      /\ \A c \in Bookings : bookings[c] \in Booking /\ bookings[c].units = {}
  BY DEF OrderInv, NoSeatsInSlots, TypeInv, DbTypeOK
<1>1. CASE UNCHANGED bookings
  BY <1>0, <1>1
<1>2. ASSUME NEW c, NEW status, bookings' = [bookings EXCEPT ![c].status = status]
      PROVE  bookings'[b].units = {}
  BY <1>0, <1>2 DEF Booking
<1>3. ASSUME NEW p \in Procs, CreateInsert(p), bookings' # bookings
      PROVE  bookings'[b].units = {}
  <2>1. req[p].draft.units = {}
    BY DEF OrderInv, RightMode
  <2>2. PICK c \in Bookings : bookings' = [bookings EXCEPT ![c] = req[p].draft]
    BY <1>3 DEF CreateInsert, db
  <2> QED
    BY <1>0, <2>1, <2>2
<1> QED
  BY <1>1, <1>2, <1>3, WritersOfNext DEF Confirm, Cancel, HookCancel, CancelCommit, SweepRelease

LEMMA OrderInvHolds == Spec => []OrderInv
<1>1. Init => OrderInv
  <2> SUFFICES ASSUME Init PROVE OrderInv
    OBVIOUS
  <2>1. /\ \A b \in Bookings : bookings[b].units = {}
        /\ \A p \in Procs : /\ pc[p] = "idle" /\ req[p].want = {} /\ req[p].draft.units = {}
                            /\ p # Null
        /\ \A u \in Users : userLock[u] = Null
        /\ \A b \in Bookings : bookingLock[b] = Null
        /\ \A s \in Seats : seatLock[s] = Null
        /\ serviceLock = Null
    BY NullIsNoProc DEF Init, StoreInit, NoBooking, NoReq
  <2>2. "idle" \notin SweepLabels \cup SlotLabels
    BY DEF SweepLabels, SlotLabels
  <2> QED
    BY <2>1, <2>2 DEF OrderInv, NoSeatsInSlots, InOrder, RightMode
<1>2. TypeInv /\ RowsExist /\ OrderInv /\ [Next]_vars => OrderInv'
  BY InOrderNext, RightModeNext, NoSeatsInSlotsNext DEF OrderInv
<1> QED
  BY <1>1, <1>2, TypeInvHolds, RowsExistHolds, PTL DEF Spec

-----------------------------------------------------------------------------
(* No circle *)

LEMMA GreatestOfFinite ==
    ASSUME NEW W, W \subseteq Nat, IsFiniteSet(W), W # {}
    PROVE  \E x \in W : \A y \in W : y <= x
<1> DEFINE Above(x) == {y \in W : x < y}
           T == {Above(x) : x \in W}
           R == StrictSubsetOrdering(W)
<1>1. IsWellFoundedOn(R, SUBSET W)
  BY FS_StrictSubsetOrderingWellFounded, FS_FiniteSubsetsOfFinite
<1>2. T \subseteq SUBSET W /\ T # {}
  OBVIOUS
<1> HIDE DEF T, R
<1>3. PICK A \in T : \A B \in T : ~(<<B, A>> \in R)
  BY <1>1, <1>2, WFMin
<1> USE DEF T, R
<1>4. PICK x \in W : A = Above(x)
  OBVIOUS
<1>5. ASSUME NEW y \in W, x < y PROVE FALSE
  <2>1. /\ \A z \in W : y < z => x < z
        /\ ~(y < y)
    BY <1>5
  <2>3. Above(y) \subseteq Above(x) /\ y \in Above(x) /\ y \notin Above(y)
    BY <1>5, <2>1
  <2>2. <<Above(y), A>> \in R
    BY <1>4, <2>3 DEF StrictSubsetOrdering
  <2> QED
    BY <1>3, <2>2
<1> QED
  BY <1>5

\* Every process of a circle S waits for another one of S.
Circle(S) == /\ S \subseteq Procs /\ S # {}
             /\ \A p \in S : \E q \in S \ {p} : Blocks(p, q)

LEMMA NobodyWaitsForTheService ==
    ASSUME OrderInv, NEW S, Circle(S), NEW p \in S
    PROVE  pc[p] \notin {"create_slot", "hook_service", "sweep_service", "update_commit"}
<1> SUFFICES ASSUME pc[p] \in {"create_slot", "hook_service", "sweep_service", "update_commit"}
             PROVE  FALSE
  OBVIOUS
<1>1. PICK q \in S : serviceLock = q
  BY DEF Circle, Blocks, SeatLocking
<1>2. pc[q] \in ServiceLabels /\ req[q].want = {}
  BY <1>1 DEF Circle, OrderInv, InOrder
<1>3. \A r \in S : ~Blocks(q, r)
  BY <1>2 DEF Blocks, ServiceLabels
<1> QED
  BY <1>3 DEF Circle

LEMMA NobodyWaitsForASeat ==
    ASSUME TypeInv, OrderInv, IsFiniteSet(Seats), NEW S, Circle(S), NEW p \in S
    PROVE  pc[p] \notin SeatLocking
<1> DEFINE Awaits(q, s) == /\ pc[q] \in SeatLocking /\ s \in req[q].want
                           /\ \A t \in req[q].want : s <= t
           W == {s \in Seats : \E q \in S : Awaits(q, s)}
<1>0. Seats \subseteq Nat /\ \A q \in S : q \in Procs /\ req[q].want \subseteq Seats
  BY LocalTypes, NumbersAssumption DEF TypeInv, Circle
<1>1. ASSUME NEW q \in S, pc[q] \in SeatLocking
      PROVE  \E s \in Seats, r \in S : Awaits(q, s) /\ seatLock[s] = r
  <2>1. PICK r \in S : Blocks(q, r)
    BY DEF Circle
  <2>2. \E s \in req[q].want : (\A t \in req[q].want : s <= t) /\ seatLock[s] = r
    BY <1>1, <2>1 DEF Blocks, SeatLocking
  <2> QED
    BY <1>0, <1>1, <2>2
<1>2. ASSUME NEW x \in W PROVE \E y \in W : x < y
  <2>1. PICK q \in S : Awaits(q, x)
    BY <1>2
  <2>2. PICK s \in Seats, r \in S : Awaits(q, s) /\ seatLock[s] = r
    BY <1>1, <2>1
  <2>3. s = x
    <3>1. s \in Nat /\ x \in Nat /\ s <= x /\ x <= s
      BY <1>0, <2>1, <2>2
    <3> QED
      BY <3>1
  <2>4. pc[r] \in SeatLabels /\ \A t \in req[r].want : x < t
    BY <1>0, <2>2, <2>3 DEF OrderInv, InOrder
  <2>5. pc[r] \in SeatLocking
    <3>1. \E u \in S : Blocks(r, u)
      BY DEF Circle
    <3> QED
      BY <2>4, <3>1 DEF Blocks, SeatLabels
  <2>6. PICK y \in Seats : Awaits(r, y)
    BY <1>1, <2>5
  <2> QED
    BY <2>4, <2>6
<1>3. W \subseteq Nat /\ IsFiniteSet(W)
  BY <1>0, FS_Subset
<1>4. W = {}
  <2> SUFFICES ASSUME W # {} PROVE FALSE
    OBVIOUS
  <2>1. PICK x \in W : \A y \in W : y <= x
    BY <1>3, GreatestOfFinite
  <2>2. PICK y \in W : x < y
    BY <1>2
  <2>3. x \in Nat /\ y \in Nat /\ y <= x
    BY <1>3, <2>1
  <2> QED
    BY <2>2, <2>3
<1> QED
  BY <1>1, <1>4

LEMMA NoCircle ==
    ASSUME TypeInv, HoldInv, OrderInv, IsFiniteSet(Seats), \A p, q \in Sweepers : p = q,
           NEW S, Circle(S)
    PROVE  FALSE
<1>0. \A p \in S : p \in Procs
  BY DEF Circle
<1>1. \A p \in S : /\ pc[p] \in {"create_user", "pay_lock", "hook_lock", "cancel_lock",
                                 "sweep_lock"}
                   /\ \E q \in S \ {p} : Blocks(p, q)
  BY NobodyWaitsForTheService, NobodyWaitsForASeat DEF Circle, Blocks
\* Who has a booking's row and waits for another one's is the sweeper.
<1>2. ASSUME NEW p \in S, NEW b \in Bookings, bookingLock[b] = p
      PROVE  pc[p] = "sweep_lock" /\ p \in Sweepers
  <2>1. pc[p] = "sweep_lock"
    BY <1>0, <1>1, <1>2 DEF OrderInv, InOrder, FirstLabels
  <2> QED
    BY <1>0, <2>1 DEF OrderInv, RightMode, SweepLabels
<1>3. ASSUME NEW p \in S, pc[p] # "create_user"
      PROVE  \E q \in S \ {p} : pc[q] = "sweep_lock" /\ q \in Sweepers
  <2>1. PICK q \in S \ {p} : Blocks(p, q)
    BY <1>1
  <2>2. bookingLock[req[p].bk] = q
    BY <1>1, <1>3, <2>1 DEF Blocks, SeatLocking
  <2>3. req[p].bk \in Bookings
    BY <1>0, <1>1, <1>3 DEF TypeInv, LocalsOK, Targeted, Labels
  <2> QED
    BY <1>2, <2>2, <2>3
<1>4. \A p \in S : pc[p] = "create_user"
  BY <1>3
<1>5. PICK p \in S : TRUE
  BY DEF Circle
<1>6. PICK q \in S : userLock[req[p].draft.user] = q
  BY <1>1, <1>4 DEF Blocks, SeatLocking
<1>7. req[p].draft.user \in Users
  BY <1>0, <1>4 DEF HoldInv, DraftCounted, CreateLabels
<1> QED
  BY <1>0, <1>4, <1>6, <1>7 DEF OrderInv, InOrder, UserLabels

\* The order in which the handlers take row locks leaves no circle of waiting
\* processes, if no two sweeps run at a time: what the leader lock is for.
THEOREM LocksNeverCircle ==
    ASSUME IsFiniteSet(Seats), \A p, q \in Sweepers : p = q
    PROVE  Spec => []NoDeadlock
<1>1. TypeInv /\ HoldInv /\ OrderInv => NoDeadlock
  BY NoCircle DEF Circle, NoDeadlock
<1> QED
  BY <1>1, TypeInvHolds, HoldInvHolds, OrderInvHolds, PTL

-----------------------------------------------------------------------------
(* The tickets sold *)

\* The tickets ActiveTickets counts, each as a pair of a booking and a number
TicketsSold(t, self) == UNION {Tickets(b) : b \in Counted(t, self)}

LEMMA TicketCount ==
    ASSUME NEW b, NEW q \in Nat
    PROVE  IsFiniteSet({b} \X (1..q)) /\ Cardinality({b} \X (1..q)) = q
<1>1. IsFiniteSet({b}) /\ Cardinality({b}) = 1
  BY ONLY FS_Singleton
<1>2. IsFiniteSet(1..q) /\ Cardinality(1..q) = q
  <2>1. 1 \in Int /\ q \in Int
    OBVIOUS
  <2>2. IsFiniteSet(1..q) /\ Cardinality(1..q) = IF 1 > q THEN 0 ELSE q - 1 + 1
    BY ONLY <2>1, FS_Interval
  <2> QED
    BY <2>2
<1> DEFINE B == {b}
           Q == 1..q
<1>3. IsFiniteSet(B) /\ IsFiniteSet(Q) /\ Cardinality(B) = 1 /\ Cardinality(Q) = q
  BY <1>1, <1>2
<1> HIDE DEF B, Q
<1>4. IsFiniteSet(B \X Q) /\ Cardinality(B \X Q) = Cardinality(B) * Cardinality(Q)
  BY ONLY <1>3, FS_Product
<1>5. IsFiniteSet(B \X Q) /\ Cardinality(B \X Q) = q
  BY <1>3, <1>4
<1> QED
  BY <1>5 DEF B, Q

LEMMA TicketsFinite ==
    ASSUME TypeInv, IsFiniteSet(Rows), NEW t, NEW self \in SUBSET Bookings, IsFiniteSet(self)
    PROVE  /\ IsFiniteSet(TicketsSold(t, self))
           /\ ActiveTickets(t, self) = Cardinality(TicketsSold(t, self))
           /\ ActiveTickets(t, self) \in Nat
<1> DEFINE C == Counted(t, self)
           F == [b \in C |-> Tickets(b)]
           T == {Tickets(b) : b \in C}
<1>1. IsFiniteSet(C)
  <2>1. C \in SUBSET (Rows \cup self)
    BY DEF Counted, Rows, Exists, Pending
  <2>2. IsFiniteSet(Rows \cup self)
    BY FS_Union
  <2> QED
    BY <2>1, <2>2, FS_Subset
<1>2. IsFiniteSet(T)
  <2>1. F \in Surjection(C, T)
    BY DEF Surjection
  <2> QED
    BY <1>1, <2>1, FS_Surjection
<1>3. \A S \in T : IsFiniteSet(S)
  <2> SUFFICES ASSUME NEW b \in Bookings PROVE IsFiniteSet(Tickets(b))
    BY DEF Counted
  <2>1. PICK q \in Nat : q = bookings[b].quantity
    BY DEF TypeInv, DbTypeOK, Booking
  <2>2. IsFiniteSet({b} \X (1..q))
    BY TicketCount
  <2> QED
    BY <2>1, <2>2 DEF Tickets
<1>4. IsFiniteSet(UNION T)
  BY <1>2, <1>3, FS_UNION
<1>5. ActiveTickets(t, self) = Cardinality(UNION T) /\ TicketsSold(t, self) = UNION T
  BY DEF ActiveTickets, TicketsSold
<1> QED
  BY <1>4, <1>5, FS_CardinalityType

\* Tickets that are counted already do not raise the count.
LEMMA NoMoreTickets ==
    ASSUME TypeInv, IsFiniteSet(Rows), NEW t, NEW self \in SUBSET Bookings, IsFiniteSet(self),
           NEW T \in SUBSET TicketsSold(t, self)
    PROVE  Cardinality(T) \in Nat /\ Cardinality(T) <= ActiveTickets(t, self)
<1>1. IsFiniteSet(TicketsSold(t, self)) /\ ActiveTickets(t, self) = Cardinality(TicketsSold(t, self))
  BY TicketsFinite
<1> QED
  BY <1>1, FS_Subset, FS_CardinalityType

\* A booking of q tickets raises the count by q at most.
LEMMA MoreTickets ==
    ASSUME TypeInv, IsFiniteSet(Rows), NEW t, NEW b, NEW q \in Nat,
           NEW T \in SUBSET (TicketsSold(t, {}) \cup ({b} \X (1..q)))
    PROVE  Cardinality(T) \in Nat /\ Cardinality(T) <= ActiveTickets(t, {}) + q
<1> DEFINE S == TicketsSold(t, {})
           N == {b} \X (1..q)
<1>1. IsFiniteSet(S) /\ ActiveTickets(t, {}) = Cardinality(S)
  BY TicketsFinite, FS_EmptySet
<1>2. IsFiniteSet(N) /\ Cardinality(N) = q
  BY TicketCount
<1> HIDE DEF S, N
<1>3. /\ IsFiniteSet(S \cup N)
      /\ Cardinality(S \cup N) = Cardinality(S) + Cardinality(N) - Cardinality(S \cap N)
  BY <1>1, <1>2, FS_Union
<1>4. /\ Cardinality(S) \in Nat /\ Cardinality(S \cap N) \in Nat
      /\ Cardinality(S \cup N) \in Nat
  <2>1. IsFiniteSet(S \cap N)
    BY <1>1, FS_Subset
  <2> QED
    BY <1>1, <1>3, <2>1, FS_CardinalityType
<1>5. Cardinality(T) \in Nat /\ Cardinality(T) <= Cardinality(S \cup N)
  <2>1. T \in SUBSET (S \cup N)
    BY DEF S, N
  <2> QED
    BY <1>3, <2>1, FS_Subset, FS_CardinalityType
<1> QED
  BY <1>1, <1>2, <1>3, <1>4, <1>5

\* As time goes by holds run out, and none comes back.
LEMMA TicketsExpire ==
    ASSUME TypeInv, NEW t \in Nat, NEW later \in Nat, t <= later, NEW self
    PROVE  TicketsSold(later, self) \subseteq TicketsSold(t, self)
<1>1. ASSUME NEW b \in Bookings, Unexpired(b, later) PROVE Unexpired(b, t)
  BY <1>1, NumbersAssumption DEF Unexpired, TypeInv, DbTypeOK, Booking
<1>2. Counted(later, self) \subseteq Counted(t, self)
  BY <1>1 DEF Counted
<1> QED
  BY <1>2 DEF TicketsSold

\* Where a handler has counted the tickets under the lock on the service, and
\* where it is with a capacity it has loaded or been given
CountedLabels  == {"create_insert", "hook_confirm", "sweep_confirm"}
CapacityLabels == {"create_slot", "hook_service", "sweep_service", "update_commit"}

\* Who has counted keeps the lock, and with what it is about to write the
\* tickets still fit.
FitsStill(p) ==
    /\ pc[p] \in CapacityLabels => req[p].cap = service.max_capacity
    /\ pc[p] \in CountedLabels => serviceLock = p
    /\ pc[p] = "create_insert" =>
         ActiveTickets(req[p].now, {}) + req[p].draft.quantity <= service.max_capacity
    /\ pc[p] \in CountedLabels \ {"create_insert"} =>
         ActiveTickets(clock, {req[p].bk}) <= service.max_capacity

NoSeatLabels == \A p \in Procs : pc[p] \notin {"create_seats", "hook_seats", "sweep_seats"}

SlotInv == /\ service.max_capacity \in Capacities
           /\ NoSeatLabels
           /\ NeverOversold
           /\ \A p \in Procs : FitsStill(p)

\* Without reserved seating no handler goes where seats are checked.
LEMMA NoSeatLabelsNext ==
    ASSUME ~UnitMode, TypeInv, NoSeatLabels, [Next]_vars
    PROVE  NoSeatLabels'
<1> DEFINE SeatChecks == {"create_seats", "hook_seats", "sweep_seats"}
           Elsewhere(q) == \E label \in Labels \ SeatChecks : \E r : Goto(q, label, r)
<1> SUFFICES ASSUME NEW q \in Procs PROVE pc'[q] \notin SeatChecks
  BY DEF NoSeatLabels
<1>0. pc[q] \notin SeatChecks
  BY DEF NoSeatLabels
<1>1. CASE Stays(q)
  BY <1>0, <1>1 DEF Stays
<1>2. ASSUME Elsewhere(q) PROVE pc'[q] \notin SeatChecks
  BY <1>2, GotoKeeps
<1>3. ASSUME Create(q) PROVE Elsewhere(q)
  <2>1. CASE CreateLockUser(q)
    <3>1. Finish(q) \/ \E r : Goto(q, "create_slot", r)
      BY <2>1 DEF CreateLockUser
    <3> QED
      BY <3>1 DEF Finish, Labels
  <2>2. CASE CreateSlot(q)
    BY <2>2 DEF CreateSlot, Finish, Labels
  <2>3. CASE ~CreateLockUser(q) /\ ~CreateSlot(q)
    BY <1>0, <1>3, <2>3 DEF Create, BeginCreate, CreateSeats, CreateInsert, Finish, Labels
  <2> QED
    BY <2>1, <2>2, <2>3
<1>4. ASSUME Pay(q) PROVE Elsewhere(q)
  <2>1. PayLabels \cup {"idle"} \subseteq Labels \ SeatChecks
    BY DEF PayLabels, Labels
  <2> QED
    BY <1>4, <2>1, WhereTo
<1>5. ASSUME Webhook(q) PROVE Elsewhere(q)
  <2>1. CASE HookLock(q)
    <3>1. Finish(q) \/ \E r : Goto(q, "hook_refund", r) \/ Goto(q, "hook_service", r)
      BY <2>1 DEF HookLock, HookFailed, HookSucceeded
    <3> QED
      BY <3>1 DEF Finish, Labels
  <2>2. CASE HookService(q)
    <3>1. \E r : Goto(q, "hook_confirm", r) \/ Goto(q, "hook_refund", r)
      BY <2>2 DEF HookService
    <3> QED
      BY <3>1 DEF Labels
  <2>3. CASE ~HookLock(q) /\ ~HookService(q)
    BY <1>0, <1>5, <2>3 DEF Webhook, BeginWebhook, HookSeats, HookRefund, HookConfirm,
                            HookCancel, Finish, Labels
  <2> QED
    BY <2>1, <2>2, <2>3
<1>6. ASSUME CancelBooking(q) \/ Seller(q) \/ Crash(q) PROVE Elsewhere(q)
  <2>1. /\ CancelLabels \cup {"idle"} \subseteq Labels \ SeatChecks
        /\ SellerLabels \cup {"idle"} \subseteq Labels \ SeatChecks
        /\ "idle" \in Labels \ SeatChecks
    BY DEF CancelLabels, SellerLabels, Labels
  <2> QED
    BY <1>6, <2>1, WhereTo
<1>7. ASSUME Sweep(q) PROVE Elsewhere(q)
  <2> USE DEF NextCandidate, Skip, Labels
  <2>1. CASE SweepLock(q)
    <3>1. \E r : \/ Goto(q, "sweep_next", r) \/ Goto(q, "sweep_intent", r)
                 \/ Goto(q, "sweep_release", r)
      BY <2>1 DEF SweepLock
    <3> QED
      BY <3>1
  <2>2. CASE SweepRetrieve(q)
    <3>1. \E r : \/ Goto(q, "sweep_next", r) \/ Goto(q, "sweep_service", r)
                 \/ Goto(q, "sweep_release", r)
      BY <2>2 DEF SweepRetrieve
    <3> QED
      BY <3>1
  <2>3. CASE SweepService(q)
    <3>1. \E r : Goto(q, "sweep_confirm", r) \/ Goto(q, "sweep_refund", r)
      BY <2>3 DEF SweepService
    <3> QED
      BY <3>1
  <2>4. CASE SweepIntent(q) \/ SweepRefund(q)
    BY <2>4 DEF SweepIntent, SweepRefund
  <2>5. CASE ~SweepLock(q) /\ ~SweepRetrieve(q) /\ ~SweepService(q) /\ ~SweepIntent(q) /\ ~SweepRefund(q)
    BY <1>0, <1>7, <2>5 DEF Sweep, BeginSweep, SweepNext, SweepEnd, SweepSeats, SweepItemError,
                            SweepConfirm, SweepRelease, Finish
  <2> QED
    BY <2>1, <2>2, <2>3, <2>4, <2>5
<1> QED
  BY <1>1, <1>2, <1>3, <1>4, <1>5, <1>6, <1>7, StaysOrActs DEF Acts

\* The booking a handler confirms is counted: it has been counted in, or it is
\* a hold that /pay has found unexpired.
LEMMA PaidIsCounted ==
    ASSUME PayBeatsExpiry, SeatInv, RowsExist, NEW p \in Procs, PayConfirm(p)
    PROVE  /\ req[p].bk \in Bookings
           /\ Pending(req[p].bk) /\ Unexpired(req[p].bk, clock)
<1>1. pc[p] = "pay_confirm" /\ Unexpired(req[p].bk, clock)
  BY DEF PayConfirm
<1>2. req[p].bk \in Bookings
  BY <1>1, TargetRows DEF SeatInv, Targeted, Labels
<1>3. Pending(req[p].bk)
  BY <1>1 DEF SeatInv, LocksProtect, BookingProtected, PendingLabels
<1> QED
  BY <1>1, <1>2, <1>3

\* How a step of p ends where tickets are about to be counted, or have been
LEMMA WaysToCount ==
    ASSUME ~UnitMode, TypeInv, NoSeatLabels, service.max_capacity \in Capacities,
           NEW p \in Procs, Acts(p)
    PROVE  \/ pc'[p] \notin CapacityLabels \cup CountedLabels
           \/ pc'[p] \in CapacityLabels /\ req'[p].cap \in Capacities
           \/ pc'[p] = "create_insert" /\ CreateSlot(p)
           \/ pc'[p] \in CountedLabels \ {"create_insert"} /\ (HookService(p) \/ SweepService(p))
<1> DEFINE Goal == \/ pc'[p] \notin CapacityLabels \cup CountedLabels
                   \/ pc'[p] \in CapacityLabels /\ req'[p].cap \in Capacities
                   \/ pc'[p] = "create_insert" /\ CreateSlot(p)
                   \/ /\ pc'[p] \in CountedLabels \ {"create_insert"}
                      /\ HookService(p) \/ SweepService(p)
           Elsewhere == \E label \in Labels \ (CapacityLabels \cup CountedLabels) :
                            \E r : Goto(p, label, r)
<1>0. req[p] \in Req /\ req[p].draft \in Booking /\ NoReq \in Req
      /\ pc[p] \notin {"create_seats", "hook_seats", "sweep_seats"}
  BY LocalTypes, IdleReqType DEF TypeInv, NoSeatLabels
<1>e. ASSUME Elsewhere PROVE Goal
  BY <1>e, GotoKeeps
<1>f. ASSUME Finish(p) PROVE Goal
  BY <1>e, <1>f DEF Finish, Labels, CapacityLabels, CountedLabels
<1>c. ASSUME NEW label \in CapacityLabels, NEW r, Goto(p, label, r), r.cap \in Capacities PROVE Goal
  BY <1>c, GotoKeeps
<1> HIDE DEF Goal
<1>1. ASSUME Create(p) PROVE Goal
  <2>1. CASE CreateLockUser(p)
    <3>1. CASE ~Finish(p)
      <4>1. PICK t : Goto(p, "create_slot", [req[p] EXCEPT !.draft.created = t,
                                                !.want = req[p].draft.units,
                                                !.cap = service.max_capacity])
        BY <2>1, <3>1 DEF CreateLockUser
      <4> DEFINE r == [req[p] EXCEPT !.draft.created = t, !.want = req[p].draft.units,
                                     !.cap = service.max_capacity]
      <4>2. r.cap = service.max_capacity
        BY <1>0 DEF Req
      <4> HIDE DEF r
      <4> QED
        BY <1>c, <4>1, <4>2 DEF CapacityLabels, r
    <3> QED
      BY <1>f, <3>1
  <2>2. CASE CreateSlot(p)
    <3>1. Finish(p) \/ Goto(p, "create_insert", req[p])
      BY <2>2 DEF CreateSlot
    <3> QED
      BY <1>f, <2>2, <3>1, GotoKeeps DEF Goal
  <2>3. CASE CreateInsert(p) \/ CreateSeats(p)
    BY <1>0, <1>f, <2>3 DEF CreateSeats, CreateInsert
  <2>4. CASE ~CreateLockUser(p) /\ ~CreateSlot(p) /\ ~CreateSeats(p) /\ ~CreateInsert(p)
    <3>1. \E r : Goto(p, "create_user", r)
      BY <1>1, <2>4 DEF Create, BeginCreate
    <3> QED
      BY <1>e, <3>1 DEF Labels, CapacityLabels, CountedLabels
  <2> QED
    BY <2>1, <2>2, <2>3, <2>4
<1>2. ASSUME Pay(p) \/ CancelBooking(p) \/ Crash(p) PROVE Goal
  <2>1. /\ PayLabels \cup {"idle"} \subseteq Labels \ (CapacityLabels \cup CountedLabels)
        /\ CancelLabels \cup {"idle"} \subseteq Labels \ (CapacityLabels \cup CountedLabels)
        /\ "idle" \in Labels \ (CapacityLabels \cup CountedLabels)
    BY DEF PayLabels, CancelLabels, Labels, CapacityLabels, CountedLabels
  <2> QED
    BY <1>2, <1>e, <2>1, WhereTo
<1>3. ASSUME Webhook(p) PROVE Goal
  <2>1. CASE HookLock(p)
    <3> DEFINE r == [req[p] EXCEPT
                       !.seen = payments[req[p].bk].status,
                       !.cap = service.max_capacity,
                       !.want = IF Pending(req[p].bk) THEN bookings[req[p].bk].units ELSE {},
                       !.reserved = Reserved(req[p].bk)]
    <3>1. r.cap = service.max_capacity
      BY <1>0 DEF Req
    <3>2. Finish(p) \/ Goto(p, "hook_refund", r) \/ Goto(p, "hook_service", r)
      BY <2>1 DEF HookLock, HookFailed, HookSucceeded
    <3> HIDE DEF r
    <3> QED
      BY <1>c, <1>e, <1>f, <3>1, <3>2 DEF Labels, CapacityLabels, CountedLabels
  <2>2. CASE HookService(p)
    <3>1. Goto(p, "hook_confirm", req[p]) \/ Goto(p, "hook_refund", req[p])
      BY <2>2 DEF HookService
    <3> QED
      BY <1>e, <2>2, <3>1, GotoKeeps DEF Goal, Labels, CapacityLabels, CountedLabels
  <2>3. CASE ~HookLock(p) /\ ~HookService(p)
    <3>1. Elsewhere
      BY <1>0, <1>3, <2>3 DEF Webhook, BeginWebhook, HookSeats, HookRefund, HookConfirm,
                              HookCancel, Finish, Labels, CapacityLabels, CountedLabels
    <3> QED
      BY <1>e, <3>1
  <2> QED
    BY <2>1, <2>2, <2>3
<1>4. ASSUME Sweep(p) PROVE Goal
  <2> USE DEF NextCandidate, Skip, Labels, CapacityLabels, CountedLabels
  <2>1. CASE SweepRetrieve(p)
    <3> DEFINE r == [req[p] EXCEPT !.cap = service.max_capacity,
                                   !.reserved = Reserved(req[p].bk)]
    <3>1. r.cap = service.max_capacity
      BY <1>0 DEF Req
    <3>2. \/ \E q : Goto(p, "sweep_next", q) \/ Goto(p, "sweep_release", q)
          \/ Goto(p, "sweep_service", r)
      BY <2>1 DEF SweepRetrieve
    <3> HIDE DEF r
    <3> QED
      BY <1>c, <1>e, <3>1, <3>2
  <2>2. CASE SweepService(p)
    <3>1. Goto(p, "sweep_confirm", req[p]) \/ Goto(p, "sweep_refund", req[p])
      BY <2>2 DEF SweepService
    <3> QED
      BY <1>e, <2>2, <3>1, GotoKeeps DEF Goal
  <2>3. CASE SweepLock(p)
    <3>1. \E r : \/ Goto(p, "sweep_next", r) \/ Goto(p, "sweep_intent", r)
                 \/ Goto(p, "sweep_release", r)
      BY <2>3 DEF SweepLock
    <3> QED
      BY <1>e, <3>1
  <2>4. CASE SweepIntent(p) \/ SweepRefund(p)
    <3>1. Elsewhere
      BY <2>4 DEF SweepIntent, SweepRefund
    <3> QED
      BY <1>e, <3>1
  <2>5. CASE ~SweepLock(p) /\ ~SweepRetrieve(p) /\ ~SweepService(p) /\ ~SweepIntent(p) /\ ~SweepRefund(p)
    <3>1. Elsewhere
      BY <1>0, <1>4, <2>5 DEF Sweep, BeginSweep, SweepNext, SweepEnd, SweepSeats, SweepItemError,
                              SweepConfirm, SweepRelease, Finish
    <3> QED
      BY <1>e, <3>1
  <2> QED
    BY <2>1, <2>2, <2>3, <2>4, <2>5
<1>5. ASSUME Seller(p) PROVE Goal
  <2>1. ASSUME NEW cap \in Capacities, BeginUpdate(p, cap) PROVE Goal
    <3> DEFINE r == [NoReq EXCEPT !.cap = cap]
    <3>1. r.cap = cap
      BY DEF NoReq
    <3>2. Goto(p, "update_commit", r)
      BY <2>1 DEF BeginUpdate
    <3> HIDE DEF r
    <3> QED
      BY <1>c, <3>1, <3>2 DEF CapacityLabels
  <2>2. ASSUME UpdateCommit(p) \/ DeleteCommit(p) PROVE Goal
    BY <1>f, <2>2 DEF UpdateCommit, DeleteCommit
  <2>3. ASSUME BeginDelete(p) PROVE Goal
    BY <1>e, <2>3 DEF BeginDelete, Labels, CapacityLabels, CountedLabels
  <2> QED
    BY <1>5, <2>1, <2>2, <2>3 DEF Seller
<1> QED
  BY <1>1, <1>2, <1>3, <1>4, <1>5 DEF Acts, Goal

\* What is sold grows only by a booking that is inserted or by one confirmed
\* after it has been counted in; time, cancellations and /pay add nothing.
LEMMA TicketsStep ==
    ASSUME PayBeatsExpiry, SeatInv, RowsExist, [Next]_vars
    PROVE  \/ \A t \in Nat : \A self : t <= clock' => TicketsSold(t, self)' \subseteq TicketsSold(t, self)
           \/ \E p \in Procs, b \in Bookings :
                 /\ CreateInsert(p)
                 /\ \A t, self : TicketsSold(t, self)' \subseteq
                                   TicketsSold(t, self) \cup ({b} \X (1..req[p].draft.quantity))
           \/ \E p \in Procs, b \in Bookings :
                 /\ HookConfirm(p) \/ SweepConfirm(p)
                 /\ b = req[p].bk
                 /\ \A t : TicketsSold(t, {})' \subseteq TicketsSold(t, {b})
<1> DEFINE Shrinks == \A t \in Nat : \A self :
                         t <= clock' => TicketsSold(t, self)' \subseteq TicketsSold(t, self)
<1>0. TypeInv /\ bookings \in [Bookings -> Booking] /\ clock \in Nat /\ HoldDuration \in Nat
  BY NumbersAssumption DEF SeatInv, TypeInv, DbTypeOK
<1>c. ASSUME NEW t, NEW self, NEW other, Counted(t, self)' \subseteq Counted(t, other),
             \A b \in Bookings : bookings'[b].quantity = bookings[b].quantity
      PROVE  TicketsSold(t, self)' \subseteq TicketsSold(t, other)
  <2>1. \A b \in Bookings : Tickets(b)' = Tickets(b)
    BY <1>c DEF Tickets
  <2> QED
    BY <1>c, <2>1 DEF TicketsSold, Counted
<1>1. ASSUME UNCHANGED bookings PROVE Shrinks
  <2>1. \A t, self : Counted(t, self)' = Counted(t, self)
    BY <1>1 DEF Counted, Pending, Unexpired
  <2> QED
    BY <1>1, <1>c, <2>1
<1>2. ASSUME NEW p \in Procs, CreateInsert(p), bookings' # bookings
      PROVE  \E b \in Bookings :
                 \A t, self : TicketsSold(t, self)' \subseteq
                                TicketsSold(t, self) \cup ({b} \X (1..req[p].draft.quantity))
  <2>1. PICK b \in Bookings : bookings' = [bookings EXCEPT ![b] = req[p].draft]
    BY <1>2 DEF CreateInsert, db
  <2>2. bookings'[b] = req[p].draft /\ \A c \in Bookings \ {b} : bookings'[c] = bookings[c]
    BY <1>0, <2>1
  <2>3. /\ Tickets(b)' = {b} \X (1..req[p].draft.quantity)
        /\ \A c \in Bookings \ {b} : Tickets(c)' = Tickets(c)
    BY <2>2 DEF Tickets
  <2>4. \A t, self : Counted(t, self)' \subseteq Counted(t, self) \cup {b}
    BY <2>2 DEF Counted, Pending, Unexpired
  <2> QED
    BY <2>3, <2>4 DEF TicketsSold, Counted
<1>3. ASSUME NEW p \in Procs, pc[p] \in ConfirmLabels, Confirm(p, req[p].bk)
      PROVE  /\ req[p].bk \in Bookings
             /\ clock' = clock
             /\ bookings'[req[p].bk].status = "confirmed"
             /\ \A c \in Bookings \ {req[p].bk} : bookings'[c] = bookings[c]
             /\ \A c \in Bookings : bookings'[c].quantity = bookings[c].quantity
  <2>1. PICK b \in Bookings : b = req[p].bk
    BY <1>0, <1>3, TargetRows DEF ConfirmLabels, Targeted, Labels
  <2>2. bookings' = [bookings EXCEPT ![b].status = "confirmed"] /\ clock' = clock
    BY <1>3, <2>1 DEF Confirm
  <2> QED
    BY <1>0, <2>1, <2>2 DEF Booking
<1>4. ASSUME NEW p \in Procs, pc[p] \in ConfirmLabels, Confirm(p, req[p].bk), PayConfirm(p)
      PROVE  Shrinks
  <2>1. PICK b \in Bookings : b = req[p].bk
    BY <1>3, <1>4
  <2>2. Pending(b) /\ Unexpired(b, clock)
    BY <1>4, <2>1, PaidIsCounted
  <2>3. ASSUME NEW t \in Nat, NEW self, t <= clock' PROVE Counted(t, self)' \subseteq Counted(t, self)
    <3>1. Unexpired(b, t)
      BY <1>0, <1>3, <1>4, <2>2, <2>3 DEF Unexpired, Booking
    <3> QED
      BY <1>3, <1>4, <2>1, <2>2, <3>1 DEF Counted, Pending, Unexpired
  <2> QED
    BY <1>3, <1>4, <1>c, <2>3
<1>5. ASSUME NEW p \in Procs, pc[p] \in ConfirmLabels, Confirm(p, req[p].bk),
             HookConfirm(p) \/ SweepConfirm(p)
      PROVE  \A t : TicketsSold(t, {})' \subseteq TicketsSold(t, {req[p].bk})
  <2>1. \A t : Counted(t, {})' \subseteq Counted(t, {req[p].bk})
    BY <1>3, <1>5 DEF Counted, Pending, Unexpired
  <2> QED
    BY <1>3, <1>5, <1>c, <2>1
<1>6. ASSUME NEW p \in Procs, HookCancel(p) \/ CancelCommit(p) \/ SweepRelease(p) PROVE Shrinks
  <2>1. PICK b \in Bookings : b = req[p].bk
    BY <1>0, <1>6, TargetRows DEF HookCancel, CancelCommit, SweepRelease, Targeted, Labels
  <2>2. bookings' = [bookings EXCEPT ![b].status = "cancelled"]
    BY <1>6, <2>1 DEF HookCancel, CancelCommit, SweepRelease, Cancel
  <2>3. /\ bookings'[b].status = "cancelled"
        /\ \A c \in Bookings \ {b} : bookings'[c] = bookings[c]
        /\ \A c \in Bookings : bookings'[c].quantity = bookings[c].quantity
    BY <1>0, <2>2 DEF Booking
  <2>4. \A t, self : Counted(t, self)' \subseteq Counted(t, self)
    BY <2>3 DEF Counted, Pending, Unexpired
  <2> QED
    BY <1>c, <2>3, <2>4
<1>7. ASSUME NEW p \in Procs, PayConfirm(p) \/ HookConfirm(p) \/ SweepConfirm(p)
      PROVE  pc[p] \in ConfirmLabels /\ Confirm(p, req[p].bk)
  BY <1>7 DEF PayConfirm, HookConfirm, SweepConfirm, ConfirmLabels
<1> HIDE DEF Shrinks
<1>8. ASSUME NEW p \in Procs, HookConfirm(p) \/ SweepConfirm(p)
      PROVE  \E b \in Bookings : /\ b = req[p].bk
                                 /\ \A t : TicketsSold(t, {})' \subseteq TicketsSold(t, {b})
  BY <1>3, <1>5, <1>7, <1>8
<1>9. \/ Shrinks
      \/ \E p \in Procs : CreateInsert(p) /\ bookings' # bookings
      \/ \E p \in Procs : HookConfirm(p) \/ SweepConfirm(p)
  BY <1>1, <1>4, <1>6, <1>7, WritingActions
<1> QED
  BY <1>2, <1>8, <1>9 DEF Shrinks

LEMMA CapacityStays ==
    ASSUME TypeInv, SlotInv, [Next]_vars
    PROVE  service'.max_capacity = service.max_capacity
<1>1. ASSUME NEW p \in Procs, UpdateCommit(p)
      PROVE  service'.max_capacity = service.max_capacity
  <2>1. req[p].cap = service.max_capacity
    BY <1>1 DEF UpdateCommit, SlotInv, FitsStill, CapacityLabels
  <2> QED
    BY <1>1, <2>1 DEF UpdateCommit, TypeInv, DbTypeOK, Service
<1>2. ASSUME NEW p \in Procs, DeleteCommit(p)
      PROVE  service'.max_capacity = service.max_capacity
  BY <1>2 DEF DeleteCommit, TypeInv, DbTypeOK, Service
<1> QED
  BY <1>1, <1>2, ServiceWriters

\* Two counts of one time, before and after a step that leaves what is counted alone
LEMMA SameTickets ==
    ASSUME UNCHANGED bookings, NEW t, NEW self
    PROVE  ActiveTickets(t, self)' = ActiveTickets(t, self)
<1>1. Counted(t, self)' = Counted(t, self)
  BY DEF Counted, Pending, Unexpired
<1> QED
  BY <1>1 DEF ActiveTickets, Tickets

\* A process that has counted goes on to write, and no other process comes in between.
LEMMA OthersCannotCount ==
    ASSUME SlotInv, NEW p \in Procs, pc[p] \in CountedLabels, NEW q \in Procs,
           CreateInsert(q) \/ HookConfirm(q) \/ SweepConfirm(q)
    PROVE  q = p
<1>1. pc[q] \in CountedLabels
  BY DEF CreateInsert, HookConfirm, SweepConfirm, CountedLabels
<1> QED
  BY <1>1 DEF SlotInv, FitsStill

LEMMA FitsStillNext ==
    ASSUME ~UnitMode, \A x, y \in Capacities : x = y, PayBeatsExpiry,
           SeatInv, RowsExist, HoldInv, HoldInv', SeatInv', SlotInv, [Next]_vars, NEW p \in Procs
    PROVE  FitsStill(p)'
<1>0. /\ TypeInv /\ TypeInv' /\ IsFiniteSet(Rows) /\ IsFiniteSet(Rows)'
      /\ req[p] \in Req /\ req[p].now \in Nat /\ clock \in Nat /\ clock' \in Nat
      /\ service.max_capacity \in Capacities /\ FitsStill(p)
      /\ service'.max_capacity = service.max_capacity
      /\ service.max_capacity \in Nat
  BY LocalTypes, CapacityStays, NumbersAssumption DEF SeatInv, HoldInv, SlotInv, TypeInv, DbTypeOK
<1>d. /\ CapacityLabels \cap CountedLabels = {}
      /\ (CapacityLabels \cup CountedLabels) \cap SeatLocking = {}
  BY DEF CapacityLabels, CountedLabels, SeatLocking
<1>1. CASE Acts(p)
  <2>1. CASE pc'[p] \notin CapacityLabels \cup CountedLabels
    BY <2>1 DEF FitsStill, CountedLabels
  <2>2. CASE pc'[p] \in CapacityLabels /\ req'[p].cap \in Capacities
    <3>1. req'[p].cap = service'.max_capacity
      BY <1>0, <2>2
    <3>2. pc'[p] \notin CountedLabels /\ pc'[p] # "create_insert"
      BY <1>d, <2>2 DEF CapacityLabels
    <3> QED
      BY <3>1, <3>2 DEF FitsStill
  <2>3. CASE pc'[p] = "create_insert" /\ CreateSlot(p)
    <3>1. pc[p] = "create_slot" /\ req[p].cap = service.max_capacity /\ UNCHANGED bookings
      BY <1>0, <2>3 DEF CreateSlot, FitsStill, CapacityLabels, db
    <3>2. ~Finish(p)
      <4>1. ASSUME Finish(p) PROVE pc'[p] = "idle"
        BY <1>0, <4>1, GotoKeeps DEF Finish
      <4> QED
        BY <2>3, <4>1
    <3>3. /\ ActiveTickets(req[p].now, {}) + req[p].draft.quantity <= req[p].cap
          /\ Goto(p, "create_insert", req[p]) /\ LockService(p)
      BY <2>3, <3>2 DEF CreateSlot
    <3>4. req'[p] = req[p] /\ serviceLock' = p
      BY <1>0, <3>3, GotoKeeps DEF LockService
    <3>5. PICK t : t = req[p].now
      OBVIOUS
    <3>6. ActiveTickets(t, {})' = ActiveTickets(t, {})
      BY <3>1, SameTickets
    <3>7. ActiveTickets(req[p].now, {})' + req'[p].draft.quantity <= service'.max_capacity
      <4>1. ActiveTickets(req[p].now, {})' = ActiveTickets(t, {})'
        BY <3>4, <3>5
      <4> QED
        BY <1>0, <3>1, <3>3, <3>4, <3>5, <3>6, <4>1
    <3> QED
      BY <2>3, <3>4, <3>7, <1>d DEF FitsStill, CountedLabels, CapacityLabels
  <2>4. CASE pc'[p] \in CountedLabels \ {"create_insert"} /\ (HookService(p) \/ SweepService(p))
    <3>1. /\ pc[p] \in CapacityLabels /\ req[p].cap = service.max_capacity
          /\ UNCHANGED <<bookings, clock>> /\ serviceLock' = p
      BY <1>0, <2>4 DEF HookService, SweepService, FitsStill, CapacityLabels, LockService, db
    <3>2. req'[p] = req[p]
      <4>1. \E label : Goto(p, label, req[p])
        BY <2>4 DEF HookService, SweepService
      <4> QED
        BY <1>0, <4>1, GotoKeeps
    <3>3. ActiveTickets(clock, {req[p].bk}) <= req[p].cap
      <4>1. ASSUME Goto(p, "hook_refund", req[p]) \/ Goto(p, "sweep_refund", req[p])
            PROVE  pc'[p] \notin CountedLabels
        BY <1>0, <4>1, GotoKeeps DEF CountedLabels
      <4> QED
        BY <2>4, <4>1 DEF HookService, SweepService
    <3>4. PICK t, b : t = clock /\ b = req[p].bk
      OBVIOUS
    <3>5. ActiveTickets(t, {b})' = ActiveTickets(t, {b})
      BY <3>1, SameTickets
    <3>6. ActiveTickets(clock, {req[p].bk})' <= service'.max_capacity
      <4>1. ActiveTickets(clock, {req[p].bk})' = ActiveTickets(t, {b})'
        BY <3>1, <3>2, <3>4
      <4> QED
        BY <1>0, <3>1, <3>3, <3>4, <3>5, <4>1
    <3> QED
      BY <2>4, <3>1, <3>6, <1>d DEF FitsStill
  <2> QED
    BY <1>0, <1>1, <2>1, <2>2, <2>3, <2>4, WaysToCount DEF SlotInv
<1>2. CASE ~Acts(p)
  <2>1. CASE pc'[p] \notin CapacityLabels \cup CountedLabels
    BY <2>1 DEF FitsStill, CountedLabels
  <2>2. CASE pc'[p] \in CapacityLabels \cup CountedLabels
    <3>1. pc'[p] = pc[p]
      BY <1>0, <1>2, StaysOrActs DEF Stays
    <3>2. req'[p] = req[p]
      <4>1. ~LockSeat(p)
        BY <1>d, <2>2, <3>1 DEF LockSeat
      <4>2. CASE UNCHANGED <<db, mails, locks, pc, req>>
        BY <4>2
      <4>3. ASSUME NEW q \in Procs \ {p}, Acts(q) \/ LockSeat(q) PROVE req'[p] = req[p]
        BY <1>0, <4>3, OthersStay, LockSeatStays
      <4> QED
        BY <1>2, <4>1, <4>2, <4>3, NextMoves
    <3>3. CASE pc[p] \in CapacityLabels
      BY <1>0, <1>d, <3>1, <3>2, <3>3 DEF FitsStill, CapacityLabels
    <3>4. CASE pc[p] \in CountedLabels
      <4>1. serviceLock' = p
        BY <1>0, <1>2, <3>4, LocksStay DEF FitsStill
      <4>2. \A t \in Nat : \A self : t <= clock' => TicketsSold(t, self)' \subseteq TicketsSold(t, self)
        <5>1. ASSUME NEW q \in Procs, CreateInsert(q) \/ HookConfirm(q) \/ SweepConfirm(q)
              PROVE  FALSE
          <6>1. q = p
            BY <3>4, <5>1, OthersCannotCount
          <6> QED
            BY <1>2, <5>1, <6>1 DEF Acts, Create, Webhook, Sweep
        <5> QED
          BY <5>1, TicketsStep
      <4>3. PICK later \in Nat : later = clock' /\ clock <= later
        BY <1>0, ClockAdvances
      <4>4. CASE pc[p] = "create_insert"
        <5>1. PICK t \in Nat : t = req[p].now /\ t <= clock
          BY <1>0, <4>4 DEF HoldInv, DraftCounted, CreateLabels
        <5>2. ActiveTickets(t, {})' = Cardinality(TicketsSold(t, {})')
          BY DEF ActiveTickets, TicketsSold
        <5>3. PICK T : T = TicketsSold(t, {})'
          OBVIOUS
        <5>4. T \subseteq TicketsSold(t, {})
          BY <4>2, <4>3, <5>1, <5>3, <1>0
        <5>5. Cardinality(T) \in Nat /\ Cardinality(T) <= ActiveTickets(t, {})
          BY <1>0, <5>4, FS_EmptySet, NoMoreTickets
        <5>6. ActiveTickets(t, {}) + req[p].draft.quantity <= service.max_capacity
          BY <1>0, <4>4, <5>1 DEF FitsStill
        <5>7. ActiveTickets(t, {}) \in Nat /\ req[p].draft.quantity \in Nat
          BY <1>0, FS_EmptySet, TicketsFinite DEF Req, Booking
        <5>8. ActiveTickets(req[p].now, {})' + req'[p].draft.quantity <= service'.max_capacity
          <6>1. ActiveTickets(req[p].now, {})' = Cardinality(T)
            BY <3>2, <5>1, <5>2, <5>3
          <6> QED
            BY <1>0, <3>2, <5>5, <5>6, <5>7, <6>1
        <5> QED
          BY <3>1, <4>1, <4>4, <5>8, <1>d DEF FitsStill, CountedLabels, CapacityLabels
      <4>5. CASE pc[p] \in CountedLabels \ {"create_insert"}
        <5>1. PICK b \in Bookings : b = req[p].bk
          BY <1>0, <4>5, TargetRows DEF CountedLabels, Targeted, Labels
        <5>2. PICK T : T = TicketsSold(later, {b})'
          OBVIOUS
        <5>3. T \subseteq TicketsSold(clock, {b})
          <6>1. T \subseteq TicketsSold(later, {b})
            BY <4>2, <4>3, <5>2
          <6> QED
            BY <1>0, <4>3, <6>1, TicketsExpire
        <5>4. IsFiniteSet({b}) /\ {b} \in SUBSET Bookings
          BY FS_Singleton
        <5>5. /\ Cardinality(T) \in Nat /\ Cardinality(T) <= ActiveTickets(clock, {b})
              /\ ActiveTickets(clock, {b}) \in Nat
          BY <1>0, <5>3, <5>4, NoMoreTickets, TicketsFinite
        <5>6. ActiveTickets(clock, {b}) <= service.max_capacity
          BY <1>0, <4>5, <5>1 DEF FitsStill
        <5>7. ActiveTickets(clock, {req[p].bk})' <= service'.max_capacity
          <6>1. ActiveTickets(clock, {req[p].bk})' = Cardinality(T)
            <7>1. ActiveTickets(later, {b})' = Cardinality(TicketsSold(later, {b})')
              BY DEF ActiveTickets, TicketsSold
            <7> QED
              BY <3>2, <4>3, <5>1, <5>2, <7>1
          <6> QED
            BY <1>0, <5>5, <5>6, <6>1
        <5> QED
          BY <3>1, <4>1, <4>5, <5>7, <1>d DEF FitsStill
      <4> QED
        BY <3>4, <4>4, <4>5
    <3> QED
      BY <2>2, <3>1, <3>3, <3>4
  <2> QED
    BY <2>1, <2>2
<1> QED
  BY <1>1, <1>2

LEMMA NeverOversoldNext ==
    ASSUME PayBeatsExpiry, SeatInv, RowsExist, HoldInv, SlotInv, [Next]_vars
    PROVE  NeverOversold'
<1>0. /\ TypeInv /\ IsFiniteSet(Rows) /\ clock \in Nat
      /\ service'.max_capacity = service.max_capacity
      /\ service.max_capacity \in Nat
      /\ ActiveTickets(clock, {}) <= service.max_capacity
  BY CapacityStays, NumbersAssumption
  DEF SeatInv, HoldInv, SlotInv, NeverOversold, TypeInv, DbTypeOK
<1>1. PICK later \in Nat : later = clock' /\ clock <= later
  BY <1>0, ClockAdvances
<1>2. PICK T : T = TicketsSold(later, {})'
  OBVIOUS
<1>3. ActiveTickets(clock, {})' = Cardinality(T)
  <2>1. ActiveTickets(later, {})' = Cardinality(TicketsSold(later, {})')
    BY DEF ActiveTickets, TicketsSold
  <2> QED
    BY <1>1, <1>2, <2>1
<1>4. SUFFICES Cardinality(T) <= service.max_capacity
  BY <1>0, <1>3 DEF NeverOversold
<1>5. TicketsSold(later, {}) \subseteq TicketsSold(clock, {})
  BY <1>0, <1>1, TicketsExpire
<1>6. CASE T \subseteq TicketsSold(later, {})
  <2>1. /\ Cardinality(T) \in Nat /\ Cardinality(T) <= ActiveTickets(clock, {})
        /\ ActiveTickets(clock, {}) \in Nat
    BY <1>0, <1>5, <1>6, FS_EmptySet, NoMoreTickets, TicketsFinite
  <2> QED
    BY <1>0, <2>1
<1>7. ASSUME NEW p \in Procs, NEW b \in Bookings, CreateInsert(p),
             T \subseteq TicketsSold(later, {}) \cup ({b} \X (1..req[p].draft.quantity))
      PROVE  Cardinality(T) <= service.max_capacity
  <2>1. pc[p] = "create_insert"
    BY <1>7 DEF CreateInsert
  <2>2. PICK t \in Nat, q \in Nat : t = req[p].now /\ q = req[p].draft.quantity /\ t <= clock
    BY <1>0, <2>1, LocalTypes DEF HoldInv, DraftCounted, CreateLabels, TypeInv, Booking
  <2>3. TicketsSold(clock, {}) \subseteq TicketsSold(t, {})
    BY <1>0, <2>2, TicketsExpire
  <2>4. T \subseteq TicketsSold(t, {}) \cup ({b} \X (1..q))
    BY <1>5, <1>7, <2>2, <2>3
  <2>5. Cardinality(T) \in Nat /\ Cardinality(T) <= ActiveTickets(t, {}) + q
    BY <1>0, <2>4, MoreTickets
  <2>6. ActiveTickets(t, {}) + q <= service.max_capacity
    BY <2>1, <2>2 DEF SlotInv, FitsStill
  <2>7. ActiveTickets(t, {}) \in Nat
    BY <1>0, FS_EmptySet, TicketsFinite
  <2> QED
    BY <1>0, <2>5, <2>6, <2>7
<1>8. ASSUME NEW p \in Procs, NEW b \in Bookings, HookConfirm(p) \/ SweepConfirm(p),
             b = req[p].bk, T \subseteq TicketsSold(later, {b})
      PROVE  Cardinality(T) <= service.max_capacity
  <2>1. pc[p] \in CountedLabels \ {"create_insert"}
    BY <1>8 DEF HookConfirm, SweepConfirm, CountedLabels
  <2>2. TicketsSold(later, {b}) \subseteq TicketsSold(clock, {b})
    BY <1>0, <1>1, TicketsExpire
  <2>3. IsFiniteSet({b}) /\ {b} \in SUBSET Bookings
    BY FS_Singleton
  <2>4. /\ Cardinality(T) \in Nat /\ Cardinality(T) <= ActiveTickets(clock, {b})
        /\ ActiveTickets(clock, {b}) \in Nat
    BY <1>0, <1>8, <2>2, <2>3, NoMoreTickets, TicketsFinite
  <2>5. ActiveTickets(clock, {b}) <= service.max_capacity
    BY <1>8, <2>1 DEF SlotInv, FitsStill
  <2> QED
    BY <1>0, <2>4, <2>5
<1>9. CASE \A t \in Nat : \A self : t <= clock' => TicketsSold(t, self)' \subseteq TicketsSold(t, self)
  <2>1. T \subseteq TicketsSold(later, {})
    BY <1>1, <1>2, <1>9
  <2> QED
    BY <1>6, <2>1
<1>10. CASE \E p \in Procs, b \in Bookings :
              /\ CreateInsert(p)
              /\ \A t, self : TicketsSold(t, self)' \subseteq
                                TicketsSold(t, self) \cup ({b} \X (1..req[p].draft.quantity))
  BY <1>2, <1>7, <1>10
<1>11. CASE \E p \in Procs, b \in Bookings :
              /\ HookConfirm(p) \/ SweepConfirm(p)
              /\ b = req[p].bk
              /\ \A t : TicketsSold(t, {})' \subseteq TicketsSold(t, {b})
  BY <1>2, <1>8, <1>11
<1> QED
  BY <1>9, <1>10, <1>11, TicketsStep

LEMMA SlotInvHolds ==
    ASSUME ~UnitMode, RereadAtOnce, PayBeatsExpiry, \A x, y \in Capacities : x = y
    PROVE  Spec => []SlotInv
<1>1. Init => SlotInv
  <2> SUFFICES ASSUME Init PROVE SlotInv
    OBVIOUS
  <2>1. /\ service.max_capacity \in Capacities
        /\ \A p \in Procs : pc[p] = "idle"
        /\ Counted(clock, {}) = {}
    BY DEF Init, StoreInit, NoBooking, Counted, Pending
  <2>2. ActiveTickets(clock, {}) = 0
    <3>1. UNION {Tickets(b) : b \in Counted(clock, {})} = {}
      BY <2>1
    <3> QED
      BY <3>1, FS_EmptySet DEF ActiveTickets
  <2>3. service.max_capacity \in Nat
    BY <2>1, NumbersAssumption
  <2> QED
    BY <2>1, <2>2, <2>3
    DEF SlotInv, NoSeatLabels, NeverOversold, FitsStill, CapacityLabels, CountedLabels
<1>2. SeatInv /\ RowsExist /\ HoldInv /\ SeatInv' /\ HoldInv' /\ SlotInv /\ [Next]_vars => SlotInv'
  <2> SUFFICES ASSUME SeatInv, RowsExist, HoldInv, SeatInv', HoldInv', SlotInv, [Next]_vars
               PROVE  SlotInv'
    OBVIOUS
  <2>1. service'.max_capacity \in Capacities
    BY CapacityStays DEF SlotInv, SeatInv
  <2>2. NoSeatLabels'
    BY NoSeatLabelsNext DEF SlotInv, SeatInv
  <2>3. NeverOversold'
    BY NeverOversoldNext
  <2>4. \A p \in Procs : FitsStill(p)'
    BY FitsStillNext
  <2> QED
    BY <2>1, <2>2, <2>3, <2>4 DEF SlotInv
<1> QED
  BY <1>1, <1>2, SeatInvHolds, RowsExistHolds, HoldInvHolds, PTL DEF Spec

\* Bookings without seats never exceed the capacity, however many customers
\* book, pay and are swept at once: whoever adds to the tickets counts them
\* under the lock on the service row and writes before giving it up, and /pay
\* confirms only what is counted.  A seller who shrinks the event meanwhile is
\* another matter: that check is made without the lock.
THEOREM CapacityHolds ==
    ASSUME ~UnitMode, RereadAtOnce, PayBeatsExpiry, \A x, y \in Capacities : x = y
    PROVE  Spec => []NeverOversold
<1>1. SlotInv => NeverOversold
  BY DEF SlotInv
<1> QED
  BY <1>1, SlotInvHolds, PTL
=============================================================================
