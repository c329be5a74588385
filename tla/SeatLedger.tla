----------------------------- MODULE SeatLedger -----------------------------
(***************************************************************************)
(* What reserved seating promises, without locks, payments or processes:   *)
(* a seat has at most one holder, all the seats of a booking are held,     *)
(* sold and given back together, and a booking gets its seats once.        *)
(***************************************************************************)
CONSTANTS Seats, Bookings, Nobody

VARIABLES holder,   \* holder[s]: the booking that has seat s, or Nobody
          sold,     \* the bookings whose seats are sold
          gone      \* the bookings that gave their seats back

SeatsOf(b) == {s \in Seats : holder[s] = b}

Init == /\ holder = [s \in Seats |-> Nobody]
        /\ sold = {}
        /\ gone = {}

Hold(b, S) == /\ b \notin gone
              /\ SeatsOf(b) = {}
              /\ \A s \in S : holder[s] = Nobody
              /\ holder' = [s \in Seats |-> IF s \in S THEN b ELSE holder[s]]
              /\ UNCHANGED <<sold, gone>>

Sell(b) == /\ b \notin sold
           /\ SeatsOf(b) # {}
           /\ sold' = sold \cup {b}
           /\ UNCHANGED <<holder, gone>>

GiveBack(b) == /\ SeatsOf(b) # {}
               /\ holder' = [s \in Seats |-> IF holder[s] = b THEN Nobody ELSE holder[s]]
               /\ sold' = sold \ {b}
               /\ gone' = gone \cup {b}

Next == \E b \in Bookings : \/ \E S \in (SUBSET Seats) \ {{}} : Hold(b, S)
                            \/ Sell(b)
                            \/ GiveBack(b)

Spec == Init /\ [][Next]_<<holder, sold, gone>>
=============================================================================
