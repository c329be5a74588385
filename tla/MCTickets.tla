----------------------------- MODULE MCTickets -----------------------------
(***************************************************************************)
(* Instances of TicketSystem for TLC.  The processes, bookings and users   *)
(* are model values; bookings, requests and users are interchangeable.     *)
(***************************************************************************)
EXTENDS TicketSystem, TLC

CONSTANTS r1, r2, w1, b1, b2, u1, u2

Symmetric == Permutations(Bookings) \cup Permutations(Requests) \cup Permutations(Users)
=============================================================================
