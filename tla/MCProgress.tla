----------------------------- MODULE MCProgress -----------------------------
(***************************************************************************)
(* Instances of TicketLiveness for TLC.                                    *)
(***************************************************************************)
EXTENDS TicketLiveness

CONSTANTS r1, r2, w1, b1, b2, u1
=============================================================================
