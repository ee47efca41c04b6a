---------------------------- MODULE MCBookingTx ----------------------------
(* An instance of BookingTx for TLC: one user, one slot of three seats, one of them
   booked by the seed. *)
EXTENDS BookingTx

CONSTANTS s1, u1, t1

OneTenant == [x \in {u1, s1} |-> t1]

ThreeSeats == [s \in {s1} |-> 3]

OneSeeded == [s \in {s1} |-> 1]

=============================================================================
