----------------------------- MODULE MCBooking -----------------------------
(* Instances of Booking for TLC. *)
EXTENDS BookingLifecycle, TLC

CONSTANTS s1, s2, u1, t1

\* One tenant, one user, one slot.
OneTenant == [x \in {u1, s1} |-> t1]

\* The same with two slots, of two seats and of one.
OneTenantTwoSlots == [x \in {u1, s1, s2} |-> t1]

TwoAndOne == [s \in {s1, s2} |-> IF s = s1 THEN 2 ELSE 1]

\* Two seats: two parties of one, or one of two.
TwoSeats == [s \in {s1} |-> 2]

\* Nothing booked by the seed.
NoneSeeded == [s \in Slots |-> 0]

\* One of four seats booked by the seed.
FourSeats == [s \in {s1} |-> 4]

OneSeeded == [s \in {s1} |-> 1]

\* Handlers are interchangeable, and so are bookings.
Symmetry == Permutations(Requests) \cup Permutations(BookingIds)

=============================================================================
