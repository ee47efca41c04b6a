-------------------------- MODULE BookingLifecycle --------------------------
(***************************************************************************)
(* The booking service as an implementation of SeatLifecycle: the seats    *)
(* taken are the reserved column, and a booking is a hold whose phase is   *)
(* its status.                                                             *)
(***************************************************************************)
EXTENDS Booking

PhaseOf ==
  [RESERVED |-> "held", CONFIRMED |-> "kept", CANCELLED |-> "given back",
   EXPIRED |-> "lapsed"]

TakenSeats == [s \in Slots |-> slots[s].reserved]

HoldOf(b) ==
  [slot |-> bookings[b].slotId, seats |-> bookings[b].partySize,
   phase |-> PhaseOf[bookings[b].status]]

AllHolds == [b \in DOMAIN bookings |-> HoldOf(b)]

Lifecycle ==
  INSTANCE SeatLifecycle WITH Holds <- BookingIds, taken <- TakenSeats, hold <- AllHolds

\* Whatever handlers and workers do to each other, every transaction that commits
\* moves seats the way one hold of SeatLifecycle does: taken only when free, lapsed
\* only from a hold, given back with exactly the seats that were taken.
ImplementsSeatLifecycle == Lifecycle!Spec

=============================================================================
