--------------------------- MODULE SeatLifecycle ---------------------------
(***************************************************************************)
(* What the booking service promises of seats, without handlers, workers,  *)
(* versions, locks or timelines: a hold takes seats of a slot, and is then *)
(* kept (confirmed), given back (cancelled) or lapses (expires), once      *)
(* (src/services/booking-state.ts, adjustSlotReserved).                    *)
(*                                                                         *)
(* Two more steps are what the code can do beyond its own state machine:   *)
(* a confirm that commits late revives a hold whose seats are gone, and a  *)
(* cancel that commits late gives the seats of one hold back again.        *)
(* Nothing else ever moves a seat.                                         *)
(***************************************************************************)
EXTENDS Naturals

CONSTANTS
  Slots,
  Holds,     \* supply of holds
  Capacity,  \* seats of every slot
  Seeded     \* seats taken from the start

VARIABLES
  taken,  \* seats taken of every slot
  hold    \* a function on the holds there are: slot, seats, phase

vars == <<taken, hold>>

Init ==
  /\ taken = Seeded
  /\ hold = [h \in {} |-> h]

Phase(h, from, to) ==
  /\ h \in DOMAIN hold
  /\ hold[h].phase \in from
  /\ hold' = [hold EXCEPT ![h].phase = to]

Return(s, n) ==
  /\ taken[s] >= n
  /\ taken' = [taken EXCEPT ![s] = @ - n]

\* A reservation: the seats must be there.
Take(h, s, n) ==
  /\ h \in Holds \ DOMAIN hold
  /\ n > 0
  /\ taken[s] + n <= Capacity[s]
  /\ taken' = [taken EXCEPT ![s] = @ + n]
  /\ hold' = [g \in DOMAIN hold \cup {h} |->
       IF g = h THEN [slot |-> s, seats |-> n, phase |-> "held"] ELSE hold[g]]

Keep(h) == Phase(h, {"held"}, "kept") /\ UNCHANGED taken

GiveBack(h) ==
  Phase(h, {"held", "kept"}, "given back") /\ Return(hold[h].slot, hold[h].seats)

\* Only a hold lapses: what was kept can be taken away by its owner alone.
Lapse(h) == Phase(h, {"held"}, "lapsed") /\ Return(hold[h].slot, hold[h].seats)

\* A stale confirm: the hold is kept again and no seat is taken for it.
Revive(h) == Phase(h, {"given back", "lapsed"}, "kept") /\ UNCHANGED taken

\* A stale cancel: the seats of a hold that is over are given back again.
GiveBackAgain(h) ==
  Phase(h, {"given back", "lapsed"}, "given back")
    /\ Return(hold[h].slot, hold[h].seats)

Next ==
  \E h \in Holds :
     \/ \E s \in Slots : \E n \in 1..Capacity[s] : Take(h, s, n)
     \/ Keep(h)
     \/ GiveBack(h)
     \/ Lapse(h)
     \/ Revive(h)
     \/ GiveBackAgain(h)

Spec == Init /\ [][Next]_vars

=============================================================================
