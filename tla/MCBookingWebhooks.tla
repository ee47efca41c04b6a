------------------------- MODULE MCBookingWebhooks -------------------------
(* Instances of BookingWebhooks for TLC. *)
EXTENDS BookingWebhooks, TLC

CONSTANTS s1, s2, u1, u2, t1, t2

\* One tenant, one user, one slot.
OneTenant == [x \in {u1, s1} |-> t1]

\* A user and a slot in each of two tenants.
TwoTenants == (u1 :> t1) @@ (s1 :> t1) @@ (u2 :> t2) @@ (s2 :> t2)

OneSeatEach == [s \in Slots |-> 1]

NoneSeeded == [s \in Slots |-> 0]

\* Handlers, dispatches and registrations are interchangeable.
Symmetry ==
  Permutations(Requests) \cup Permutations(Dispatches) \cup Permutations(Registrars)

=============================================================================
