----------------------------- MODULE MCBooking -----------------------------
(* Small instances of Booking for TLC. *)
EXTENDS Booking, TLC

\* Nothing in Booking tells two members of one of these sets apart.
Symmetry == Permutations(ResIds) \cup Permutations(Workers) \cup Permutations(Seats)
              \cup Permutations(Tokens) \cup Permutations(Devices)

=============================================================================
