---------------------------- MODULE MCGuestbook ----------------------------
(* A small instance of Guestbook for TLC. *)
EXTENDS Guestbook, TLC

CONSTANTS s1, s2, d1, h1, h2

\* Two tabs of one device.
MCOwner == s1 :> d1 @@ s2 :> d1

\* Handlers differ in nothing but their names.
MCSymmetry == Permutations(Handlers)

=============================================================================
