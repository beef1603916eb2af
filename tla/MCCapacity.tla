----------------------------- MODULE MCCapacity -----------------------------
(* A small instance of Capacity for TLC. *)
EXTENDS Capacity, TLC
=============================================================================
