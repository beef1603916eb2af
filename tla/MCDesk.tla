------------------------------- MODULE MCDesk -------------------------------
(* A small instance of Desk for TLC. *)
EXTENDS Desk, TLC

\* One column, or both with the flag set.
MCBodies == {p \in Patches : p.name = Null \/ p.flag # FALSE}

Symmetry == Permutations(Sessions) \cup Permutations(Workers) \cup Permutations(Names)

=============================================================================
