------------------------------ MODULE MCVerify ------------------------------
(* A small instance of Verify for TLC. *)
EXTENDS Verify, TLC

CONSTANTS shopA, shopB, nameA, n1

\* nameA passes for shopA and is doubtful for shopB.
MCShopOrder  == <<shopA, shopB>>
MCSimilarity == nameA :> (shopA :> 90 @@ shopB :> 60)

Reading(name, low, date, number) ==
    [name |-> name, low |-> low, date |-> date, number |-> number]

\* A good receipt of the first day and one of the second with the same number,
\* and one of which hardly anything, or not even the name, could be read.
MCReadings ==
    {Reading(nameA, FALSE, 0, n1), Reading(nameA, FALSE, 1, n1),
     Reading(nameA, TRUE, Null, Null), Reading(Null, TRUE, 0, n1)}

Symmetry == Permutations(Tokens) \cup Permutations(Devices) \cup Permutations(Workers)
              \cup Permutations(ValidPhotos)

=============================================================================
