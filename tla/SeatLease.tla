----------------------------- MODULE SeatLease -----------------------------
(***************************************************************************)
(* What the reservations side promises of its seats: a lease is granted    *)
(* once, on a seat nobody holds, for a fixed time from its date, which is  *)
(* at most Delay older than the grant; it ends, possibly with              *)
(* others in one step, and an ended lease never holds a seat again.  A     *)
(* lease that ends by lapsing has outlived its time; one that is given up  *)
(* or withdrawn may end earlier.                                           *)
(***************************************************************************)
EXTENDS Naturals

CONSTANTS Seats, LeaseIds, NoSeat, TTL, Delay

VARIABLES
    clock,
    lease     \* lease[id]: its state, its seat, and the time it runs out

leaseVars == <<clock, lease>>

NoLease == [state |-> "none", seat |-> NoSeat, until |-> 0]

Init ==
    /\ clock = 0
    /\ lease = [id \in LeaseIds |-> NoLease]

Holders(s) == {id \in LeaseIds : lease[id].state = "held" /\ lease[id].seat = s}

Grant(id, s, date) ==
    /\ lease[id].state = "none"
    /\ Holders(s) = {}
    /\ clock <= date + Delay
    /\ lease' = [lease EXCEPT ![id] =
                    [state |-> "held", seat |-> s, until |-> date + TTL]]
    /\ clock' = clock

\* The leases of ids end: lapsed ones together, the others as somebody decides.
End(ids) ==
    /\ \A id \in ids : lease[id].state = "held"
    /\ lease' = [id \in LeaseIds |->
                   IF id \in ids THEN [lease[id] EXCEPT !.state = "ended"] ELSE lease[id]]
    /\ clock' = clock

Advance == clock' = clock + 1 /\ lease' = lease

Next ==
    \/ \E id \in LeaseIds, s \in Seats, date \in 0..clock : Grant(id, s, date)
    \/ \E ids \in SUBSET LeaseIds : End(ids)
    \/ Advance

Spec == Init /\ [][Next]_leaseVars

=============================================================================
