------------------------------- MODULE Kst -------------------------------
(***************************************************************************)
(* The server's clock.  Times are ticks of UTC counted from the start of   *)
(* the pop-up; a day is a Korean (KST) day, which starts KstOffset ticks   *)
(* before the UTC one.  Every "today" of the backend goes through this     *)
(* conversion (decision D-01).                                             *)
(***************************************************************************)
EXTENDS Naturals

CONSTANTS
    DayLen,          \* ticks of one day
    KstOffset,       \* ticks by which Asia/Seoul is ahead of UTC
    ReservationTTL,  \* ticks a reservation lasts (two hours, decision D-11)
    MaxTime          \* bound: the clock stops here

ASSUME KstAssumption ==
    /\ DayLen \in Nat \ {0}
    /\ KstOffset \in Nat
    /\ ReservationTTL \in Nat \ {0}
    /\ MaxTime \in Nat

\* The KST calendar day of a UTC time.
KstDay(t) == (t + KstOffset) \div DayLen

\* The values verify_date can have been given by time t.
DaysBy(t) == {KstDay(u) : u \in 0..t}

=============================================================================
