------------------------------ MODULE MCReview ------------------------------
(* Instances of Review small enough for TLC. *)
EXTENDS Review

\* The windows of 24 hours, 48 hours and 7 days, in ticks of the clock.
DayAndWeek == {1, 2, 7}
ThreeWindows == {1, 2, 3}

OnePrice == {2}
ThreePrices == 1..3

\* A long, a short, and one to observe whose stop and target were not validated.
Long    == [long |-> TRUE, entry |-> 2, stop |-> 1, target |-> 3]
Short   == [long |-> FALSE, entry |-> 2, stop |-> 3, target |-> 1]
Observe == [long |-> FALSE, entry |-> 2, stop |-> 2, target |-> 2]

EachPlan == {Long, Short, Observe}
OnePlan == {Observe}
=============================================================================
