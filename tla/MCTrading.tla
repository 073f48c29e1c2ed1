------------------------------ MODULE MCTrading ------------------------------
(* Instances of Trading small enough for TLC. *)
EXTENDS Trading

Long == [direction |-> "LONG", entry |-> 3, stop |-> 2, targets |-> {5, 6}]
Short == [direction |-> "SHORT", entry |-> 3, stop |-> 5, targets |-> {1, 2}]
Observed == [direction |-> "OBSERVE", entry |-> 3, stop |-> 2, targets |-> {5, 6}]

EveryTrade == {Long, Short, Observed}

\* Below the stop of the long and the targets of the short; at the target of the
\* long and the stop of the short.
MCPrices == {0, 5}
=============================================================================
