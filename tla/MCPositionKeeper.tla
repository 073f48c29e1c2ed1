--------------------------- MODULE MCPositionKeeper ---------------------------
(* Instances of PositionKeeper small enough for TLC. *)
EXTENDS PositionKeeper

Long == [direction |-> "LONG", entry |-> 3, stop |-> 2, targets |-> {5, 6}]
Short == [direction |-> "SHORT", entry |-> 3, stop |-> 4, targets |-> {1, 2}]

LongAndShort == {Long, Short}

\* Far below and above every stop and target, at each, and in between.
MCPrices == {0, 2, 3, 5}
=============================================================================
