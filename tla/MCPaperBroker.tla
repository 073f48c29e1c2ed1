---------------------------- MODULE MCPaperBroker ----------------------------
(* Instances of PaperBroker small enough for TLC. *)
EXTENDS PaperBroker

\* A calm account, and one past its daily loss.
Calm == [equity |-> 100, daily |-> 0, weekly |-> 0, streak |-> 0]
DailyLoss == [equity |-> 98, daily |-> -2, weekly |-> -2, streak |-> 1]
CalmOrLoss == {Calm, DailyLoss}
AlwaysCalm == {Calm}
=============================================================================
