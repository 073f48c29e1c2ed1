---------------------------- MODULE MCPaperOrder ----------------------------
(* Instances of PaperOrder small enough for TLC. *)
EXTENDS PaperOrder, TLC

Symmetry == Permutations(ApprovalIds) \cup Permutations(OrderIds)
              \cup Permutations(PlaceCalls)

\* A calm account, one past its daily loss, and one that an earlier week left
\* with nothing.
Calm == [equity |-> 100, daily |-> 0, weekly |-> 0, streak |-> 0]
DailyLoss == [equity |-> 98, daily |-> -2, weekly |-> -2, streak |-> 1]
Broke == [equity |-> 0, daily |-> 0, weekly |-> 0, streak |-> 1]
CalmLossOrBroke == {Calm, DailyLoss, Broke}
=============================================================================
