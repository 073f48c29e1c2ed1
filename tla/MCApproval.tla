----------------------------- MODULE MCApproval -----------------------------
(* Instances of Approval small enough for TLC. *)
EXTENDS Approval, TLC

Symmetry == Permutations(ApprovalIds) \cup Permutations(Codes)
              \cup Permutations(ConfirmCalls)
=============================================================================
