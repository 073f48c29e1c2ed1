----------------------------- MODULE ExecuteOnce -----------------------------
(***************************************************************************)
(* What the order service promises the operator: an approved decision is   *)
(* executed at most once, on an approval that was given for it, and an     *)
(* execution is never taken back.                                          *)
(***************************************************************************)
CONSTANTS Tradable, ApprovalIds, OrderIds

VARIABLES
    given,  \* <<approval, decision>>: the approvals given so far
    fills   \* <<order, approval, decision>>: the executions so far

Init == given = {} /\ fills = {}

Give(a, d) ==
    /\ given' = given \cup {<<a, d>>}
    /\ UNCHANGED fills

Fill(o, a, d) ==
    /\ <<a, d>> \in given
    /\ \A f \in fills : f[3] # d
    /\ fills' = fills \cup {<<o, a, d>>}
    /\ UNCHANGED given

Next == \E a \in ApprovalIds, d \in Tradable :
            \/ Give(a, d)
            \/ \E o \in OrderIds : Fill(o, a, d)

Spec == Init /\ [][Next]_<<given, fills>>
=============================================================================
