----------------------------- MODULE ApprovalGate -----------------------------
(***************************************************************************)
(* What the approval gate promises to the order service.  A tradable       *)
(* decision may be offered for approval under one open request at a time;  *)
(* a request is granted at most once, by a permitted operator, and a grant *)
(* is never revised.  How codes, expiry, retries and the replay lock decide*)
(* which offers are granted is left to Approval, which implements this.    *)
(***************************************************************************)
EXTENDS Naturals

CONSTANTS Tradable, ApprovalIds, PermittedOperators

VARIABLES
    now,    \* the clock
    open,   \* decision -> its open request, a set of at most one id
    grants  \* the approvals given so far

Grants == [approval : ApprovalIds, decision : Tradable,
           at : Nat, by : PermittedOperators]

Granted == {g.approval : g \in grants}

Init ==
    /\ now = 0
    /\ open = [d \in Tradable |-> {}]
    /\ grants = {}

Offer(d, id) ==
    /\ open[d] = {}
    /\ id \notin Granted \cup UNION {open[e] : e \in Tradable}
    /\ open' = [open EXCEPT ![d] = {id}]
    /\ UNCHANGED <<now, grants>>

GrantOffer(d, id, op) ==
    /\ id \in open[d]
    /\ open' = [open EXCEPT ![d] = {}]
    /\ grants' = grants \cup {[approval |-> id, decision |-> d, at |-> now, by |-> op]}
    /\ UNCHANGED now

Tick ==
    /\ now' = now + 1
    /\ UNCHANGED <<open, grants>>

Next ==
    \/ \E d \in Tradable, id \in ApprovalIds : Offer(d, id)
    \/ \E d \in Tradable, id \in ApprovalIds, op \in PermittedOperators : GrantOffer(d, id, op)
    \/ Tick

Spec == Init /\ [][Next]_<<now, open, grants>>
=============================================================================
