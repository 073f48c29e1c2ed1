--------------------------- MODULE ApprovalProofs ---------------------------
(***************************************************************************)
(* Proofs about the approval gate, for every set of decisions, requests,   *)
(* codes, operators and confirm calls and every time to live.              *)
(***************************************************************************)
EXTENDS Approval, TLAPS

USE DEF history

USE DecisionsAssumption, OperatorsAssumption, TimesAssumption, NoneAssumption

-----------------------------------------------------------------------------
(* Type correctness *)

\* What a confirm in flight knows: it carries a decision, a code and a
\* permitted operator, and once it has found a request that request exists,
\* belongs to its decision and, past the comparison, has its code.
CallOK(c) ==
    /\ calls[c].pc # "idle" =>
         /\ calls[c].decision \in Decisions
         /\ calls[c].code \in Codes
         /\ calls[c].operator \in Operators
         /\ Permitted(calls[c].operator)
         /\ calls[c].answer = "none"
    /\ calls[c].pc \in {"verify", "grant"} =>
         /\ calls[c].approval \in Inserted
         /\ approvals[calls[c].approval].decision = calls[c].decision
    /\ calls[c].pc = "grant" => CodeMatches(calls[c].approval, c)

CallsOK == \A c \in ConfirmCalls : CallOK(c)

IndType == TypeOK /\ CallsOK

LEMMA InitType == Init => IndType
<1> SUFFICES ASSUME Init PROVE IndType
  OBVIOUS
<1>1. TypeOK
  BY DEF Init, TypeOK, Inserted, Call, IdleCall, Approval
<1>2. CallsOK
  BY DEF Init, CallsOK, CallOK, IdleCall
<1>3. QED
  BY <1>1, <1>2 DEF IndType

\* A rejected call leaves an empty slot, and nothing a call relies on moves.
LEMMA RejectType ==
    ASSUME IndType, NEW c \in ConfirmCalls, NEW a \in {"INVALID", "ERROR"},
           Reject(c, a), guesses' \in [ApprovalIds -> 0..2], UNCHANGED disturbed
    PROVE  IndType'
<1>1. IdleCall(a) \in Call
  BY DEF IdleCall, Call
<1>2. calls' \in [ConfirmCalls -> Call]
  BY <1>1 DEF IndType, TypeOK, Reject
<1>3. TypeOK'
  BY <1>2 DEF IndType, TypeOK, Reject, Inserted
<1>4. CallsOK'
  <2> SUFFICES ASSUME NEW k \in ConfirmCalls PROVE CallOK(k)'
    BY DEF CallsOK
  <2>1. CASE k = c
    BY <2>1 DEF IndType, TypeOK, Reject, IdleCall, CallOK
  <2>2. CASE k # c
    BY <2>2 DEF IndType, TypeOK, CallsOK, CallOK, Reject, Inserted, CodeMatches, Permitted
  <2>3. QED
    BY <2>1, <2>2
<1>5. QED
  BY <1>3, <1>4 DEF IndType

LEMMA NextType == IndType /\ [Next]_vars => IndType'
<1> SUFFICES ASSUME IndType, [Next]_vars PROVE IndType'
  OBVIOUS
<1> USE DEF IndType
<1>1. ASSUME NEW d \in Decisions, NEW id \in ApprovalIds, NEW code \in Codes,
             Create(d, id, code)
      PROVE  IndType'
  <2>1. NewApproval(d, code) \in Approval
    BY <1>1 DEF NewApproval, Approval, TypeOK, Create
  <2>2. approvals' \in [Inserted \cup {id} -> Approval]
    BY <1>1, <2>1 DEF Create, TypeOK
  <2>3. Inserted' = Inserted \cup {id}
    BY <1>1 DEF Create, Inserted
  <2>4. TypeOK'
    BY <1>1, <2>2, <2>3 DEF Create, TypeOK
  <2>5. CallsOK'
    BY <1>1, <2>3 DEF Create, CallsOK, CallOK, CodeMatches, Permitted
  <2>6. QED
    BY <2>4, <2>5
<1>2. ASSUME NEW c \in ConfirmCalls, NEW d \in Decisions, NEW code \in Codes,
             NEW op \in Operators, Reserve(c, d, code, op)
      PROVE  IndType'
  <2>1. TypeOK'
    BY <1>2 DEF Reserve, TypeOK, Inserted, Call, IdleCall
  <2>2. CallsOK'
    BY <1>2 DEF Reserve, TypeOK, CallsOK, CallOK, IdleCall, CodeMatches, Permitted, Inserted
  <2>3. QED
    BY <2>1, <2>2
<1>3. ASSUME NEW c \in ConfirmCalls, NEW d \in Decisions, NEW op \in Operators,
             Refuse(c, d, op)
      PROVE  IndType'
  BY <1>3, RejectType DEF Refuse, TypeOK
<1>4. ASSUME NEW c \in ConfirmCalls, FindPending(c)
      PROVE  IndType'
  <2>1. PICK id \in Pending(calls[c].decision) :
          calls' = [calls EXCEPT ![c].pc = "verify", ![c].approval = id]
    BY <1>4 DEF FindPending
  <2>2. id \in Inserted /\ approvals[id].decision = calls[c].decision
    BY <2>1 DEF Pending
  <2>a. calls[c] \in Call /\ id \in ApprovalIds
    BY <2>2 DEF TypeOK
  <2>b. [calls[c] EXCEPT !.pc = "verify", !.approval = id] \in Call
    BY <2>a DEF Call
  <2>3. TypeOK'
    BY <1>4, <2>1, <2>b DEF FindPending, TypeOK, Inserted
  <2>4. CallsOK'
    BY <1>4, <2>1, <2>2 DEF FindPending, TypeOK, CallsOK, CallOK, CodeMatches, Permitted, Inserted, Call
  <2>5. QED
    BY <2>3, <2>4
<1>5. ASSUME NEW c \in ConfirmCalls, FindNothing(c)
      PROVE  IndType'
  BY <1>5, RejectType DEF FindNothing, TypeOK
<1>6. ASSUME NEW c \in ConfirmCalls, RejectExpired(c)
      PROVE  IndType'
  BY <1>6, RejectType DEF RejectExpired, TypeOK
<1>7. ASSUME NEW c \in ConfirmCalls, CompareCode(c)
      PROVE  IndType'
  <2> DEFINE id == calls[c].approval
  <2>1. id \in ApprovalIds
    BY <1>7 DEF CompareCode, TypeOK, CallsOK, CallOK
  <2>2. guesses' \in [ApprovalIds -> 0..2]
    BY <1>7, <2>1 DEF CompareCode, TypeOK
  <2>3. CASE CodeMatches(id, c) /\ calls' = [calls EXCEPT ![c].pc = "grant"]
             /\ UNCHANGED <<now, approvals, linked, reservedUntil>>
    <3>1. TypeOK'
      BY <1>7, <2>2, <2>3 DEF CompareCode, TypeOK, Inserted, Call
    <3>2. CallsOK'
      BY <1>7, <2>3 DEF CompareCode, TypeOK, CallsOK, CallOK, CodeMatches, Permitted, Inserted, Call
    <3>3. QED
      BY <3>1, <3>2
  <2>4. CASE Reject(c, "INVALID")
    BY <1>7, <2>2, <2>4, RejectType DEF CompareCode
  <2>5. QED
    BY <1>7, <2>3, <2>4 DEF CompareCode
<1>8. ASSUME NEW c \in ConfirmCalls, Grant(c)
      PROVE  IndType'
  <2> DEFINE id == calls[c].approval
  <2>1. id \in Inserted /\ calls[c].operator \in Operators
    BY <1>8 DEF Grant, CallsOK, CallOK
  <2>2. approvals' \in [Inserted -> Approval]
    BY <1>8, <2>1 DEF Grant, TypeOK, Approval
  <2>3. Inserted' = Inserted
    BY <2>2, <1>8 DEF Inserted, Grant, TypeOK
  <2>a. calls[c] \in Call /\ now \in Nat
    BY DEF TypeOK
  <2>b. [calls[c] EXCEPT !.pc = "idle", !.approvedAt = now, !.answer = "APPROVED"] \in Call
    BY <2>a DEF Call
  <2>4. TypeOK'
    BY <1>8, <2>2, <2>3, <2>b DEF Grant, TypeOK
  <2>5. \A i \in Inserted : /\ approvals'[i].decision = approvals[i].decision
                            /\ approvals'[i].code = approvals[i].code
    BY <1>8, <2>1 DEF Grant, TypeOK, Approval
  <2>6. CallsOK'
    BY <1>8, <2>3, <2>5 DEF Grant, TypeOK, CallsOK, CallOK, CodeMatches, Permitted, Call
  <2>7. QED
    BY <2>4, <2>6
<1>9. ASSUME NEW c \in ConfirmCalls, GrantTooLate(c)
      PROVE  IndType'
  BY <1>9, RejectType DEF GrantTooLate, TypeOK
<1>10. ASSUME NEW c \in ConfirmCalls, Fail(c)
       PROVE  IndType'
  BY <1>10, RejectType DEF Fail, TypeOK
<1>11. ASSUME NEW d \in Decisions, LoseKey(d)
       PROVE  IndType'
  BY <1>11 DEF LoseKey, TypeOK, Inserted, CallsOK, CallOK, CodeMatches, Permitted
<1>12. CASE Tick
  BY <1>12 DEF Tick, TypeOK, Inserted, CallsOK, CallOK, CodeMatches, Permitted
<1>13. CASE UNCHANGED vars
  BY <1>13 DEF vars, TypeOK, Inserted, CallsOK, CallOK, CodeMatches, Permitted
<1>14. QED
  BY <1>1, <1>2, <1>3, <1>4, <1>5, <1>6, <1>7, <1>8, <1>9, <1>10, <1>11, <1>12, <1>13
     DEF Next, Confirm

\* Every reachable state is well typed.
THEOREM TypeCorrect == Spec => []TypeOK
<1>1. Spec => []IndType
  BY InitType, NextType, PTL DEF Spec
<1>2. IndType => TypeOK
  BY DEF IndType
<1>3. QED
  BY <1>1, <1>2, PTL
-----------------------------------------------------------------------------
(* Which steps touch the requests *)

\* Requests are only created and granted.
LEMMA NextApprovals ==
    ASSUME IndType, [Next]_vars
    PROVE  \/ UNCHANGED <<approvals, linked>>
           \/ \E d \in Decisions, id \in ApprovalIds, code \in Codes : Create(d, id, code)
           \/ \E c \in ConfirmCalls : Grant(c)
<1>1. CASE UNCHANGED vars
  BY <1>1 DEF vars
<1>2. CASE Next
  BY <1>2 DEF Next, Confirm, Reserve, Refuse, FindPending, FindNothing, RejectExpired,
              CompareCode, GrantTooLate, Fail, Reject, LoseKey, Tick
<1>3. QED
  BY <1>1, <1>2

LEMMA CreateRows ==
    ASSUME IndType, NEW d \in Decisions, NEW id \in ApprovalIds, NEW code \in Codes,
           Create(d, id, code)
    PROVE  /\ Inserted' = Inserted \cup {id}
           /\ approvals'[id] = NewApproval(d, code)
           /\ \A i \in Inserted : approvals'[i] = approvals[i]
           /\ \A e \in Decisions : Pending(e)' = IF e = d THEN {id} ELSE Pending(e)
<1>1. Inserted' = Inserted \cup {id} /\ id \notin Inserted
  BY DEF Create, Inserted
<1>2. approvals'[id] = NewApproval(d, code)
  BY <1>1 DEF Create
<1>3. \A i \in Inserted : approvals'[i] = approvals[i]
  BY <1>1 DEF Create
<1>4. ASSUME NEW e \in Decisions
      PROVE  Pending(e)' = IF e = d THEN {id} ELSE Pending(e)
  <2>1. approvals'[id].decision = d /\ approvals'[id].status = "PENDING"
    BY <1>2 DEF NewApproval
  <2>2. Pending(d) = {}
    BY DEF Create
  <2>3. QED
    BY <1>1, <1>3, <2>1, <2>2 DEF Pending
<1>5. QED
  BY <1>1, <1>2, <1>3, <1>4

LEMMA GrantRows ==
    ASSUME IndType, NEW c \in ConfirmCalls, Grant(c)
    PROVE  LET id == calls[c].approval IN
           /\ Inserted' = Inserted
           /\ id \in Pending(calls[c].decision)
           /\ approvals'[id] = [approvals[id] EXCEPT !.status = "APPROVED", !.approvedAt = now,
                                                     !.approvedBy = calls[c].operator]
           /\ \A i \in Inserted \ {id} : approvals'[i] = approvals[i]
           /\ \A e \in Decisions : Pending(e)' = Pending(e) \ {id}
<1> DEFINE id == calls[c].approval
<1>1. id \in Inserted /\ approvals[id].decision = calls[c].decision
  BY DEF Grant, IndType, CallsOK, CallOK
<1>2. Inserted' = Inserted
  BY DEF Grant, Inserted
<1>3. approvals'[id] = [approvals[id] EXCEPT !.status = "APPROVED", !.approvedAt = now,
                                             !.approvedBy = calls[c].operator]
  BY <1>1 DEF Grant, IndType, TypeOK
<1>4. \A i \in Inserted \ {id} : approvals'[i] = approvals[i]
  BY <1>1 DEF Grant, IndType, TypeOK
<1>5. approvals[id] \in Approval
  BY <1>1 DEF IndType, TypeOK
<1>6. approvals'[id].status = "APPROVED"
  BY <1>3, <1>5 DEF Approval
<1>7. \A e \in Decisions : Pending(e)' = Pending(e) \ {id}
  BY <1>2, <1>4, <1>6 DEF Pending
<1>8. id \in Pending(calls[c].decision)
  BY <1>1 DEF Pending, Grant
<1>9. QED
  BY <1>1, <1>2, <1>3, <1>4, <1>7, <1>8

-----------------------------------------------------------------------------
(* One pending request per decision *)

\* A decision never has two requests waiting for a code, and the one it has
\* is the one it is linked to.
THEOREM PendingLinked == Spec => []PendingIsLinked
<1>1. Init => PendingIsLinked
  BY DEF Init, PendingIsLinked, Pending, Inserted
<1>2. IndType /\ PendingIsLinked /\ [Next]_vars => PendingIsLinked'
  <2> SUFFICES ASSUME IndType, PendingIsLinked, [Next]_vars PROVE PendingIsLinked'
    OBVIOUS
  <2>1. CASE UNCHANGED <<approvals, linked>>
    BY <2>1 DEF PendingIsLinked, Pending, Inserted
  <2>2. ASSUME NEW d \in Decisions, NEW id \in ApprovalIds, NEW code \in Codes,
               Create(d, id, code)
        PROVE  PendingIsLinked'
    <3>1. linked' = [linked EXCEPT ![d] = id] /\ linked \in [Decisions -> ApprovalIds \cup {None}]
      BY <2>2 DEF Create, IndType, TypeOK
    <3>2. \A e \in Decisions : Pending(e)' = IF e = d THEN {id} ELSE Pending(e)
      BY <2>2, CreateRows
    <3>3. ASSUME NEW e \in Decisions PROVE Pending(e)' \subseteq {linked'[e]}
      <4>1. CASE e = d
        BY <3>1, <3>2, <4>1
      <4>2. CASE e # d
        BY <3>1, <3>2, <4>2 DEF PendingIsLinked
      <4>3. QED
        BY <4>1, <4>2
    <3>4. QED
      BY <3>3 DEF PendingIsLinked
  <2>3. ASSUME NEW c \in ConfirmCalls, Grant(c)
        PROVE  PendingIsLinked'
    <3>1. linked' = linked
      BY <2>3 DEF Grant
    <3>2. \A e \in Decisions : Pending(e)' = Pending(e) \ {calls[c].approval}
      BY <2>3, GrantRows
    <3>3. ASSUME NEW e \in Decisions PROVE Pending(e)' \subseteq {linked'[e]}
      BY <3>1, <3>2 DEF PendingIsLinked
    <3>4. QED
      BY <3>3 DEF PendingIsLinked
  <2>4. QED
    BY <2>1, <2>2, <2>3, NextApprovals
<1>3. QED
  BY <1>1, <1>2, InitType, NextType, PTL DEF Spec
-----------------------------------------------------------------------------
(* An approval that was answered stands *)

\* A slot that says APPROVED said so before the step, or the step is its grant.
LEMMA ApprovedAnswer ==
    ASSUME IndType, [Next]_vars, NEW k \in ConfirmCalls, calls'[k].answer = "APPROVED"
    PROVE  calls'[k] = calls[k] \/ Grant(k)
<1> USE DEF IndType
<1>1. ASSUME NEW c \in ConfirmCalls, NEW a \in {"INVALID", "ERROR"}, Reject(c, a)
      PROVE  calls'[k] = calls[k]
  BY <1>1 DEF Reject, IdleCall, TypeOK
<1>2. ASSUME NEW c \in ConfirmCalls, NEW d \in Decisions, NEW code \in Codes,
             NEW op \in Operators, Reserve(c, d, code, op)
      PROVE  calls'[k] = calls[k]
  BY <1>2 DEF Reserve, TypeOK
<1>3. ASSUME NEW c \in ConfirmCalls, FindPending(c)
      PROVE  calls'[k] = calls[k]
  BY <1>3 DEF FindPending, TypeOK, CallsOK, CallOK, Call
<1>4. ASSUME NEW c \in ConfirmCalls, CompareCode(c)
      PROVE  calls'[k] = calls[k]
  <2>1. CASE calls' = [calls EXCEPT ![c].pc = "grant"]
    BY <1>4, <2>1 DEF CompareCode, TypeOK, CallsOK, CallOK, Call
  <2>2. QED
    BY <1>1, <1>4, <2>1 DEF CompareCode
<1>5. ASSUME NEW c \in ConfirmCalls, Grant(c)
      PROVE  calls'[k] = calls[k] \/ Grant(k)
  BY <1>5 DEF Grant, TypeOK
<1>6. QED
  BY <1>1, <1>2, <1>3, <1>4, <1>5
     DEF Next, Confirm, vars, Create, LoseKey, Tick, Refuse, FindNothing, RejectExpired,
         GrantTooLate, Fail

\* Whoever was told APPROVED keeps his approval: no other confirm revises it.
THEOREM AnsweredStands == Spec => []AnsweredApprovalStands
<1>1. Init => AnsweredApprovalStands
  BY DEF Init, AnsweredApprovalStands, IdleCall
<1>2. IndType /\ AnsweredApprovalStands /\ [Next]_vars => AnsweredApprovalStands'
  <2> SUFFICES ASSUME IndType, AnsweredApprovalStands, [Next]_vars,
                      NEW k \in ConfirmCalls, calls'[k].answer = "APPROVED"
               PROVE  Stands(k)'
    BY DEF AnsweredApprovalStands
  <2>1. CASE calls'[k] = calls[k]
    <3> DEFINE id == calls[k].approval
    <3>1. Stands(k)
      BY <2>1 DEF AnsweredApprovalStands
    <3>2. id \in Inserted' /\ approvals'[id] = approvals[id]
      <4>1. CASE UNCHANGED <<approvals, linked>>
        BY <3>1, <4>1 DEF Stands, Inserted
      <4>2. ASSUME NEW d \in Decisions, NEW i \in ApprovalIds, NEW code \in Codes,
                   Create(d, i, code)
            PROVE  id \in Inserted' /\ approvals'[id] = approvals[id]
        BY <3>1, <4>2, CreateRows DEF Stands
      <4>3. ASSUME NEW c \in ConfirmCalls, Grant(c)
            PROVE  id \in Inserted' /\ approvals'[id] = approvals[id]
        <5>1. id # calls[c].approval
          BY <3>1, <4>3 DEF Stands, Grant
        <5>2. QED
          BY <3>1, <4>3, <5>1, GrantRows DEF Stands
      <4>4. QED
        BY <4>1, <4>2, <4>3, NextApprovals
    <3>3. QED
      BY <2>1, <3>1, <3>2 DEF Stands, CodeMatches, Permitted
  <2>2. CASE Grant(k)
    <3> DEFINE id == calls[k].approval
    <3>1. /\ Inserted' = Inserted /\ id \in Inserted
          /\ approvals'[id] = [approvals[id] EXCEPT !.status = "APPROVED", !.approvedAt = now,
                                                    !.approvedBy = calls[k].operator]
      BY <2>2, GrantRows DEF Pending
    <3>2. approvals[id] \in Approval /\ calls[k] \in Call
      BY <3>1 DEF IndType, TypeOK
    <3>3. calls'[k] = [calls[k] EXCEPT !.pc = "idle", !.approvedAt = now, !.answer = "APPROVED"]
      BY <2>2 DEF Grant, IndType, TypeOK
    <3>4. CodeMatches(id, k) /\ Permitted(calls[k].operator)
      BY <2>2 DEF Grant, IndType, CallsOK, CallOK
    <3>5. /\ approvals'[id].decision = approvals[id].decision
          /\ approvals'[id].code = approvals[id].code
          /\ approvals'[id].status = "APPROVED"
          /\ approvals'[id].approvedAt = now
          /\ approvals'[id].approvedBy = calls[k].operator
      BY <3>1, <3>2 DEF Approval
    <3>6. /\ calls'[k].approval = id
          /\ calls'[k].decision = calls[k].decision
          /\ calls'[k].code = calls[k].code
          /\ calls'[k].operator = calls[k].operator
          /\ calls'[k].approvedAt = now
      BY <3>2, <3>3 DEF Call
    <3>7. QED
      BY <3>1, <3>4, <3>5, <3>6 DEF Stands, CodeMatches, Permitted
  <2>3. QED
    BY <2>1, <2>2, ApprovedAnswer
<1>3. QED
  BY <1>1, <1>2, InitType, NextType, PTL DEF Spec
-----------------------------------------------------------------------------
(* Approved within the time to live *)

\* A confirm about to grant has a request that is still alive.
GrantsAlive == \A c \in ConfirmCalls : calls[c].pc = "grant" => ~Expired(calls[c].approval)

\* What has been disturbed stays so.
LEMMA DisturbedStays ==
    ASSUME [Next]_vars
    PROVE  /\ disturbed \subseteq disturbed'
           /\ \A d \in Decisions : LoseKey(d) => "lost" \in disturbed'
           /\ Tick /\ "slow" \notin disturbed' => \A c \in ConfirmCalls : calls[c].pc = "idle"
  BY DEF Next, vars, Create, Confirm, Reserve, Refuse, FindPending, FindNothing, RejectExpired,
         CompareCode, Grant, GrantTooLate, Fail, LoseKey, Tick

Timely == \A id \in Inserted : approvals[id].status = "APPROVED" =>
              approvals[id].approvedAt <= approvals[id].expiresAt

TimeInv == "slow" \notin disturbed => GrantsAlive /\ Timely

LEMMA StepInTime == IndType /\ TimeInv /\ [Next]_vars => TimeInv'
<1> SUFFICES ASSUME IndType, TimeInv, [Next]_vars, "slow" \notin disturbed'
             PROVE  (GrantsAlive /\ Timely)'
  BY DEF TimeInv
<1>0. /\ GrantsAlive /\ Timely
      /\ Tick => \A c \in ConfirmCalls : calls[c].pc = "idle"
  BY DisturbedStays DEF TimeInv
<1>1. Timely'
  <2>1. CASE UNCHANGED <<approvals, linked>>
    BY <1>0, <2>1 DEF Inserted, Timely
  <2>2. ASSUME NEW d \in Decisions, NEW id \in ApprovalIds, NEW code \in Codes,
               Create(d, id, code)
        PROVE  Timely'
    <3>1. /\ Inserted' = Inserted \cup {id}
          /\ approvals'[id] = NewApproval(d, code)
          /\ \A i \in Inserted : approvals'[i] = approvals[i]
      BY <2>2, CreateRows
    <3>2. approvals'[id].status = "PENDING"
      BY <3>1 DEF NewApproval
    <3>3. QED
      BY <1>0, <3>1, <3>2 DEF Timely
  <2>3. ASSUME NEW c \in ConfirmCalls, Grant(c)
        PROVE  Timely'
    <3> DEFINE id == calls[c].approval
    <3>1. /\ Inserted' = Inserted /\ id \in Inserted
          /\ approvals'[id] = [approvals[id] EXCEPT !.status = "APPROVED", !.approvedAt = now,
                                                    !.approvedBy = calls[c].operator]
          /\ \A i \in Inserted \ {id} : approvals'[i] = approvals[i]
      BY <2>3, GrantRows DEF Pending
    <3>2. approvals[id] \in Approval /\ now \in Nat
      BY <3>1 DEF IndType, TypeOK
    <3>3. approvals'[id].approvedAt = now /\ approvals'[id].expiresAt = approvals[id].expiresAt
      BY <3>1, <3>2 DEF Approval
    <3>4. now <= approvals[id].expiresAt
      BY <1>0, <2>3, <3>2 DEF Grant, GrantsAlive, Expired, Approval
    <3>5. QED
      BY <1>0, <3>1, <3>3, <3>4 DEF Timely
  <2>4. QED
    BY <2>1, <2>2, <2>3, NextApprovals
<1>2. GrantsAlive'
  <2> SUFFICES ASSUME NEW k \in ConfirmCalls, calls'[k].pc = "grant"
               PROVE  ~Expired(calls[k].approval)'
    BY DEF GrantsAlive
  <2>1. /\ calls'[k].approval = calls[k].approval
        /\ now' = now
        /\ calls[k].pc = "grant" \/ CompareCode(k)
    <3>1. ASSUME NEW c \in ConfirmCalls, NEW a \in {"INVALID", "ERROR"}, Reject(c, a)
          PROVE  calls'[k] = calls[k] /\ now' = now
      BY <3>1 DEF Reject, IdleCall, IndType, TypeOK
    <3>2. CASE Tick
      BY <1>0, <3>2 DEF Tick
    <3>3. ASSUME NEW c \in ConfirmCalls, FindPending(c)
          PROVE  calls'[k] = calls[k] /\ now' = now
      BY <3>3 DEF FindPending, IndType, TypeOK, Call
    <3>4. ASSUME NEW c \in ConfirmCalls, Grant(c)
          PROVE  calls'[k] = calls[k] /\ now' = now
      BY <3>4 DEF Grant, IndType, TypeOK, Call
    <3>5. ASSUME NEW c \in ConfirmCalls, CompareCode(c)
          PROVE  /\ calls'[k].approval = calls[k].approval
                 /\ now' = now
                 /\ calls[k].pc = "grant" \/ CompareCode(k)
      <4>1. CASE /\ CodeMatches(calls[c].approval, c)
                 /\ calls' = [calls EXCEPT ![c].pc = "grant"]
                 /\ UNCHANGED <<now, approvals, linked, reservedUntil>>
        <5>1. calls[k] \in Call
          BY DEF IndType, TypeOK
        <5>2. CASE k = c
          BY <3>5, <4>1, <5>1, <5>2 DEF IndType, TypeOK, Call
        <5>3. CASE k # c
          BY <4>1, <5>3 DEF IndType, TypeOK
        <5>4. QED
          BY <5>2, <5>3
      <4>2. QED
        BY <3>1, <3>5, <4>1 DEF CompareCode
    <3>6. ASSUME NEW c \in ConfirmCalls, NEW d \in Decisions, NEW code \in Codes,
                 NEW op \in Operators, Reserve(c, d, code, op)
          PROVE  calls'[k] = calls[k] /\ now' = now
      BY <3>6 DEF Reserve, IndType, TypeOK
    <3>7. QED
      BY <3>1, <3>2, <3>3, <3>4, <3>5, <3>6
         DEF Next, Confirm, vars, Create, LoseKey, Refuse, FindNothing, RejectExpired,
             GrantTooLate, Fail
  <2>2. calls[k].approval \in Inserted /\ ~Expired(calls[k].approval)
    BY <1>0, <2>1 DEF GrantsAlive, CompareCode, IndType, CallsOK, CallOK
  <2>3. approvals'[calls[k].approval].expiresAt = approvals[calls[k].approval].expiresAt
    <3>1. ASSUME NEW c \in ConfirmCalls, Grant(c)
          PROVE  approvals'[calls[k].approval].expiresAt = approvals[calls[k].approval].expiresAt
      BY <2>2, <3>1 DEF Grant, IndType, TypeOK, Approval
    <3>2. QED
      BY <2>2, <3>1, CreateRows, NextApprovals
  <2>4. QED
    BY <2>1, <2>2, <2>3 DEF Expired
<1>3. QED
  BY <1>1, <1>2

LEMMA AlwaysTimely == Spec => [](IndType /\ TimeInv)
<1>1. Init => TimeInv
  BY DEF Init, TimeInv, GrantsAlive, Timely, IdleCall, Inserted
<1>2. QED
  BY <1>1, StepInTime, InitType, NextType, PTL DEF Spec

\* As long as the clock waited for confirms in flight, every approval was given
\* within the time to live of its request.
THEOREM InTime == Spec => []ApprovedInTime
<1>1. TimeInv => ApprovedInTime
  BY DEF TimeInv, Timely, ApprovedInTime
<1>2. QED
  BY <1>1, AlwaysTimely, PTL

-----------------------------------------------------------------------------
(* A request that has run out *)

RequestsOf(d) == {id \in Inserted : approvals[id].decision = d}

\* The request of d that waits for its code has expired.
Lapsed(d) == \E id \in Pending(d) : Expired(id)

\* The requests of d stay as they are, and the one that has run out stays PENDING.
Stuck(d) ==
    /\ RequestsOf(d)' = RequestsOf(d)
    /\ \A id \in RequestsOf(d) : approvals'[id] = approvals[id]
    /\ Lapsed(d)'

LEMMA ClockRuns ==
    ASSUME now \in Nat, [Next]_vars
    PROVE  now' \in Nat /\ now <= now'
<1>1. now' = now \/ now' = now + 1
  BY DEF Next, vars, Create, Confirm, Reserve, Refuse, FindPending, FindNothing, RejectExpired,
         CompareCode, Grant, GrantTooLate, Fail, Reject, LoseKey, Tick
<1>2. QED
  BY <1>1

\* A decision whose code has run out is out of reach for good: no confirm, fast
\* ones presumed, approves it, marks its request EXPIRED or changes it at all,
\* and create never gets it another (the transaction of confirm that is rolled
\* back, V003 uq_approval_decision_pending).
THEOREM LapsedForGood ==
    Spec => [][\A d \in Decisions : Lapsed(d) /\ "slow" \notin disturbed' => Stuck(d)]_vars
<1>1. ASSUME IndType, TimeInv, PendingIsLinked, [Next]_vars, NEW d \in Decisions, Lapsed(d),
             "slow" \notin disturbed'
      PROVE  Stuck(d)
  <2>1. GrantsAlive
    BY <1>1, DisturbedStays DEF TimeInv
  <2>2. now \in Nat /\ now' \in Nat /\ now <= now'
    BY <1>1, ClockRuns DEF IndType, TypeOK
  <2>3. PICK id \in Pending(d) : Expired(id)
    BY <1>1 DEF Lapsed
  <2>4. id \in Inserted /\ id \in RequestsOf(d) /\ approvals[id] \in Approval
    BY <1>1, <2>3 DEF Pending, RequestsOf, IndType, TypeOK
  <2>5. /\ RequestsOf(d)' = RequestsOf(d)
        /\ \A i \in RequestsOf(d) : approvals'[i] = approvals[i]
    <3>1. CASE UNCHANGED <<approvals, linked>>
      BY <3>1 DEF RequestsOf, Inserted
    <3>2. ASSUME NEW e \in Decisions, NEW n \in ApprovalIds, NEW code \in Codes,
                 Create(e, n, code)
          PROVE  /\ RequestsOf(d)' = RequestsOf(d)
                 /\ \A i \in RequestsOf(d) : approvals'[i] = approvals[i]
      <4>1. e # d /\ n \notin Inserted
        BY <2>3, <3>2 DEF Create
      <4>2. /\ Inserted' = Inserted \cup {n} /\ approvals'[n] = NewApproval(e, code)
            /\ \A i \in Inserted : approvals'[i] = approvals[i]
        BY <1>1, <3>2, CreateRows
      <4>3. approvals'[n].decision = e
        BY <4>2 DEF NewApproval
      <4>4. QED
        BY <4>1, <4>2, <4>3 DEF RequestsOf
    <3>3. ASSUME NEW c \in ConfirmCalls, Grant(c)
          PROVE  /\ RequestsOf(d)' = RequestsOf(d)
                 /\ \A i \in RequestsOf(d) : approvals'[i] = approvals[i]
      <4> DEFINE g == calls[c].approval
      <4>1. /\ Inserted' = Inserted /\ g \in Pending(calls[c].decision)
            /\ approvals'[g] = [approvals[g] EXCEPT !.status = "APPROVED", !.approvedAt = now,
                                                    !.approvedBy = calls[c].operator]
            /\ \A i \in Inserted \ {g} : approvals'[i] = approvals[i]
        BY <1>1, <3>3, GrantRows
      <4>2. ~Expired(g)
        BY <2>1, <3>3 DEF GrantsAlive, Grant
      <4>3. g # id
        BY <2>3, <4>2
      <4>4. g \in Inserted /\ approvals[g].status = "PENDING"
        BY <4>1 DEF Pending
      <4>5. approvals[g].decision # d
        BY <1>1, <2>3, <4>1, <4>3, <4>4 DEF Pending, PendingIsLinked
      <4>6. approvals[g] \in Approval
        BY <1>1, <4>4 DEF IndType, TypeOK
      <4>7. approvals'[g].decision = approvals[g].decision
        BY <4>1, <4>6 DEF Approval
      <4> HIDE DEF g
      <4>8. /\ \A i \in Inserted : approvals'[i].decision = approvals[i].decision
            /\ g \notin RequestsOf(d)
        BY <4>1, <4>5, <4>7 DEF RequestsOf
      <4>9. QED
        BY <4>1, <4>8 DEF RequestsOf
    <3>4. QED
      BY <1>1, <3>1, <3>2, <3>3, NextApprovals
  <2>6. Lapsed(d)'
    BY <2>2, <2>3, <2>4, <2>5 DEF Lapsed, Pending, Expired, RequestsOf, Approval
  <2>7. QED
    BY <2>5, <2>6 DEF Stuck
<1>2. IndType /\ TimeInv /\ PendingIsLinked /\ [Next]_vars =>
        [\A d \in Decisions : Lapsed(d) /\ "slow" \notin disturbed' => Stuck(d)]_vars
  BY <1>1
<1>3. QED
  BY <1>2, AlwaysTimely, PendingLinked, PTL DEF Spec
-----------------------------------------------------------------------------
(* One guess per code *)

Active(c) == calls[c].pc # "idle"

\* A request that was tried exists, and its decision's key outlives it.
TriedIsLocked ==
    \A id \in ApprovalIds : guesses[id] > 0 =>
        /\ guesses[id] = 1
        /\ id \in Inserted
        /\ reservedUntil[approvals[id].decision] > approvals[id].expiresAt

\* A confirm in flight holds the key of its decision, taken at this instant,
\* alone; and what it has yet to compare was not tried while alive.
HoldsKey ==
    \A c \in ConfirmCalls : Active(c) =>
        /\ reservedUntil[calls[c].decision] = now + ReserveTtl
        /\ \A k \in ConfirmCalls : Active(k) /\ calls[k].decision = calls[c].decision => k = c
        /\ calls[c].pc \in {"lookup", "verify"} =>
             \A id \in Inserted : approvals[id].decision = calls[c].decision /\ guesses[id] > 0
                                 => Expired(id)

ExpirySoon == \A id \in Inserted : approvals[id].expiresAt <= now + ApprovalTtl

GuessInv == TriedIsLocked /\ HoldsKey /\ ExpirySoon

\* The steps of a call that leave requests, keys, guesses and clock alone and
\* keep its decision, or free its slot.
LEMMA QuietGuess ==
    ASSUME IndType, GuessInv, NEW c \in ConfirmCalls,
           UNCHANGED <<now, approvals, reservedUntil, guesses>>,
           \A k \in ConfirmCalls \ {c} : calls'[k] = calls[k],
           \/ calls'[c].pc = "idle"
           \/ /\ Active(c)
              /\ calls'[c].decision = calls[c].decision
              /\ calls'[c].pc \in {"lookup", "verify"} => calls[c].pc \in {"lookup", "verify"}
    PROVE  GuessInv'
<1>1. Inserted' = Inserted
  BY DEF Inserted
<1>2. TriedIsLocked' /\ ExpirySoon'
  BY <1>1 DEF GuessInv, TriedIsLocked, ExpirySoon
<1>3. ASSUME NEW k \in ConfirmCalls, Active(k)'
      PROVE  /\ Active(k)
             /\ calls'[k].decision = calls[k].decision
             /\ calls'[k].pc \in {"lookup", "verify"} => calls[k].pc \in {"lookup", "verify"}
  BY <1>3 DEF Active
<1>4. HoldsKey'
  BY <1>1, <1>3 DEF GuessInv, HoldsKey, Expired, Active
<1>5. QED
  BY <1>2, <1>4 DEF GuessInv
\* As long as confirms were fast and Redis kept its keys, and if the key outlives
\* the code, at most one code was tried against a live request.
THEOREM OneGuess ==
    ASSUME ReserveTtl > ApprovalTtl
    PROVE  Spec => []OneGuessPerCode
<1> DEFINE Inv == disturbed = {} => GuessInv
<1>1. Init => Inv
  BY DEF Init, GuessInv, TriedIsLocked, HoldsKey, ExpirySoon, Active, IdleCall, Inserted
<1>2. IndType /\ Inv /\ [Next]_vars => Inv'
  <2> SUFFICES ASSUME IndType, Inv, [Next]_vars, disturbed' = {} PROVE GuessInv'
    OBVIOUS
  <2>0. GuessInv /\ (Tick => \A c \in ConfirmCalls : ~Active(c))
        /\ \A d \in Decisions : ~LoseKey(d)
    BY DisturbedStays DEF Active
  <2>1. ASSUME NEW d \in Decisions, NEW id \in ApprovalIds, NEW code \in Codes,
               Create(d, id, code)
        PROVE  GuessInv'
    <3>1. /\ Inserted' = Inserted \cup {id}
          /\ approvals'[id] = NewApproval(d, code)
          /\ \A i \in Inserted : approvals'[i] = approvals[i]
          /\ id \notin Inserted
          /\ UNCHANGED <<now, reservedUntil, calls, guesses>>
      BY <2>1, CreateRows DEF Create
    <3>2. ~(guesses[id] > 0)
      BY <2>0, <3>1 DEF GuessInv, TriedIsLocked
    <3>3. approvals'[id].expiresAt = now + ApprovalTtl
      BY <3>1 DEF NewApproval
    <3>4. TriedIsLocked'
      BY <2>0, <3>1, <3>2 DEF GuessInv, TriedIsLocked
    <3>5. HoldsKey'
      BY <2>0, <3>1, <3>2 DEF GuessInv, HoldsKey, Active, Expired
    <3>6. ExpirySoon'
      BY <2>0, <3>1, <3>3 DEF GuessInv, ExpirySoon, IndType, TypeOK
    <3>7. QED
      BY <2>0, <3>4, <3>5, <3>6 DEF GuessInv
  <2>2. ASSUME NEW c \in ConfirmCalls, NEW d \in Decisions, NEW code \in Codes,
               NEW op \in Operators, Reserve(c, d, code, op)
        PROVE  GuessInv'
    <3>1. /\ UNCHANGED <<now, approvals, guesses>>
          /\ reservedUntil' = [reservedUntil EXCEPT ![d] = now + ReserveTtl]
          /\ reservedUntil[d] <= now
          /\ Inserted' = Inserted
          /\ calls[c].pc = "idle"
      BY <2>2 DEF Reserve, Reserved, Inserted, IndType, TypeOK
    <3>2. /\ calls'[c].pc = "lookup" /\ calls'[c].decision = d
          /\ \A k \in ConfirmCalls \ {c} : calls'[k] = calls[k]
      BY <2>2 DEF Reserve, IndType, TypeOK
    <3>3. \A id \in Inserted : approvals[id].expiresAt < now + ReserveTtl
      BY <2>0 DEF GuessInv, ExpirySoon, IndType, TypeOK, Approval
    <3>4. TriedIsLocked'
      <4> SUFFICES ASSUME NEW id \in ApprovalIds, guesses[id] > 0
                   PROVE  /\ guesses[id] = 1
                          /\ id \in Inserted
                          /\ reservedUntil'[approvals[id].decision] > approvals[id].expiresAt
        BY <3>1 DEF TriedIsLocked
      <4>1. /\ guesses[id] = 1 /\ id \in Inserted
            /\ reservedUntil[approvals[id].decision] > approvals[id].expiresAt
        BY <2>0 DEF GuessInv, TriedIsLocked
      <4>2. approvals[id].decision \in Decisions
        BY <4>1 DEF IndType, TypeOK, Approval
      <4>3. CASE approvals[id].decision = d
        BY <3>1, <3>3, <4>1, <4>2, <4>3 DEF IndType, TypeOK, Approval
      <4>4. CASE approvals[id].decision # d
        BY <3>1, <4>1, <4>2, <4>4 DEF IndType, TypeOK
      <4>5. QED
        BY <4>1, <4>3, <4>4
    <3>5. \A k \in ConfirmCalls : Active(k) => calls[k].decision # d
      <4> SUFFICES ASSUME NEW k \in ConfirmCalls, Active(k), calls[k].decision = d PROVE FALSE
        OBVIOUS
      <4>1. reservedUntil[d] = now + ReserveTtl
        BY <2>0 DEF GuessInv, HoldsKey
      <4>2. QED
        BY <3>1, <4>1 DEF IndType, TypeOK
    <3>6. \A id \in Inserted : approvals[id].decision = d /\ guesses[id] > 0 => Expired(id)
      <4> SUFFICES ASSUME NEW id \in Inserted, approvals[id].decision = d, guesses[id] > 0
                   PROVE  Expired(id)
        OBVIOUS
      <4>1. reservedUntil[d] > approvals[id].expiresAt
        BY <2>0 DEF GuessInv, TriedIsLocked, IndType, TypeOK
      <4>2. QED
        BY <3>1, <4>1 DEF Expired, IndType, TypeOK, Approval
    <3>7. HoldsKey'
      <4> SUFFICES ASSUME NEW k \in ConfirmCalls, Active(k)'
                   PROVE  /\ reservedUntil'[calls'[k].decision] = now + ReserveTtl
                          /\ \A j \in ConfirmCalls : Active(j)' /\ calls'[j].decision = calls'[k].decision
                                                      => j = k
                          /\ calls'[k].pc \in {"lookup", "verify"} =>
                               \A id \in Inserted :
                                 approvals[id].decision = calls'[k].decision /\ guesses[id] > 0
                                   => Expired(id)
        BY <3>1 DEF HoldsKey, Expired, Active
      <4>1. CASE k = c
        BY <3>1, <3>2, <3>5, <3>6, <4>1 DEF Active, IndType, TypeOK
      <4>2. CASE k # c
        <5>1. calls'[k] = calls[k] /\ Active(k)
          BY <3>2, <4>2 DEF Active
        <5>2. calls[k].decision \in Decisions /\ calls[k].decision # d
          BY <3>5, <5>1 DEF IndType, CallsOK, CallOK, Active
        <5>3. QED
          BY <2>0, <3>1, <3>2, <4>2, <5>1, <5>2 DEF GuessInv, HoldsKey, Active, IndType, TypeOK
      <4>3. QED
        BY <4>1, <4>2
    <3>8. ExpirySoon'
      BY <2>0, <3>1 DEF GuessInv, ExpirySoon
    <3>9. QED
      BY <2>0, <3>4, <3>7, <3>8 DEF GuessInv
  <2>3. ASSUME NEW c \in ConfirmCalls, NEW a \in {"INVALID", "ERROR"}, Reject(c, a), guesses' = guesses
        PROVE  GuessInv'
    <3>1. calls'[c].pc = "idle" /\ \A k \in ConfirmCalls \ {c} : calls'[k] = calls[k]
      BY <2>3 DEF Reject, IdleCall, IndType, TypeOK
    <3>2. QED
      BY <2>0, <2>3, <3>1, QuietGuess DEF Reject
  <2>4. ASSUME NEW c \in ConfirmCalls, FindPending(c)
        PROVE  GuessInv'
    <3>1. calls[c] \in Call /\ calls[c].pc = "lookup"
      BY <2>4 DEF FindPending, IndType, TypeOK
    <3>2. /\ calls'[c].pc = "verify" /\ calls'[c].decision = calls[c].decision
          /\ \A k \in ConfirmCalls \ {c} : calls'[k] = calls[k]
      BY <2>4, <3>1 DEF FindPending, IndType, TypeOK, Call
    <3>3. QED
      BY <2>0, <2>4, <3>1, <3>2, QuietGuess DEF FindPending, Active
  <2>5. ASSUME NEW c \in ConfirmCalls, CompareCode(c)
        PROVE  GuessInv'
    <3> DEFINE id == calls[c].approval
    <3>1. /\ id \in Inserted /\ id \in ApprovalIds /\ ~Expired(id)
          /\ approvals[id].decision = calls[c].decision
          /\ calls[c].decision \in Decisions
          /\ calls[c].pc = "verify"
      BY <2>5 DEF CompareCode, IndType, TypeOK, CallsOK, CallOK
    <3>2. guesses[id] = 0
      BY <2>0, <3>1 DEF GuessInv, HoldsKey, Active, IndType, TypeOK
    <3>3. guesses' = [guesses EXCEPT ![id] = 1]
      BY <2>5, <3>2 DEF CompareCode
    <3>4. /\ UNCHANGED <<now, approvals, reservedUntil>>
          /\ Inserted' = Inserted
          /\ \A k \in ConfirmCalls \ {c} : calls'[k] = calls[k]
          /\ calls'[c].pc \in {"idle", "grant"}
          /\ calls'[c].pc = "grant" => calls'[c].decision = calls[c].decision
      <4>1. CASE calls' = [calls EXCEPT ![c].pc = "grant"] /\ UNCHANGED <<now, approvals, linked, reservedUntil>>
        <5>1. calls[c] \in Call
          BY DEF IndType, TypeOK
        <5>2. QED
          BY <4>1, <5>1 DEF IndType, TypeOK, Call, Inserted
      <4>2. CASE Reject(c, "INVALID")
        BY <4>2 DEF Reject, IdleCall, IndType, TypeOK, Inserted
      <4>3. QED
        BY <2>5, <4>1, <4>2 DEF CompareCode
    <3>5. reservedUntil[calls[c].decision] > approvals[id].expiresAt
      <4>1. reservedUntil[calls[c].decision] = now + ReserveTtl
        BY <2>0, <3>1 DEF GuessInv, HoldsKey, Active
      <4>2. approvals[id].expiresAt <= now + ApprovalTtl /\ approvals[id].expiresAt \in Nat
        BY <2>0, <3>1 DEF GuessInv, ExpirySoon, IndType, TypeOK, Approval
      <4>3. QED
        BY <4>1, <4>2 DEF IndType, TypeOK
    <3>6. TriedIsLocked'
      BY <2>0, <3>1, <3>3, <3>4, <3>5 DEF GuessInv, TriedIsLocked, IndType, TypeOK
    <3>7. HoldsKey'
      <4> SUFFICES ASSUME NEW k \in ConfirmCalls, Active(k)'
                   PROVE  /\ reservedUntil[calls'[k].decision] = now + ReserveTtl
                          /\ \A j \in ConfirmCalls : Active(j)' /\ calls'[j].decision = calls'[k].decision
                                                      => j = k
                          /\ calls'[k].pc \in {"lookup", "verify"} =>
                               \A i \in Inserted :
                                 approvals[i].decision = calls'[k].decision /\ guesses'[i] > 0
                                   => Expired(i)
        BY <3>4 DEF HoldsKey, Expired, Active
      <4>1. \A j \in ConfirmCalls : Active(j)' => Active(j) /\ calls'[j].decision = calls[j].decision
        BY <3>1, <3>4 DEF Active
      <4>2. CASE k = c
        BY <2>0, <3>1, <3>4, <4>1, <4>2 DEF GuessInv, HoldsKey, Active
      <4>3. CASE k # c
        <5>1. calls'[k] = calls[k] /\ calls[k].decision # calls[c].decision
          BY <2>0, <3>1, <3>4, <4>1, <4>3 DEF GuessInv, HoldsKey, Active
        <5>2. \A i \in Inserted : approvals[i].decision = calls[k].decision => guesses'[i] = guesses[i]
          BY <3>1, <3>3, <5>1 DEF IndType, TypeOK
        <5>3. QED
          BY <2>0, <4>1, <5>1, <5>2 DEF GuessInv, HoldsKey
      <4>4. QED
        BY <4>2, <4>3
    <3>8. ExpirySoon'
      BY <2>0, <3>4 DEF GuessInv, ExpirySoon
    <3>9. QED
      BY <2>0, <3>6, <3>7, <3>8 DEF GuessInv
  <2>6. ASSUME NEW c \in ConfirmCalls, Grant(c)
        PROVE  GuessInv'
    <3> DEFINE id == calls[c].approval
    <3>1. /\ Inserted' = Inserted
          /\ UNCHANGED <<now, reservedUntil, guesses>>
          /\ calls'[c].pc = "idle"
          /\ \A k \in ConfirmCalls \ {c} : calls'[k] = calls[k]
      <4>1. Inserted' = Inserted
        BY <2>6, GrantRows
      <4>2. calls[c] \in Call
        BY DEF IndType, TypeOK
      <4>3. QED
        BY <2>6, <4>1, <4>2 DEF Grant, IndType, TypeOK, Call
    <3>2. \A i \in Inserted : /\ approvals'[i].decision = approvals[i].decision
                             /\ approvals'[i].expiresAt = approvals[i].expiresAt
      BY <2>6 DEF Grant, IndType, TypeOK, Approval
    <3>3. TriedIsLocked' /\ ExpirySoon'
      BY <2>0, <3>1, <3>2 DEF GuessInv, TriedIsLocked, ExpirySoon
    <3>4. \A k \in ConfirmCalls : Active(k)' => Active(k) /\ calls'[k] = calls[k]
      BY <3>1 DEF Active
    <3>5. HoldsKey'
      BY <2>0, <3>1, <3>2, <3>4 DEF GuessInv, HoldsKey, Active, Expired
    <3>6. QED
      BY <2>0, <3>3, <3>5 DEF GuessInv
  <2>7. CASE Tick
    <3>1. /\ \A c \in ConfirmCalls : ~Active(c) /\ ~Active(c)'
          /\ now' = now + 1
          /\ UNCHANGED <<approvals, reservedUntil, guesses>>
      BY <2>0, <2>7 DEF Tick, Active
    <3>2. TriedIsLocked' /\ HoldsKey'
      BY <2>0, <3>1 DEF GuessInv, TriedIsLocked, HoldsKey, Inserted
    <3>3. ExpirySoon'
      BY <2>0, <3>1 DEF GuessInv, ExpirySoon, Inserted, IndType, TypeOK, Approval
    <3>4. QED
      BY <2>0, <3>2, <3>3 DEF GuessInv
  <2>8. CASE UNCHANGED vars
    BY <2>0, <2>8 DEF vars, GuessInv, TriedIsLocked, HoldsKey, ExpirySoon, Active, Expired, Inserted
  <2>9. QED
    BY <2>0, <2>1, <2>2, <2>3, <2>4, <2>5, <2>6, <2>7, <2>8
       DEF Next, Confirm, Refuse, FindNothing, RejectExpired, GrantTooLate, Fail, LoseKey
<1>3. IndType /\ Inv => OneGuessPerCode
  BY DEF GuessInv, TriedIsLocked, OneGuessPerCode, IndType, TypeOK
<1>4. QED
  BY <1>1, <1>2, <1>3, InitType, NextType, PTL DEF Spec
-----------------------------------------------------------------------------
(* The service implements the gate *)

\* The service, its requests and confirms, implements the gate the order
\* service relies on: one open request of a decision at a time, each granted
\* at most once, by a permitted operator, and never revised.
THEOREM ImplementsGate == Spec => GateSpec
<1> USE DEF PermittedOps, Approved, GrantOf, OpenRequests, GivenGrants
<1>1. Init => Gate!Init
  BY DEF Init, Gate!Init, Pending, Inserted
<1>2. IndType /\ PendingIsLinked /\ [Next]_vars => [Gate!Next]_<<now, OpenRequests, GivenGrants>>
  <2> SUFFICES ASSUME IndType, PendingIsLinked, [Next]_vars
               PROVE  [Gate!Next]_<<now, OpenRequests, GivenGrants>>
    OBVIOUS
  <2>1. ASSUME NEW d \in Decisions, NEW id \in ApprovalIds, NEW code \in Codes,
               Create(d, id, code)
        PROVE  d \in Tradable /\ Gate!Offer(d, id)
    <3>1. d \in Tradable /\ id \notin Inserted /\ Pending(d) = {} /\ now' = now
      BY <2>1 DEF Create
    <3>2. /\ Inserted' = Inserted \cup {id}
          /\ approvals'[id] = NewApproval(d, code)
          /\ \A i \in Inserted : approvals'[i] = approvals[i]
      BY <2>1, CreateRows
    <3>3. \A e \in Decisions : Pending(e)' = IF e = d THEN {id} ELSE Pending(e)
      BY <2>1, CreateRows
    <3>4. OpenRequests' = [OpenRequests EXCEPT ![d] = {id}]
      <4>1. \A e \in Tradable : Pending(e)' = IF e = d THEN {id} ELSE Pending(e)
        BY <3>3
      <4>2. QED
        BY <3>1, <4>1
    <3>5. Approved' = Approved
      BY <3>2 DEF NewApproval
    <3>6. GivenGrants' = GivenGrants
      BY <3>1, <3>2, <3>5
    <3>7. id \notin {g.approval : g \in GivenGrants}
      BY <3>1
    <3>8. id \notin UNION {OpenRequests[e] : e \in Tradable}
      BY <3>1 DEF Pending
    <3>9. QED
      BY <3>1, <3>4, <3>6, <3>7, <3>8 DEF Gate!Offer, Gate!Granted
  <2>2. ASSUME NEW c \in ConfirmCalls, Grant(c)
        PROVE  \E d \in Tradable, id \in ApprovalIds, op \in PermittedOps : Gate!GrantOffer(d, id, op)
    <3>0. calls[c].operator \in PermittedOps /\ calls[c].decision \in Decisions
      BY <2>2 DEF Grant, IndType, CallsOK, CallOK
    <3>a. PICK id \in Inserted, d \in Decisions, op \in PermittedOps :
            id = calls[c].approval /\ d = calls[c].decision /\ op = calls[c].operator
      BY <2>2, <3>0 DEF Grant, IndType, CallsOK, CallOK
    <3>1. /\ Inserted' = Inserted
          /\ id \in Pending(d)
          /\ \A i \in Inserted \ {id} : approvals'[i] = approvals[i]
      BY <2>2, <3>a, GrantRows
    <3>2. id \in Inserted /\ id \in ApprovalIds /\ approvals[id].decision = d /\ d \in Tradable
      BY <3>1 DEF Pending, IndType, TypeOK, Approval
    <3>4. Pending(d) = {id}
      BY <3>1 DEF PendingIsLinked
    <3>5. \A e \in Decisions : Pending(e)' = Pending(e) \ {id}
      BY <2>2, <3>a, GrantRows
    <3>6. OpenRequests' = [OpenRequests EXCEPT ![d] = {}]
      <4>1. \A e \in Tradable : Pending(e)' = IF e = d THEN {} ELSE Pending(e)
        BY <3>2, <3>4, <3>5 DEF Pending
      <4>2. QED
        BY <3>2, <4>1
    <3>7. /\ approvals'[id].decision = d /\ approvals'[id].status = "APPROVED"
          /\ approvals'[id].approvedAt = now /\ approvals'[id].approvedBy = op
      <4>1. approvals[id] \in Approval
        BY <3>2 DEF IndType, TypeOK
      <4>2. approvals'[id] = [approvals[id] EXCEPT !.status = "APPROVED", !.approvedAt = now,
                                                  !.approvedBy = op]
        BY <2>2, <3>a, GrantRows
      <4>3. QED
        BY <3>2, <4>1, <4>2 DEF Approval
    <3>8. Approved' = Approved \cup {id}
      BY <3>1, <3>2, <3>7
    <3>9. id \notin Approved
      BY <2>2, <3>a DEF Grant
    <3>10. GivenGrants' = GivenGrants \cup {[approval |-> id, decision |-> d, at |-> now, by |-> op]}
      <4> DEFINE g == [approval |-> id, decision |-> d, at |-> now, by |-> op]
      <4>1. \A i \in Approved : approvals'[i] = approvals[i]
        BY <3>1, <3>9
      <4>2. ASSUME NEW x \in GivenGrants' PROVE x \in GivenGrants \cup {g}
        <5>1. PICK i \in Approved \cup {id} : x = GrantOf(i)'
          BY <3>8
        <5>2. QED
          BY <3>7, <4>1, <5>1
      <4>3. ASSUME NEW x \in GivenGrants \cup {g} PROVE x \in GivenGrants'
        <5>1. CASE x = g
          BY <3>7, <3>8, <5>1
        <5>2. ASSUME NEW i \in Approved, x = GrantOf(i) PROVE x \in GivenGrants'
          BY <3>8, <4>1, <5>2
        <5>3. QED
          BY <5>1, <5>2
      <4>4. QED
        BY <4>2, <4>3
    <3>11. now' = now
      BY <2>2 DEF Grant
    <3>12. Gate!GrantOffer(d, id, op)
      BY <3>1, <3>2, <3>6, <3>10, <3>11 DEF Gate!GrantOffer
    <3>13. QED
      BY <3>2, <3>12
  <2>3. CASE UNCHANGED <<approvals, linked>>
    <3>1. UNCHANGED <<OpenRequests, GivenGrants>>
      BY <2>3 DEF Pending, Inserted
    <3>2. now' = now \/ now' = now + 1
      BY DEF Next, vars, Create, Confirm, Reserve, Refuse, FindPending, FindNothing,
             RejectExpired, CompareCode, Grant, GrantTooLate, Fail, Reject, LoseKey, Tick
    <3>3. QED
      BY <3>1, <3>2 DEF Gate!Next, Gate!Tick
  <2>4. QED
    BY <2>1, <2>2, <2>3, NextApprovals DEF Gate!Next
<1>3. QED
  BY <1>1, <1>2, InitType, NextType, PendingLinked, PTL DEF Spec, GateSpec, Gate!Spec
=============================================================================
