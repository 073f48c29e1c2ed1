------------------------------ MODULE Approval ------------------------------
(***************************************************************************)
(* The approval gate of the control API: ApprovalService.create issues a   *)
(* one-time code for a decision, ApprovalService.confirm turns the pending *)
(* request into an approval.                                               *)
(*                                                                         *)
(* create is one database transaction and one step here.  confirm touches  *)
(* Redis, the database and the clock in turn while other confirms run, so  *)
(* each of its accesses to shared state is a step:                         *)
(*                                                                         *)
(*   idle --SETNX--> lookup --SELECT--> verify --clock, hash--> grant      *)
(*                                                                         *)
(* and the last step is the conditional UPDATE with its commit.            *)
(***************************************************************************)
EXTENDS Naturals, FiniteSets

CONSTANTS
    Decisions,      \* rows of decision_log
    Tradable,       \* those with risk_status = 'PASS' and json_valid
    ApprovalIds,    \* ids approval_request may hand out
    Codes,          \* the one-time codes
    Operators,      \* the values of approvedBy, trimmed and lower-cased
    Allowlist,      \* APPROVAL_OPERATORS; empty lets every operator confirm
    ConfirmCalls,   \* request threads inside confirm
    ApprovalTtl,    \* APPROVAL_TTL_MINUTES
    ReserveTtl,     \* lifetime of the Redis key approval:confirm:<decision>
    MaxTime,        \* bound on the clock
    None            \* the absent value

ASSUME DecisionsAssumption == Tradable \subseteq Decisions
ASSUME OperatorsAssumption == Allowlist \subseteq Operators
ASSUME TimesAssumption ==
    /\ ApprovalTtl \in Nat \ {0}
    /\ ReserveTtl \in Nat \ {0}
    /\ MaxTime \in Nat
ASSUME NoneAssumption == None \notin ApprovalIds \cup Decisions \cup Codes \cup Operators

VARIABLES
    now,            \* the clock shared by the JVM, Redis and Postgres
    approvals,      \* approval_request: id -> row, for the ids inserted
    linked,         \* decision_log.approval_id
    reservedUntil,  \* expiry of the Redis key of each decision
    calls,          \* the confirm requests
    guesses,        \* history: codes compared with each live request, up to two
    disturbed       \* history: whether a confirm was slow, a key lost

history == <<guesses, disturbed>>
vars == <<now, approvals, linked, reservedUntil, calls, history>>

-----------------------------------------------------------------------------
(* Types *)

Approval == [decision   : Tradable,
             code       : Codes,
             expiresAt  : Nat,
             status     : {"PENDING", "APPROVED", "EXPIRED"},
             approvedAt : Nat,
             approvedBy : Operators \cup {None}]

\* answer is what the last caller of the slot was told; "ERROR" is a 500 or
\* an answer that never came.
Call == [pc         : {"idle", "lookup", "verify", "grant"},
         decision   : Decisions \cup {None},
         code       : Codes \cup {None},
         operator   : Operators \cup {None},
         approval   : ApprovalIds \cup {None},
         approvedAt : Nat,
         answer     : {"none", "APPROVED", "INVALID", "ERROR"}]

\* A slot without a request, whose last caller got answer a.
IdleCall(a) == [pc |-> "idle", decision |-> None, code |-> None, operator |-> None,
                approval |-> None, approvedAt |-> 0, answer |-> a]

Inserted == DOMAIN approvals

TypeOK ==
    /\ now \in Nat
    /\ Inserted \subseteq ApprovalIds
    /\ approvals \in [Inserted -> Approval]
    /\ linked \in [Decisions -> ApprovalIds \cup {None}]
    /\ reservedUntil \in [Decisions -> Nat]
    /\ calls \in [ConfirmCalls -> Call]
    /\ guesses \in [ApprovalIds -> 0..2]
    /\ disturbed \subseteq {"slow", "lost"}

-----------------------------------------------------------------------------
(* Reading the state *)

\* The rows of uq_approval_decision_pending for decision d.
Pending(d) == {id \in Inserted : /\ approvals[id].decision = d
                                 /\ approvals[id].status = "PENDING"}

Permitted(op) == Allowlist = {} \/ op \in Allowlist

Reserved(d) == reservedUntil[d] > now

\* Mutant of Expired: takes expires_at for the time of creation.
ExpiredLate(id) == now > approvals[id].expiresAt + ApprovalTtl

\* Instant.now().isAfter(expiresAt)
Expired(id) == now > approvals[id].expiresAt

\* The hash stored with the request is that of its decision and its code.
CodeMatches(id, c) == <<approvals[id].decision, approvals[id].code>>
                        = <<calls[c].decision, calls[c].code>>

-----------------------------------------------------------------------------
(* Initial state: no request, every call slot free *)

Init ==
    /\ now = 0
    /\ approvals = [id \in {} |-> {}]
    /\ linked = [d \in Decisions |-> None]
    /\ reservedUntil = [d \in Decisions |-> 0]
    /\ calls = [c \in ConfirmCalls |-> IdleCall("none")]
    /\ guesses = [id \in ApprovalIds |-> 0]
    /\ disturbed = {}

-----------------------------------------------------------------------------
(* ApprovalService.create *)

NewApproval(d, code) ==
    [decision |-> d, code |-> code, expiresAt |-> now + ApprovalTtl,
     status |-> "PENDING", approvedAt |-> 0, approvedBy |-> None]

\* Mutant of Create: without the unique index on pending requests.
CreateAnother(d, id, code) ==
    /\ d \in Tradable
    /\ id \notin Inserted
    /\ approvals' = [i \in Inserted \cup {id} |->
                        IF i = id THEN NewApproval(d, code) ELSE approvals[i]]
    /\ linked' = [linked EXCEPT ![d] = id]
    /\ UNCHANGED <<now, reservedUntil, calls, history>>

\* Mutant of Create: the decision keeps the approval_id it had.
CreateUnlinked(d, id, code) ==
    /\ d \in Tradable
    /\ id \notin Inserted
    /\ Pending(d) = {}
    /\ approvals' = [i \in Inserted \cup {id} |->
                        IF i = id THEN NewApproval(d, code) ELSE approvals[i]]
    /\ linked' = [linked EXCEPT ![d] = IF @ = None THEN id ELSE @]
    /\ UNCHANGED <<now, reservedUntil, calls, history>>

\* Mutant of Create: the parameters of the UPDATE of the decision mixed up.
CreateLinkedToCode(d, id, code) ==
    /\ d \in Tradable
    /\ id \notin Inserted
    /\ Pending(d) = {}
    /\ approvals' = [i \in Inserted \cup {id} |->
                        IF i = id THEN NewApproval(d, code) ELSE approvals[i]]
    /\ linked' = [linked EXCEPT ![d] = code]
    /\ UNCHANGED <<now, reservedUntil, calls, history>>

\* Inserts the request and links the decision to it.  A decision that is not
\* tradable, or that has a pending request (the unique index), gets an error
\* and the transaction leaves nothing behind.
Create(d, id, code) ==
    /\ d \in Tradable
    /\ id \notin Inserted
    /\ Pending(d) = {}
    /\ approvals' = [i \in Inserted \cup {id} |->
                        IF i = id THEN NewApproval(d, code) ELSE approvals[i]]
    /\ linked' = [linked EXCEPT ![d] = id]
    /\ UNCHANGED <<now, reservedUntil, calls, history>>

-----------------------------------------------------------------------------
(* ApprovalService.confirm *)

\* The call ends with an exception: its transaction rolls back, what it did
\* to Redis stays.
Reject(c, answer) ==
    /\ calls' = [calls EXCEPT ![c] = IdleCall(answer)]
    /\ UNCHANGED <<now, approvals, linked, reservedUntil>>

\* Mutant of Reserve: the key does not outlive the request.
ReserveBriefly(c, d, code, op) ==
    /\ calls[c].pc = "idle"
    /\ Permitted(op)
    /\ ~Reserved(d)
    /\ reservedUntil' = [reservedUntil EXCEPT ![d] = now + 1]
    /\ calls' = [calls EXCEPT ![c] =
                    [pc |-> "lookup", decision |-> d, code |-> code, operator |-> op,
                     approval |-> None, approvedAt |-> 0, answer |-> "none"]]
    /\ UNCHANGED <<now, approvals, linked, history>>

\* The operator may confirm and SETNX took the key of the decision.
Reserve(c, d, code, op) ==
    /\ calls[c].pc = "idle"
    /\ Permitted(op)
    /\ ~Reserved(d)
    /\ reservedUntil' = [reservedUntil EXCEPT ![d] = now + ReserveTtl]
    /\ calls' = [calls EXCEPT ![c] =
                    [pc |-> "lookup", decision |-> d, code |-> code, operator |-> op,
                     approval |-> None, approvedAt |-> 0, answer |-> "none"]]
    /\ UNCHANGED <<now, approvals, linked, history>>

\* Not on the allowlist, or another confirm holds the key.
Refuse(c, d, op) ==
    /\ calls[c].pc = "idle"
    /\ ~Permitted(op) \/ Reserved(d)
    /\ Reject(c, "INVALID")
    /\ UNCHANGED history

\* latestPendingApproval: the row it selects is unique (PendingIsLinked).
FindPending(c) ==
    /\ calls[c].pc = "lookup"
    /\ \E id \in Pending(calls[c].decision) :
         calls' = [calls EXCEPT ![c].pc = "verify", ![c].approval = id]
    /\ UNCHANGED <<now, approvals, linked, reservedUntil, history>>

FindNothing(c) ==
    /\ calls[c].pc = "lookup"
    /\ Pending(calls[c].decision) = {}
    /\ Reject(c, "INVALID")
    /\ UNCHANGED history

\* The request is past its expiry.  The UPDATE to EXPIRED and the exception
\* that follows it are in one transaction, so the row stays as it was.
RejectExpired(c) ==
    /\ calls[c].pc = "verify"
    /\ Expired(calls[c].approval)
    /\ Reject(c, "INVALID")
    /\ UNCHANGED history

\* The hash comparison of a request that is still alive.
CompareCode(c) ==
    LET id == calls[c].approval IN
    /\ calls[c].pc = "verify"
    /\ ~Expired(id)
    /\ UNCHANGED disturbed
    /\ guesses' = [guesses EXCEPT ![id] = IF @ = 0 THEN 1 ELSE 2]
    /\ \/ /\ CodeMatches(id, c)
          /\ calls' = [calls EXCEPT ![c].pc = "grant"]
          /\ UNCHANGED <<now, approvals, linked, reservedUntil>>
       \/ /\ ~CodeMatches(id, c)
          /\ Reject(c, "INVALID")

\* Mutant of Grant: the UPDATE does not ask for status = 'PENDING'.
GrantAnyStatus(c) ==
    LET id == calls[c].approval IN
    /\ calls[c].pc = "grant"
    /\ approvals' = [approvals EXCEPT ![id].status = "APPROVED",
                                      ![id].approvedAt = now,
                                      ![id].approvedBy = calls[c].operator]
    /\ calls' = [calls EXCEPT ![c].pc = "idle", ![c].approvedAt = now,
                              ![c].answer = "APPROVED"]
    /\ UNCHANGED <<now, linked, reservedUntil, history>>

\* UPDATE ... WHERE id = ? AND status = 'PENDING' updated one row.
Grant(c) ==
    LET id == calls[c].approval IN
    /\ calls[c].pc = "grant"
    /\ approvals[id].status = "PENDING"
    /\ approvals' = [approvals EXCEPT ![id].status = "APPROVED",
                                      ![id].approvedAt = now,
                                      ![id].approvedBy = calls[c].operator]
    /\ calls' = [calls EXCEPT ![c].pc = "idle", ![c].approvedAt = now,
                              ![c].answer = "APPROVED"]
    /\ UNCHANGED <<now, linked, reservedUntil, history>>

\* ... updated none.
GrantTooLate(c) ==
    /\ calls[c].pc = "grant"
    /\ approvals[calls[c].approval].status # "PENDING"
    /\ Reject(c, "INVALID")
    /\ UNCHANGED history

-----------------------------------------------------------------------------
(* What the environment does *)

\* A database or connection error, or the death of the JVM.
Fail(c) ==
    /\ calls[c].pc # "idle"
    /\ Reject(c, "ERROR")
    /\ UNCHANGED history

\* Redis loses the key: LRU eviction, an operator's DEL.
LoseKey(d) ==
    /\ Reserved(d)
    /\ reservedUntil' = [reservedUntil EXCEPT ![d] = 0]
    /\ disturbed' = disturbed \cup {"lost"}
    /\ UNCHANGED <<now, approvals, linked, calls, guesses>>

Tick ==
    /\ now < MaxTime
    /\ now' = now + 1
    /\ disturbed' = IF \A c \in ConfirmCalls : calls[c].pc = "idle"
                    THEN disturbed ELSE disturbed \cup {"slow"}
    /\ UNCHANGED <<approvals, linked, reservedUntil, calls, guesses>>

Confirm(c) ==
    \/ \E d \in Decisions, code \in Codes, op \in Operators : Reserve(c, d, code, op)
    \/ \E d \in Decisions, op \in Operators : Refuse(c, d, op)
    \/ FindPending(c)
    \/ FindNothing(c)
    \/ RejectExpired(c)
    \/ CompareCode(c)
    \/ Grant(c)
    \/ GrantTooLate(c)
    \/ Fail(c)

Next ==
    \/ \E d \in Decisions, id \in ApprovalIds, code \in Codes : Create(d, id, code)
    \/ \E c \in ConfirmCalls : Confirm(c)
    \/ \E d \in Decisions : LoseKey(d)
    \/ Tick

Spec == Init /\ [][Next]_vars

-----------------------------------------------------------------------------
(* Properties *)

\* A decision has at most one request waiting for a code, and it is the one
\* decision_log.approval_id names, however requests, confirms and failures
\* interleave (create, V003 uq_approval_decision_pending).
PendingIsLinked == \A d \in Decisions : Pending(d) \subseteq {linked[d]}

\* The approval request of call c is approved, and is that of c's operator.
Stands(c) ==
    LET id == calls[c].approval IN
    /\ id \in Inserted
    /\ CodeMatches(id, c)
    /\ Permitted(calls[c].operator)
    /\ approvals[id].status = "APPROVED"
    /\ approvals[id].approvedBy = calls[c].operator
    /\ approvals[id].approvedAt = calls[c].approvedAt

\* An operator who was told APPROVED owns that approval from then on: he was
\* permitted, gave its code, and no confirm running beside his takes it over
\* or dates it anew (confirm, the conditional UPDATE).
AnsweredApprovalStands ==
    \A c \in ConfirmCalls : calls[c].answer = "APPROVED" => Stands(c)

\* As long as the clock never advanced during a confirm, no request was
\* approved after its time to live (runbook.md: the code is valid for
\* APPROVAL_TTL_MINUTES).
ApprovedInTime ==
    "slow" \notin disturbed =>
    \A id \in Inserted : approvals[id].status = "APPROVED" =>
        approvals[id].approvedAt <= approvals[id].expiresAt

\* As long as confirms were fast and Redis kept its keys, one code at most was
\* ever tried against a live request: the key outlives the request (runbook.md:
\* SETNX accepts one confirm of a decision in 15 minutes).
OneGuessPerCode == disturbed = {} => \A id \in ApprovalIds : guesses[id] <= 1

\* A confirm that finds the request past its expiry leaves it EXPIRED, as
\* the UPDATE before the exception means to.
ExpiredIsRecorded ==
    [][\A c \in ConfirmCalls :
         RejectExpired(c) => approvals'[calls[c].approval].status # "PENDING"]_vars

-----------------------------------------------------------------------------
(* The gate, as the order service sees it *)

PermittedOps == {op \in Operators : Permitted(op)}

Approved == {id \in Inserted : approvals[id].status = "APPROVED"}

GrantOf(id) == [approval |-> id, decision |-> approvals[id].decision,
                at |-> approvals[id].approvedAt, by |-> approvals[id].approvedBy]

OpenRequests == [d \in Tradable |-> Pending(d)]

GivenGrants == {GrantOf(id) : id \in Approved}

Gate == INSTANCE ApprovalGate WITH
    PermittedOperators <- PermittedOps, open <- OpenRequests, grants <- GivenGrants

\* The service implements the gate: one open request of a decision at a time,
\* each granted at most once and never revised.
GateSpec == Gate!Spec
=============================================================================
