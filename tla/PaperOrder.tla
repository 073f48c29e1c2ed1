----------------------------- MODULE PaperOrder -----------------------------
(***************************************************************************)
(* PaperOrderService.place: the transactions that turn an approved         *)
(* decision into a paper order, an open position and its review tasks,     *)
(* after the second risk check of RiskService.check.                       *)
(*                                                                         *)
(* Transactions run under READ COMMITTED, each on a request thread.  What  *)
(* a transaction writes is seen when it commits, and every statement reads *)
(* the rows committed by then, so each read is a step and the inserts with *)
(* the commit are one:                                                     *)
(*                                                                         *)
(*   idle -> lock -> approval -> existing -> count -> account -> insert    *)
(*                                                                         *)
(* A decision to observe skips count and account.  The approvals come from *)
(* the gate that Approval implements; closing positions and writing the    *)
(* account snapshot are the position keeper's, here its bare effect.       *)
(***************************************************************************)
EXTENDS Integers, FiniteSets

CONSTANTS
    Tradable,           \* decisions with risk_status = 'PASS' and json_valid
    Observing,          \* those whose direction is OBSERVE or FLAT
    ApprovalIds,
    PermittedOperators,
    PlaceCalls,         \* request threads inside place
    OrderIds,           \* ids trade_order may hand out
    CustomKeys,         \* values of clientOrderId a caller may choose
    MaxActiveAge,       \* APPROVAL_MAX_ACTIVE_AGE_MIN
    MaxOpenPositions,
    MaxDailyLossPct,
    MaxWeeklyLossPct,
    MaxConsecutiveLosses,
    AccountEquity,      \* accountEquityUsd
    Snapshots,          \* values account_snapshot's newest row may take
    MaxTime,            \* bound on the clock
    None                \* the absent value

ASSUME ObservingAssumption == Observing \subseteq Tradable
ASSUME LimitsAssumption ==
    /\ MaxActiveAge \in Nat
    /\ MaxOpenPositions \in Nat
    /\ MaxDailyLossPct \in Nat
    /\ MaxWeeklyLossPct \in Nat
    /\ MaxConsecutiveLosses \in Nat
    /\ AccountEquity \in Nat \ {0}
    /\ MaxTime \in Nat
ASSUME NoneAssumption == None \notin Tradable \cup ApprovalIds \cup OrderIds \cup CustomKeys

Account == [equity : Int, daily : Int, weekly : Int, streak : Nat]

ASSUME SnapshotsAssumption == Snapshots \subseteq Account /\ Snapshots # {}

VARIABLES
    now,        \* the clock shared by the JVM and Postgres
    open,       \* the gate's open requests
    grants,     \* the gate's approvals: approval_request in state APPROVED
    orders,     \* trade_order: id -> row, for the ids inserted
    positions,  \* trade_position: the row of each order
    tasks,      \* review_task
    account,    \* the newest row of account_snapshot
    places      \* the place requests

gateVars == <<open, grants>>
tables == <<orders, positions, tasks>>
vars == <<now, open, grants, orders, positions, tasks, account, places>>

Gate == INSTANCE ApprovalGate

-----------------------------------------------------------------------------
(* Types *)

Windows == {"24h", "48h", "7d"}

\* client_order_id defaults to "paper-" and the decision.
DefaultKey(d) == <<"paper", d>>
Keys == {DefaultKey(d) : d \in Tradable} \cup CustomKeys

Order == [decision : Tradable, approval : ApprovalIds, key : Keys, begun : Nat]

Position == [decision : Tradable, status : {"OPEN", "CLOSED"}]

Place == [pc       : {"idle", "lock", "approval", "existing", "count", "account", "insert"},
          decision : Tradable \cup {None},
          key      : Keys \cup {None},
          begun    : Nat,     \* now() of the transaction
          approval : ApprovalIds \cup {None},
          full     : BOOLEAN, \* MAX_OPEN_POSITIONS_REACHED
          answer   : {"none", "PAPER_FILLED", "ALREADY_FILLED", "REJECTED", "ERROR"}]

IdlePlace(a) == [pc |-> "idle", decision |-> None, key |-> None, begun |-> 0,
                 approval |-> None, full |-> FALSE, answer |-> a]

Placed == DOMAIN orders

TypeOK ==
    /\ now \in Nat
    /\ open \in [Tradable -> SUBSET ApprovalIds]
    /\ grants \subseteq Gate!Grants
    /\ Placed \subseteq OrderIds
    /\ orders \in [Placed -> Order]
    /\ positions \in [Placed -> Position]
    /\ tasks \subseteq [order : Placed, decision : Tradable, window : Windows]
    /\ account \in Account
    /\ places \in [PlaceCalls -> Place]
-----------------------------------------------------------------------------
(* Reading the state *)

OrdersOf(d) == {o \in Placed : orders[o].decision = d}

OpenPositions == {o \in Placed : positions[o].status = "OPEN"}

\* pg_advisory_xact_lock: held from its grant to the end of the transaction.
Locked(d) == \E c \in PlaceCalls : /\ places[c].decision = d
                                   /\ places[c].pc \notin {"idle", "lock"}

\* Mutant of Fresh: an approval never grows old.
FreshForever(d, t) == {g \in grants : g.decision = d}

\* ensureApproved: approved_at > now() - maxActiveAge, the newest of them.
Fresh(d, t) == {g \in grants : g.decision = d /\ g.at + MaxActiveAge > t}

Newest(gs) == {g \in gs : \A h \in gs : h.at <= g.at}

LossAbs(pnl) == IF pnl < 0 THEN -pnl ELSE 0

\* firstPositive: an equity of zero or less counts as the configured one.
EquityFor(a) == IF a.equity > 0 THEN a.equity ELSE AccountEquity

\* DAILY_LOSS_LIMIT_REACHED, WEEKLY_LOSS_LIMIT_REACHED, CONSECUTIVE_LOSS_PAUSE
Paused(a) ==
    \/ 100 * LossAbs(a.daily) >= EquityFor(a) * MaxDailyLossPct
    \/ 100 * LossAbs(a.weekly) >= EquityFor(a) * MaxWeeklyLossPct
    \/ a.streak >= MaxConsecutiveLosses

-----------------------------------------------------------------------------
(* Initial state: nothing approved, nothing placed *)

Init ==
    /\ Gate!Init
    /\ orders = [o \in {} |-> {}]
    /\ positions = [o \in {} |-> {}]
    /\ tasks = {}
    /\ account \in Snapshots
    /\ places = [c \in PlaceCalls |-> IdlePlace("none")]

-----------------------------------------------------------------------------
(* PaperOrderService.place *)

\* The transaction ends without writing: with an answer, or rolled back by an
\* exception.
Finish(c, answer) ==
    /\ places' = [places EXCEPT ![c] = IdlePlace(answer)]
    /\ UNCHANGED <<now, gateVars, tables, account>>

Advance(c, pc) ==
    /\ places' = [places EXCEPT ![c].pc = pc]
    /\ UNCHANGED <<now, gateVars, tables, account>>

\* The transaction begins and asks for the lock of the decision.
Begin(c, d, key) ==
    /\ places[c].pc = "idle"
    /\ places' = [places EXCEPT ![c] =
                     [pc |-> "lock", decision |-> d, key |-> key, begun |-> now,
                      approval |-> None, full |-> FALSE, answer |-> "none"]]
    /\ UNCHANGED <<now, gateVars, tables, account>>

\* Mutant of TakeLock: no advisory lock.
TakeNoLock(c) ==
    /\ places[c].pc = "lock"
    /\ Advance(c, "approval")

TakeLock(c) ==
    /\ places[c].pc = "lock"
    /\ ~Locked(places[c].decision)
    /\ Advance(c, "approval")

EnsureApproved(c) ==
    /\ places[c].pc = "approval"
    /\ \E g \in Newest(Fresh(places[c].decision, places[c].begun)) :
         places' = [places EXCEPT ![c].pc = "existing", ![c].approval = g.approval]
    /\ UNCHANGED <<now, gateVars, tables, account>>

NotApproved(c) ==
    /\ places[c].pc = "approval"
    /\ Fresh(places[c].decision, places[c].begun) = {}
    /\ Finish(c, "REJECTED")

\* The decision has its order: its order, position and tasks are answered.
FindExisting(c) ==
    /\ places[c].pc = "existing"
    /\ OrdersOf(places[c].decision) # {}
    /\ Finish(c, "ALREADY_FILLED")

\* Mutant of FindNoOrder: asks only for an order under the same client order id.
FindNoOrderByKey(c) ==
    /\ places[c].pc = "existing"
    /\ \A o \in OrdersOf(places[c].decision) : orders[o].key # places[c].key
    /\ Advance(c, IF places[c].decision \in Observing THEN "insert" ELSE "count")

\* It has none: on to the second risk check, which asks nothing of the
\* account when the decision only observes.
FindNoOrder(c) ==
    /\ places[c].pc = "existing"
    /\ OrdersOf(places[c].decision) = {}
    /\ Advance(c, IF places[c].decision \in Observing THEN "insert" ELSE "count")

\* openPositionCount() >= maxOpenPositions, remembered while the check goes on.
CountOpen(c) ==
    /\ places[c].pc = "count"
    /\ places' = [places EXCEPT ![c].pc = "account",
                                ![c].full = Cardinality(OpenPositions) >= MaxOpenPositions]
    /\ UNCHANGED <<now, gateVars, tables, account>>

\* The rest of the check: the losses of the newest account snapshot, and what
\* depends on the request's numbers and the last price, which may turn out bad.
PassSecondCheck(c) ==
    /\ places[c].pc = "account"
    /\ ~places[c].full
    /\ ~Paused(account)
    /\ Advance(c, "insert")

\* The exception rolls back, and takes the risk_event of the check with it.
FailSecondCheck(c, bad) ==
    /\ places[c].pc = "account"
    /\ places[c].full \/ Paused(account) \/ bad
    /\ Finish(c, "REJECTED")

\* Mutant of Insert: the order's row without its approval.
InsertUnapproved(c, o) ==
    LET d == places[c].decision
        row == [decision |-> d, approval |-> None,
                key |-> places[c].key, begun |-> places[c].begun]
        position == [decision |-> d, status |-> "OPEN"]
    IN
    /\ places[c].pc = "insert"
    /\ \A p \in Placed : orders[p].key # places[c].key
    /\ o \notin Placed
    /\ orders' = [p \in Placed \cup {o} |-> IF p = o THEN row ELSE orders[p]]
    /\ positions' = [p \in Placed \cup {o} |-> IF p = o THEN position ELSE positions[p]]
    /\ tasks' = tasks \cup [order : {o}, decision : {d}, window : Windows]
    /\ places' = [places EXCEPT ![c] = IdlePlace("PAPER_FILLED")]
    /\ UNCHANGED <<now, gateVars, account>>

\* insertOrder, insertPosition, createReviewTasks and the commit.
Insert(c, o) ==
    LET d == places[c].decision
        row == [decision |-> d, approval |-> places[c].approval,
                key |-> places[c].key, begun |-> places[c].begun]
        position == [decision |-> d, status |-> "OPEN"]
    IN
    /\ places[c].pc = "insert"
    /\ \A p \in Placed : orders[p].key # places[c].key
    /\ o \notin Placed
    /\ orders' = [p \in Placed \cup {o} |-> IF p = o THEN row ELSE orders[p]]
    /\ positions' = [p \in Placed \cup {o} |-> IF p = o THEN position ELSE positions[p]]
    /\ tasks' = tasks \cup [order : {o}, decision : {d}, window : Windows]
    /\ places' = [places EXCEPT ![c] = IdlePlace("PAPER_FILLED")]
    /\ UNCHANGED <<now, gateVars, account>>

\* client_order_id is taken: "order already placed".
DuplicateKey(c) ==
    /\ places[c].pc = "insert"
    /\ \E p \in Placed : orders[p].key = places[c].key
    /\ Finish(c, "REJECTED")

\* A database error, a lost connection, the death of the JVM.
Fail(c) ==
    /\ places[c].pc # "idle"
    /\ Finish(c, "ERROR")

Work(c) ==
    \/ TakeLock(c)
    \/ EnsureApproved(c) \/ NotApproved(c)
    \/ FindExisting(c) \/ FindNoOrder(c)
    \/ CountOpen(c)
    \/ PassSecondCheck(c) \/ \E bad \in BOOLEAN : FailSecondCheck(c, bad)
    \/ \E o \in OrderIds : Insert(c, o)
    \/ DuplicateKey(c)

PlaceStep(c) == Work(c) \/ Fail(c)

-----------------------------------------------------------------------------
(* What happens around it *)

\* The approval gate offers and grants.
GateStep ==
    /\ \E d \in Tradable, id \in ApprovalIds :
          Gate!Offer(d, id) \/ \E op \in PermittedOperators : Gate!GrantOffer(d, id, op)
    /\ UNCHANGED <<tables, account, places>>

\* The position keeper closes a position, as it may any that trades.
ClosePosition(o) ==
    /\ o \in OpenPositions
    /\ positions[o].decision \notin Observing
    /\ positions' = [positions EXCEPT ![o].status = "CLOSED"]
    /\ UNCHANGED <<now, gateVars, orders, tasks, account, places>>

\* ... and writes a new account snapshot.
NewSnapshot ==
    /\ account' \in Snapshots
    /\ UNCHANGED <<now, gateVars, tables, places>>

Tick ==
    /\ now < MaxTime
    /\ now' = now + 1
    /\ UNCHANGED <<gateVars, tables, account, places>>

Next ==
    \/ \E c \in PlaceCalls, d \in Tradable, key \in Keys : Begin(c, d, key)
    \/ \E c \in PlaceCalls : PlaceStep(c)
    \/ GateStep
    \/ \E o \in OrderIds : ClosePosition(o)
    \/ NewSnapshot
    \/ Tick

Spec == Init /\ [][Next]_vars

-----------------------------------------------------------------------------
(* Properties *)

\* A decision has at most one order, whoever asks for it how often, at the
\* same time or later, and under whatever client order id (place, the lock
\* and the look for an existing order).
OneOrderPerDecision ==
    \A o, p \in Placed : orders[o].decision = orders[p].decision => o = p

\* Every order rests on an approval given for its own decision that was still
\* young when the order's transaction began (ensureApproved).
OrderWasApproved ==
    \A o \in Placed : \E g \in grants :
        /\ g.approval = orders[o].approval
        /\ g.decision = orders[o].decision
        /\ orders[o].begun < g.at + MaxActiveAge

-----------------------------------------------------------------------------
(* The order service, as the operator sees it *)

Given == {<<g.approval, g.decision>> : g \in grants}
Fills == {<<o, orders[o].approval, orders[o].decision>> : o \in Placed}

Once == INSTANCE ExecuteOnce WITH given <- Given, fills <- Fills

\* An approved decision is executed at most once, on an approval of its own,
\* for good.
OnceSpec == Once!Spec
=============================================================================
