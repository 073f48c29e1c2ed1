------------------------------- MODULE Trading -------------------------------
(***************************************************************************)
(* The loop that money runs through: the second risk check of a place      *)
(* (RiskService.check) reads the account and the open positions, the place *)
(* opens a position, the keeper closes it and books its profit into the    *)
(* account, which the next check reads.                                    *)
(*                                                                         *)
(* The check is no transaction with the insert, and each of its queries    *)
(* reads what is newest by then:                                           *)
(*                                                                         *)
(*   idle --equity--> count -> daily -> weekly -> streak -> insert --> idle *)
(*                                                                         *)
(* A decision to observe goes to insert at once.  The code asks on after a *)
(* broken rule, to name them all; here that ends the place.  Every         *)
(* decision risks the same RiskUsd, as build_agent_json writes it.         *)
(***************************************************************************)
EXTENDS PositionKeeper

CONSTANTS
    PlaceCalls,        \* request threads inside place, past the lock
    RiskUsd,           \* max_position_size.risk_usd of every decision
    MaxTradeRiskPct,
    MaxDailyLossPct,
    MaxWeeklyLossPct,
    MaxOpenPositions

ASSUME CallsAssumption == IsFiniteSet(PlaceCalls) /\ PlaceCalls # {}
ASSUME RiskAssumption ==
    /\ RiskUsd \in Nat \ {0} /\ Seed # 0
    /\ MaxTradeRiskPct \in Nat /\ MaxDailyLossPct \in Nat
    /\ MaxWeeklyLossPct \in Nat /\ MaxOpenPositions \in Nat

VARIABLE places

tradingVars == <<vars, places>>

Place == [pc      : {"idle", "count", "daily", "weekly", "streak", "insert"},
          trade   : Trades \cup {None},
          equity  : Int]          \* the equity the limits are computed from

Free == [pc |-> "idle", trade |-> None, equity |-> 0]

TradingTypeOK == TypeOK /\ places \in [PlaceCalls -> Place]

-----------------------------------------------------------------------------
(* The rules on the account *)

Directional(t) == t.direction # "OBSERVE"

LossAbs(pnl) == IF pnl < 0 THEN -pnl ELSE 0

\* firstPositive: an equity of zero or less counts as the configured one.
EquityFor(a) == IF a.equity > 0 THEN a.equity ELSE Seed

\* TRADE_RISK_ABOVE_LIMIT
RiskTooHigh(equity) == 100 * RiskUsd > equity * MaxTradeRiskPct

\* Mutant of Breaks: the pause needs a loss today.
BreaksToday(rule, equity, a) ==
    \/ rule = "daily" /\ 100 * LossAbs(a.daily) >= equity * MaxDailyLossPct
    \/ rule = "weekly" /\ 100 * LossAbs(a.weekly) >= equity * MaxWeeklyLossPct
    \/ rule = "streak" /\ a.streak >= PauseAfter /\ a.daily < 0

\* DAILY_LOSS_LIMIT_REACHED, WEEKLY_LOSS_LIMIT_REACHED, CONSECUTIVE_LOSS_PAUSE
Breaks(rule, equity, a) ==
    \/ rule = "daily" /\ 100 * LossAbs(a.daily) >= equity * MaxDailyLossPct
    \/ rule = "weekly" /\ 100 * LossAbs(a.weekly) >= equity * MaxWeeklyLossPct
    \/ rule = "streak" /\ a.streak >= PauseAfter

Following == [daily |-> "weekly", weekly |-> "streak", streak |-> "insert"]

-----------------------------------------------------------------------------
(* place, from its second risk check on *)

TradingInit == Init /\ places = [c \in PlaceCalls |-> Free]

\* The place goes on when the rule holds, else it is over.
GoOn(c, broken, next) ==
    places' = [places EXCEPT ![c] = IF broken THEN Free ELSE next]

\* Bound: no more places than positions there is room for.
UnderWay == {c \in PlaceCalls : places[c].pc # "idle"}

Begin(c, t) ==
    LET equity == EquityFor(account) IN
    /\ places[c].pc = "idle"
    /\ Len(positions) + Cardinality(UnderWay) < MaxPositions
    /\ IF Directional(t)
       THEN GoOn(c, RiskTooHigh(equity), [pc |-> "count", trade |-> t, equity |-> equity])
       ELSE GoOn(c, FALSE, [pc |-> "insert", trade |-> t, equity |-> 0])
    /\ UNCHANGED vars

\* Mutant of CountOpen: > for >=.
CountOpenOffByOne(c) ==
    /\ places[c].pc = "count"
    /\ GoOn(c, Cardinality(OpenIds) > MaxOpenPositions, [places[c] EXCEPT !.pc = "daily"])
    /\ UNCHANGED vars

\* Every open position counts, one that only observes too.
CountOpen(c) ==
    /\ places[c].pc = "count"
    /\ GoOn(c, Cardinality(OpenIds) >= MaxOpenPositions, [places[c] EXCEPT !.pc = "daily"])
    /\ UNCHANGED vars

\* One of the three rules on losses, each on the snapshot that is newest by then.
CheckLoss(c) ==
    /\ places[c].pc \in DOMAIN Following
    /\ GoOn(c, Breaks(places[c].pc, places[c].equity, account),
                [places[c] EXCEPT !.pc = Following[@]])
    /\ UNCHANGED vars

Insert(c) ==
    /\ places[c].pc = "insert"
    /\ Open(places[c].trade)
    /\ places' = [places EXCEPT ![c] = Free]

\* The check fails, for one of these rules or another, or the transaction does.
Abandon(c) ==
    /\ places[c].pc # "idle"
    /\ places' = [places EXCEPT ![c] = Free]
    /\ UNCHANGED vars

PlaceStep(c) ==
    \/ \E t \in Trades : Begin(c, t)
    \/ CountOpen(c) \/ CheckLoss(c)
    \/ Insert(c) \/ Abandon(c)

TradingNext ==
    \/ \E c \in PlaceCalls : PlaceStep(c)
    \/ /\ KeeperStep \/ Fault \/ NewDay \/ \E p \in Prices : Quote(p)
       /\ UNCHANGED places

TradingSpec == TradingInit /\ [][TradingNext]_tradingVars /\ WF_tradingVars(KeeperStep /\ UNCHANGED places)

-----------------------------------------------------------------------------
(* Properties *)

\* The positions that count for and against the account; one that observes is
\* never closed.
OpenDirectional == {i \in OpenIds : Directional(positions[i].trade)}

\* How many directional positions may be open at once: the limit, and one for
\* every place beyond the first that counted before the others inserted.
Overbooked == MaxOpenPositions + Cardinality(PlaceCalls) - 1

\* The open directional positions exceed maxOpenPositions by the places that
\* overlap and by nothing else, whatever the keeper closes in between and how
\* many positions observe (RiskService.openPositionCount, PaperOrderService.place).
OpenIsBounded == Cardinality(OpenDirectional) <= Overbooked

\* The place opens no directional position: at the latest, a query it still has
\* to ask refuses it.
Doomed(c) ==
    \/ places[c].pc = "idle" \/ ~Directional(places[c].trade)
    \/ account.streak >= PauseAfter /\ places[c].pc # "insert"
    \/ Cardinality(OpenIds) >= MaxOpenPositions /\ places[c].pc = "count"

\* Nothing is open or unbooked that could change the account, and a rule on the
\* account that no new day relaxes refuses every directional decision.
Paused ==
    /\ OpenDirectional = {} /\ keeper.closed = <<>>
    /\ \/ account.streak >= PauseAfter
       \/ RiskTooHigh(EquityFor(account))
       \/ Cardinality(OpenIds) >= MaxOpenPositions
    /\ \A c \in PlaceCalls : Doomed(c)

\* A pause holds: no place slips past it, no day or week ends it, and neither
\* does anything else in the program; it takes a change of the account by hand
\* (V004: the system pauses at 3 losses; RiskService.check, lines 97-120).
PauseHolds == [][Paused => Paused']_tradingVars
=============================================================================
