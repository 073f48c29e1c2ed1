------------------------------ MODULE RiskRules ------------------------------
(***************************************************************************)
(* The rules a decision's own numbers have to pass, as pure operators:     *)
(* DecisionService.validateAgentJson, and the rules of RiskService.check   *)
(* that look at the request and the newest price.  The rules that look at  *)
(* positions and losses are in Trading.                                    *)
(*                                                                         *)
(* Prices are in thousandths of the unit that the market quotes in, ratios *)
(* and shares of the whole in thousandths, amounts in dollars.             *)
(*                                                                         *)
(* A decision j is the part of agent_json that the rules read: its symbol, *)
(* its direction, the ends min and max of its entry, its stop, the set of  *)
(* its targets, its reward for risk, its confidence, risk_usd,             *)
(* notional_usd and leverage.                                              *)
(***************************************************************************)
EXTENDS Integers

CONSTANTS
    MinAgentConfidence,   \* of 1000
    MinRiskReward,        \* of 1000
    MaxTradeRiskPct,      \* of 1000
    MaxSymbolPositionPct, \* of 1000
    MaxEntryDeviationPct, \* of 1000
    MaxLeverage,
    Whitelist             \* the symbols that may be traded

ASSUME LimitsAssumption ==
    {MinAgentConfidence, MinRiskReward, MaxTradeRiskPct, MaxSymbolPositionPct,
     MaxEntryDeviationPct, MaxLeverage} \subseteq Nat

Longs == {"LONG", "BUY"}
Shorts == {"SHORT", "SELL"}
Observers == {"OBSERVE", "FLAT"}

-----------------------------------------------------------------------------
(* DecisionService.validateAgentJson, behind its schema *)

\* The entry's range is one, the stop is on the losing side of all of it, and
\* each target on the winning side.
WellOrdered(j) ==
    /\ j.direction \in Longs \cup Shorts => j.min <= j.max
    /\ j.direction \in Longs => j.stop < j.min /\ \A t \in j.targets : t > j.max
    /\ j.direction \in Shorts => j.stop > j.max /\ \A t \in j.targets : t < j.min

-----------------------------------------------------------------------------
(* RiskService.check *)

Distance(a, b) == IF a > b THEN a - b ELSE b - a

\* entryDeviationPct, with the entry's upper end as the price; no price yet, or
\* none above zero, passes.
TooFar(entry, mid) ==
    entry > 0 /\ mid > 0 /\ 1000 * Distance(entry, mid) > MaxEntryDeviationPct * mid

\* The rules that a directional decision breaks at a price and an equity.
DirectionalReasons(j, mid, equity) ==
    LET broken == [NO_VALID_STOP_LOSS |-> j.stop <= 0,
                   STOP_LOSS_WRONG_SIDE |->
                       /\ j.stop > 0 /\ j.max > 0
                       /\ \/ j.direction \in Longs /\ j.stop >= j.max
                          \/ j.direction \in Shorts /\ j.stop <= j.max,
                   CONFIDENCE_BELOW_MIN |-> j.confidence < MinAgentConfidence,
                   RR_BELOW_MIN |-> j.reward < MinRiskReward,
                   TRADE_RISK_ABOVE_LIMIT |-> 1000 * j.risk > equity * MaxTradeRiskPct,
                   LEVERAGE_ABOVE_LIMIT |-> j.leverage > MaxLeverage,
                   SYMBOL_POSITION_ABOVE_LIMIT |-> 1000 * j.notional > equity * MaxSymbolPositionPct,
                   ENTRY_DEVIATION_TOO_LARGE |-> TooFar(j.max, mid)]
    IN {rule \in DOMAIN broken : broken[rule]}

Reasons(j, mid, equity) ==
    UNION {IF j.symbol \in Whitelist THEN {} ELSE {"SYMBOL_NOT_WHITELISTED"},
           IF j.direction \in Longs \cup Shorts \cup Observers THEN {} ELSE {"DIRECTION_INVALID"},
           IF j.direction \in Longs \cup Shorts THEN DirectionalReasons(j, mid, equity) ELSE {}}
=============================================================================
