------------------------------ MODULE Evaluation ------------------------------
(***************************************************************************)
(* What a price does to a position, as pure operators: when the keeper     *)
(* closes it and what it then wins or loses (position_keeper.py), and the  *)
(* shape that a decision's numbers give it.                                *)
(*                                                                         *)
(* A trade t is the part of a position that never changes: its direction,  *)
(* the price it was entered at, its stop and the set of its targets.       *)
(***************************************************************************)
EXTENDS Integers

Directions == {"LONG", "SHORT", "OBSERVE"}

\* validateAgentJson: the stop of a directional trade is on its losing side and
\* each target on its winning side.
Trade == [direction : Directions, entry : Nat, stop : Nat, targets : SUBSET Nat]

ValidTrade(t) ==
    /\ t.direction = "LONG" => t.stop < t.entry /\ \A x \in t.targets : x > t.entry
    /\ t.direction = "SHORT" => t.stop > t.entry /\ \A x \in t.targets : x < t.entry

-----------------------------------------------------------------------------
(* _evaluate *)

Stopped(t, mid) == \/ t.direction = "LONG" /\ mid <= t.stop
                   \/ t.direction = "SHORT" /\ mid >= t.stop

Reached(t, mid, x) == \/ t.direction = "LONG" /\ mid >= x
                      \/ t.direction = "SHORT" /\ mid <= x

\* min(take_profit) or max(take_profit), the first the price meets.
Nearest(t) == {x \in t.targets : \A y \in t.targets :
                  IF t.direction = "LONG" THEN x <= y ELSE x >= y}

\* Mutant of Evaluate: fills at the market.
EvaluateAtMarket(t, mid) ==
    IF Stopped(t, mid) THEN {[reason |-> "STOP_LOSS", at |-> mid]}
    ELSE {[reason |-> "TAKE_PROFIT", at |-> mid] : x \in {n \in Nearest(t) : Reached(t, mid, n)}}

\* Mutant of Evaluate: looks at the farthest target.
EvaluateFarthest(t, mid) ==
    IF Stopped(t, mid) THEN {[reason |-> "STOP_LOSS", at |-> t.stop]}
    ELSE {[reason |-> "TAKE_PROFIT", at |-> x] : x \in {n \in t.targets :
             /\ Reached(t, mid, n)
             /\ \A y \in t.targets : IF t.direction = "LONG" THEN n >= y ELSE n <= y}}

\* _evaluate: the price a position closes at, and why; nothing when it stays
\* open.  It is the stop or the nearest target itself, however far the price
\* has gone beyond it.
Evaluate(t, mid) ==
    IF Stopped(t, mid) THEN {[reason |-> "STOP_LOSS", at |-> t.stop]}
    ELSE {[reason |-> "TAKE_PROFIT", at |-> x] : x \in {n \in Nearest(t) : Reached(t, mid, n)}}

\* Profit of a trade at a price; a direction that is not long counts as short.
Pnl(t, at) == IF t.direction = "LONG" THEN at - t.entry ELSE t.entry - at

\* What a trade loses at its stop.
Risk(t) == IF t.stop < t.entry THEN t.entry - t.stop ELSE t.stop - t.entry
=============================================================================
