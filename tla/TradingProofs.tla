---------------------------- MODULE TradingProofs ----------------------------
(***************************************************************************)
(* Proofs about the position keeper, for every set of trades and prices,   *)
(* every week and every number of positions, days and failed ticks; and    *)
(* about the loop of place, keeper and account, for any number of places   *)
(* at a time and all limits.                                               *)
(***************************************************************************)
EXTENDS Trading, SequenceTheorems, FiniteSetTheorems, TLAPS

USE TradesAssumption, PricesAssumption, NumbersAssumption, DriverAssumption, NoneAssumption

-----------------------------------------------------------------------------
(* What _evaluate answers *)

\* A trade closes at its stop or at one of its targets, whatever the price.
LEMMA EvaluateOutcome ==
    ASSUME NEW t \in Trades, NEW mid \in Nat, NEW o \in Evaluate(t, mid)
    PROVE  /\ t.direction \in {"LONG", "SHORT"}
           /\ \/ o.reason = "STOP_LOSS" /\ o.at = t.stop
              \/ o.reason = "TAKE_PROFIT" /\ o.at \in t.targets
BY DEF Evaluate, Stopped, Reached, Nearest

\* Its profit is a loss exactly when the stop closed it, and then the planned
\* one.
LEMMA OutcomeIsPlanned ==
    ASSUME NEW t \in Trades, NEW mid \in Nat, NEW o \in Evaluate(t, mid)
    PROVE  /\ o.reason \in {"STOP_LOSS", "TAKE_PROFIT"}
           /\ Pnl(t, o.at) \in Int
           /\ Pnl(t, o.at) >= -Risk(t)
           /\ Pnl(t, o.at) < 0 <=> o.reason = "STOP_LOSS"
<1>1. t \in Trade /\ ValidTrade(t)
  OBVIOUS
<1>2. t.entry \in Nat /\ t.stop \in Nat /\ t.targets \subseteq Nat
  BY <1>1 DEF Trade
<1>3. CASE o.reason = "STOP_LOSS" /\ o.at = t.stop
  BY <1>1, <1>2, <1>3, EvaluateOutcome DEF ValidTrade, Pnl, Risk
<1>4. CASE o.reason = "TAKE_PROFIT" /\ o.at \in t.targets
  BY <1>1, <1>2, <1>4, EvaluateOutcome DEF ValidTrade, Pnl, Risk
<1>5. QED
  BY <1>3, <1>4, EvaluateOutcome

-----------------------------------------------------------------------------
(* Type correctness *)

LEMMA WeekIsNat == \A day \in Nat : WeekOf(day) \in Nat
BY DEF WeekOf

LEMMA RolledType == ASSUME NEW a \in Account, NEW day \in Nat PROVE Rolled(a, day) \in Account
<1> DEFINE daily == IF a.day = day THEN a.daily ELSE 0
           weekly == IF a.week = WeekOf(day) THEN a.weekly ELSE 0
<1>1. daily \in Int /\ weekly \in Int /\ WeekOf(day) \in Nat
  BY WeekIsNat DEF Account
<1>2. Rolled(a, day) = [a EXCEPT !.daily = daily, !.day = day, !.weekly = weekly,
                                 !.week = WeekOf(day)]
  BY DEF Rolled, Account
<1> HIDE DEF daily, weekly
<1>3. QED
  BY <1>1, <1>2 DEF Account

LEMMA BookedType == ASSUME NEW a \in Account, NEW pnl \in Int PROVE Booked(a, pnl) \in Account
<1> DEFINE streak == IF pnl < 0 THEN a.streak + 1 ELSE IF pnl > 0 THEN 0 ELSE a.streak
<1>1. /\ streak \in Nat
      /\ a.equity + pnl \in Int /\ a.daily + pnl \in Int /\ a.weekly + pnl \in Int
  BY DEF Account
<1>2. Booked(a, pnl) = [a EXCEPT !.equity = a.equity + pnl, !.daily = a.daily + pnl,
                                 !.weekly = a.weekly + pnl, !.streak = streak]
  BY DEF Booked, Account
<1> HIDE DEF streak
<1>3. QED
  BY <1>1, <1>2 DEF Account

LEMMA IdleType == NewAccount \in Account /\ Idle \in Keeper
BY DEF NewAccount, Idle, Account, Keeper

\* The loop's index never skips an item.
KeeperOK == keeper.next \in 1..(Len(keeper.closed) + 1)

IndType == TypeOK /\ KeeperOK

LEMMA InitType == Init => IndType
<1> SUFFICES ASSUME Init PROVE IndType
  OBVIOUS
<1>1. keeper.todo = {} /\ keeper.closed = <<>> /\ keeper.next = 1
  BY DEF Init, Idle
<1>2. QED
  BY <1>1, IdleType DEF Init, IndType, TypeOK, KeeperOK

LEMMA NextType == IndType /\ [Next]_vars => IndType'
<1> SUFFICES ASSUME IndType, [Next]_vars PROVE IndType'
  OBVIOUS
<1>0. /\ keeper \in Keeper /\ positions \in Seq(Position)
      /\ keeper.todo \subseteq DOMAIN positions
      /\ keeper.closed \in Seq(Int) /\ keeper.next \in Nat /\ keeper.draft \in Account
  BY DEF IndType, TypeOK, Keeper
<1>1. CASE StartTick
  <2>0. OpenIds \subseteq DOMAIN positions /\ DOMAIN positions \subseteq Nat
    BY <1>0 DEF OpenIds, Ids
  <2>1. keeper' \in Keeper
    BY <1>1, <2>0, IdleType DEF StartTick, Keeper
  <2>2. keeper'.todo = OpenIds /\ keeper'.closed = <<>> /\ keeper'.next = 1
    BY <1>1 DEF StartTick, Idle
  <2>3. QED
    BY <1>1, <2>0, <2>1, <2>2 DEF StartTick, IndType, TypeOK, KeeperOK
<1>2. ASSUME NEW i \in Ids, Skip(i)
      PROVE  IndType'
  <2>1. /\ keeper' \in Keeper
        /\ keeper'.todo = keeper.todo \ {i} /\ keeper'.closed = keeper.closed
        /\ keeper'.next = keeper.next
    BY <1>0, <1>2 DEF Skip, Keeper
  <2>2. QED
    BY <1>2, <2>1 DEF Skip, IndType, TypeOK, KeeperOK
<1>3. ASSUME NEW i \in Ids, Mark(i)
      PROVE  IndType'
  <2> DEFINE t == positions[i].trade
  <2>0. positions[i] \in Position /\ price \in Nat
    BY <1>0, <1>3 DEF Mark, Ids, IndType, TypeOK
  <2>1. positions[i] \in Position /\ t \in Trades /\ price \in Nat
    BY <2>0 DEF Position
  <2>2. Pnl(t, price) \in Int
    BY <2>1 DEF Pnl, Trade
  <2>3. positions' \in Seq(Position) /\ DOMAIN positions' = DOMAIN positions
    <3>1. [positions[i] EXCEPT !.unrealized = Pnl(t, price)] \in Position
      BY <2>1, <2>2 DEF Position
    <3>2. QED
      BY <1>0, <1>3, <3>1 DEF Mark, Ids
  <2>4. /\ keeper' \in Keeper
        /\ keeper'.todo = keeper.todo \ {i} /\ keeper'.closed = keeper.closed
        /\ keeper'.next = keeper.next
    BY <1>0, <1>3 DEF Mark, Keeper
  <2>5. QED
    BY <1>3, <2>3, <2>4 DEF Mark, IndType, TypeOK, KeeperOK
<1>4. ASSUME NEW i \in Ids, Close(i)
      PROVE  IndType'
  <2> DEFINE t == positions[i].trade
  <2>0. positions[i] \in Position /\ price \in Nat
    BY <1>0, <1>4 DEF Close, Ids, IndType, TypeOK
  <2>1. positions[i] \in Position /\ t \in Trades /\ price \in Nat
    BY <2>0 DEF Position
  <2>2. PICK o \in Evaluate(t, price) :
          /\ positions' = IF positions[i].status = "OPEN"
                          THEN [positions EXCEPT ![i] =
                                  [trade |-> t, status |-> "CLOSED", reason |-> o.reason,
                                   realized |-> Pnl(t, o.at), unrealized |-> 0]]
                          ELSE positions
          /\ keeper' = [keeper EXCEPT !.todo = @ \ {i}, !.closed = Append(@, Pnl(t, o.at))]
    BY <1>4 DEF Close
  <2>3. Pnl(t, o.at) \in Int /\ o.reason \in {"STOP_LOSS", "TAKE_PROFIT"}
    BY <2>1, <2>2, OutcomeIsPlanned
  <2>4. positions' \in Seq(Position) /\ DOMAIN positions' = DOMAIN positions
    <3>1. [trade |-> t, status |-> "CLOSED", reason |-> o.reason,
           realized |-> Pnl(t, o.at), unrealized |-> 0] \in Position
      BY <2>1, <2>3 DEF Position
    <3>2. QED
      BY <1>0, <2>2, <3>1 DEF Ids
  <2>5. /\ keeper' \in Keeper
        /\ keeper'.todo = keeper.todo \ {i}
        /\ keeper'.closed = Append(keeper.closed, Pnl(t, o.at))
        /\ keeper'.next = keeper.next
    <3> DEFINE todo == keeper.todo \ {i}
               closed == Append(keeper.closed, Pnl(t, o.at))
    <3>1. todo \in SUBSET Nat /\ closed \in Seq(Int)
      BY <1>0, <2>3 DEF Keeper
    <3>2. keeper' = [keeper EXCEPT !.todo = todo, !.closed = closed]
      BY <2>2
    <3> HIDE DEF todo, closed
    <3>3. keeper' \in Keeper /\ keeper'.todo = todo /\ keeper'.closed = closed
          /\ keeper'.next = keeper.next
      BY <1>0, <3>1, <3>2 DEF Keeper
    <3>4. QED
      BY <3>3 DEF todo, closed
  <2>6. KeeperOK'
    BY <1>0, <2>3, <2>5 DEF KeeperOK, IndType
  <2>7. QED
    BY <1>4, <2>4, <2>5, <2>6 DEF Close, IndType, TypeOK
<1>5. CASE ReadAccount
  <2>1. Rolled(account, today) \in Account
    BY RolledType DEF IndType, TypeOK
  <2>2. /\ keeper' \in Keeper
        /\ keeper'.todo = keeper.todo /\ keeper'.closed = keeper.closed
        /\ keeper'.next = keeper.next
    BY <1>0, <1>5, <2>1 DEF ReadAccount, Keeper
  <2>3. QED
    BY <1>5, <2>2 DEF ReadAccount, IndType, TypeOK, KeeperOK
<1>6. CASE Book
  <2>1. Booked(keeper.draft, keeper.closed[keeper.next]) \in Account
    <3>1. keeper.closed[keeper.next] \in Int
      BY <1>0, <1>6 DEF Book, KeeperOK, IndType
    <3>2. QED
      BY <1>0, <3>1, BookedType
  <2>2. /\ keeper' \in Keeper
        /\ keeper'.todo = keeper.todo /\ keeper'.closed = keeper.closed
        /\ keeper'.next = keeper.next + 1
    <3> DEFINE draft == Booked(keeper.draft, keeper.closed[keeper.next])
    <3>1. keeper' = [keeper EXCEPT !.draft = draft, !.next = keeper.next + 1]
      BY <1>6 DEF Book
    <3>2. draft \in Account /\ keeper.next + 1 \in Nat
      BY <1>0, <2>1
    <3> HIDE DEF draft
    <3>3. QED
      BY <1>0, <3>1, <3>2 DEF Keeper
  <2>3. KeeperOK'
    BY <1>0, <1>6, <2>2 DEF Book, KeeperOK, IndType
  <2>4. QED
    BY <1>6, <2>2, <2>3 DEF Book, IndType, TypeOK
<1>7. CASE WriteAccount
  <2> DEFINE new == [i \in DOMAIN keeper.closed |->
                       [pnl |-> keeper.closed[i], day |-> keeper.draft.day]]
  <2>1. new \in Seq([pnl : Int, day : Nat])
    <3>1. DOMAIN keeper.closed = 1..Len(keeper.closed) /\ Len(keeper.closed) \in Nat
      BY <1>0
    <3>2. \A i \in DOMAIN keeper.closed : [pnl |-> keeper.closed[i], day |-> keeper.draft.day]
                                           \in [pnl : Int, day : Nat]
      BY <1>0 DEF Account
    <3>3. new \in [1..Len(keeper.closed) -> [pnl : Int, day : Nat]]
      BY <3>1, <3>2
    <3>4. QED
      BY <3>1, <3>3, SeqDef
  <2>2. booked' \in Seq([pnl : Int, day : Nat])
    BY <1>7, <2>1 DEF WriteAccount, IndType, TypeOK
  <2>3. account' \in Account /\ keeper' \in Keeper /\ keeper'.todo = {} /\ KeeperOK'
    BY <1>0, <1>7, IdleType DEF WriteAccount, KeeperOK, Idle
  <2>4. QED
    BY <1>7, <2>2, <2>3 DEF WriteAccount, IndType, TypeOK
<1>8. CASE EndTick \/ RefuseDates \/ Fault
  <2>0. keeper' = Idle /\ (gone' = gone \/ gone' = gone \o keeper.closed)
    BY <1>8 DEF EndTick, RefuseDates, Fault, LoseTick
  <2>1. keeper' \in Keeper /\ keeper'.todo = {} /\ KeeperOK'
    BY <2>0, IdleType DEF KeeperOK, Idle
  <2>2. gone' \in Seq(Int)
    <3>1. gone \in Seq(Int)
      BY DEF IndType, TypeOK
    <3>2. gone \o keeper.closed \in Seq(Int)
      BY <1>0, <3>1, ConcatProperties
    <3>3. QED
      BY <2>0, <3>1, <3>2, Zenon
  <2>3. QED
    BY <1>8, <2>1, <2>2 DEF EndTick, RefuseDates, Fault, LoseTick, IndType, TypeOK
<1>9. ASSUME NEW t \in Trades, Open(t)
      PROVE  IndType'
  <2>1. [trade |-> t, status |-> "OPEN", reason |-> None, realized |-> 0, unrealized |-> 0]
           \in Position
    BY DEF Position
  <2>2. positions' \in Seq(Position) /\ DOMAIN positions \subseteq DOMAIN positions'
    BY <1>0, <1>9, <2>1 DEF Open
  <2>3. QED
    BY <1>0, <1>9, <2>2 DEF Open, IndType, TypeOK, KeeperOK
<1>10. ASSUME NEW p \in Prices, Quote(p)
       PROVE  IndType'
  BY <1>10 DEF Quote, IndType, TypeOK, KeeperOK
<1>11. CASE NewDay
  BY <1>11 DEF NewDay, IndType, TypeOK, KeeperOK
<1>12. CASE UNCHANGED vars
  BY <1>12 DEF vars, IndType, TypeOK, KeeperOK
<1>13. QED
  BY <1>1, <1>2, <1>3, <1>4, <1>5, <1>6, <1>7, <1>8, <1>9, <1>10, <1>11, <1>12 DEF Next, KeeperStep

\* Every reachable state is well typed.
THEOREM KeeperTypeCorrect == Spec => []TypeOK
<1>1. IndType => TypeOK
  BY DEF IndType
<1>2. QED
  BY <1>1, InitType, NextType, PTL DEF Spec

-----------------------------------------------------------------------------
(* No position loses more than planned *)

LEMMA PlannedInit == Init => LossIsPlanned
BY DEF Init, LossIsPlanned, Closed, Ids

LEMMA PlannedNext == IndType /\ LossIsPlanned /\ [Next]_vars => LossIsPlanned'
<1> SUFFICES ASSUME IndType, LossIsPlanned, [Next]_vars PROVE LossIsPlanned'
  OBVIOUS
<1>0. positions \in Seq(Position)
  BY DEF IndType, TypeOK
<1>1. ASSUME NEW i \in Ids, Close(i)
      PROVE  LossIsPlanned'
  <2> DEFINE t == positions[i].trade
  <2>0. positions[i] \in Position /\ price \in Nat
    BY <1>0, <1>1 DEF Close, Ids, IndType, TypeOK
  <2>1. positions[i] \in Position /\ t \in Trades /\ price \in Nat
    BY <2>0 DEF Position
  <2>2. PICK o \in Evaluate(t, price) :
          positions' = IF positions[i].status = "OPEN"
                       THEN [positions EXCEPT ![i] =
                               [trade |-> t, status |-> "CLOSED", reason |-> o.reason,
                                realized |-> Pnl(t, o.at), unrealized |-> 0]]
                       ELSE positions
    BY <1>1 DEF Close
  <2>3. Pnl(t, o.at) >= -Risk(t) /\ (Pnl(t, o.at) < 0 <=> o.reason = "STOP_LOSS")
    BY <2>1, <2>2, OutcomeIsPlanned
  <2> DEFINE row == [trade |-> t, status |-> "CLOSED", reason |-> o.reason,
                     realized |-> Pnl(t, o.at), unrealized |-> 0]
  <2>4. /\ row.realized >= -Risk(row.trade)
        /\ row.realized < 0 <=> row.reason = "STOP_LOSS"
    BY <2>3
  <2>5. \A j \in DOMAIN positions' : j \in Ids /\ (positions'[j] = positions[j] \/ positions'[j] = row)
    BY <1>0, <2>2 DEF Ids
  <2>6. QED
    BY <2>4, <2>5 DEF LossIsPlanned, Closed, Ids, Risk
<1>2. ASSUME NEW i \in Ids, Mark(i)
      PROVE  LossIsPlanned'
  <2>1. positions[i] \in Position
    BY <1>0, <1>2 DEF Ids
  <2>2. \A j \in Ids : /\ positions'[j].trade = positions[j].trade
                      /\ positions'[j].status = positions[j].status
                      /\ positions'[j].realized = positions[j].realized
                      /\ positions'[j].reason = positions[j].reason
    BY <1>0, <1>2, <2>1 DEF Mark, Position, Ids
  <2>3. DOMAIN positions' = Ids
    BY <1>0, <1>2 DEF Mark, Ids
  <2>4. QED
    BY <2>2, <2>3 DEF LossIsPlanned, Closed, Ids, Risk
<1>3. ASSUME NEW t \in Trades, Open(t)
      PROVE  LossIsPlanned'
  <2>1. \A j \in DOMAIN positions' : \/ j \in Ids /\ positions'[j] = positions[j]
                                    \/ positions'[j].status = "OPEN"
    BY <1>0, <1>3 DEF Open, Ids
  <2>2. QED
    BY <2>1 DEF LossIsPlanned, Closed, Ids, Risk
<1>4. CASE UNCHANGED positions
  BY <1>4 DEF LossIsPlanned, Closed, Ids, Risk
<1>5. QED
  BY <1>1, <1>2, <1>3, <1>4
     DEF Next, KeeperStep, StartTick, Skip, ReadAccount, Book, EndTick, WriteAccount, RefuseDates,
         Fault, LoseTick, Quote, NewDay, vars

\* However prices run between two ticks, and whatever ticks fail, a closed
\* position lost at most the distance to its stop.
THEOREM PlannedLoss == Spec => []LossIsPlanned
BY PlannedInit, PlannedNext, InitType, NextType, PTL DEF Spec

USE RiskAssumption, CallsAssumption

-----------------------------------------------------------------------------
(* What a place does to the state of the keeper *)

\* A step of a place opens the position it has a decision for, or changes
\* nothing the keeper knows.
LEMMA StepOfPlace ==
    ASSUME NEW c \in PlaceCalls, PlaceStep(c)
    PROVE  \/ UNCHANGED vars
           \/ places[c].pc = "insert" /\ Open(places[c].trade) /\ Insert(c)
BY DEF PlaceStep, Begin, CountOpen, CheckLoss, Insert, Abandon

-----------------------------------------------------------------------------
(* Type correctness *)

\* A place under way has a decision.
HasTrade == \A c \in PlaceCalls : places[c].pc # "idle" => places[c].trade \in Trades

TypeInv == IndType /\ places \in [PlaceCalls -> Place] /\ HasTrade

LEMMA EquityType == \A a \in Account : EquityFor(a) \in Int
BY DEF EquityFor, Account

LEMMA FreeType == Free \in Place /\ Free.pc = "idle"
BY DEF Free, Place

\* What a step of one place leaves it in.
LEMMA PlaceTo ==
    ASSUME TypeInv, NEW c \in PlaceCalls, PlaceStep(c)
    PROVE  \E new \in Place : /\ places' = [places EXCEPT ![c] = new]
                              /\ new.pc # "idle" => new.trade \in Trades
<1>0. places[c] \in Place /\ account \in Account
      /\ (places[c].pc # "idle" => places[c].trade \in Trades)
  BY DEF TypeInv, IndType, TypeOK, HasTrade
<1>1. ASSUME NEW t \in Trades, Begin(c, t)
      PROVE  \E new \in Place : /\ places' = [places EXCEPT ![c] = new]
                                /\ new.pc # "idle" => new.trade \in Trades
  <2> DEFINE asks == [pc |-> "count", trade |-> t, equity |-> EquityFor(account)]
             inserts == [pc |-> "insert", trade |-> t, equity |-> 0]
  <2>1. asks \in Place /\ inserts \in Place /\ asks.trade = t /\ inserts.trade = t
    BY <1>0, EquityType DEF Place, Free
  <2>2. \E new \in {Free, asks, inserts} : places' = [places EXCEPT ![c] = new]
    BY <1>1 DEF Begin, GoOn
  <2>3. QED
    BY <2>1, <2>2, FreeType
<1>2. CASE CountOpen(c)
  <2> DEFINE next == [places[c] EXCEPT !.pc = "daily"]
  <2>1. next \in Place /\ next.trade = places[c].trade /\ places[c].pc # "idle"
    BY <1>0, <1>2 DEF Place, CountOpen
  <2>2. \E new \in {Free, next} : places' = [places EXCEPT ![c] = new]
    BY <1>2 DEF CountOpen, GoOn
  <2>3. QED
    BY <1>0, <2>1, <2>2, FreeType
<1>3. CASE CheckLoss(c)
  <2> DEFINE next == [places[c] EXCEPT !.pc = Following[@]]
  <2>1. /\ places[c].pc \in {"daily", "weekly", "streak"}
        /\ Following[places[c].pc] \in {"weekly", "streak", "insert"}
    BY <1>3 DEF CheckLoss, Following
  <2>2. next \in Place /\ next.trade = places[c].trade /\ places[c].pc # "idle"
    BY <1>0, <2>1 DEF Place
  <2>3. \E new \in {Free, next} : places' = [places EXCEPT ![c] = new]
    BY <1>3 DEF CheckLoss, GoOn
  <2>4. QED
    BY <1>0, <2>2, <2>3, FreeType
<1>4. CASE Insert(c) \/ Abandon(c)
  BY <1>4, FreeType DEF Insert, Abandon
<1>5. QED
  BY <1>1, <1>2, <1>3, <1>4 DEF PlaceStep

LEMMA TypeInit == TradingInit => TypeInv
BY InitType, FreeType DEF TradingInit, TypeInv, HasTrade, Place

LEMMA KeeperSide == TypeInv /\ [TradingNext]_tradingVars => [Next]_vars
<1> SUFFICES ASSUME TypeInv, [TradingNext]_tradingVars PROVE [Next]_vars
  OBVIOUS
<1>1. ASSUME NEW c \in PlaceCalls, PlaceStep(c)
      PROVE  [Next]_vars
  BY <1>1, StepOfPlace DEF TypeInv, HasTrade, Next
<1>2. CASE KeeperStep \/ Fault \/ NewDay \/ \E p \in Prices : Quote(p)
  BY <1>2 DEF Next
<1>3. CASE UNCHANGED tradingVars
  BY <1>3 DEF tradingVars
<1>4. QED
  BY <1>1, <1>2, <1>3 DEF TradingNext

LEMMA TypeNext == TypeInv /\ [TradingNext]_tradingVars => TypeInv'
<1> SUFFICES ASSUME TypeInv, [TradingNext]_tradingVars PROVE TypeInv'
  OBVIOUS
<1>1. IndType'
  BY KeeperSide, NextType DEF TypeInv
<1>2. ASSUME NEW c \in PlaceCalls, PlaceStep(c)
      PROVE  places' \in [PlaceCalls -> Place] /\ HasTrade'
  <2>1. PICK new \in Place : /\ places' = [places EXCEPT ![c] = new]
                             /\ new.pc # "idle" => new.trade \in Trades
    BY <1>2, PlaceTo
  <2>2. QED
    BY <2>1 DEF TypeInv, HasTrade
<1>3. CASE UNCHANGED places
  BY <1>1, <1>3 DEF TypeInv, HasTrade
<1>4. QED
  BY <1>1, <1>2, <1>3 DEF TradingNext, tradingVars, TypeInv

\* Every reachable state is well typed.
THEOREM TradingTypeCorrect == TradingSpec => []TradingTypeOK
<1>1. TypeInv => TradingTypeOK
  BY DEF TypeInv, IndType, TradingTypeOK
<1>2. QED
  BY <1>1, TypeInit, TypeNext, PTL DEF TradingSpec

-----------------------------------------------------------------------------
(* No position loses more than planned, checked or not *)

\* The keeper's promise survives the places that run beside it.
THEOREM TradingLossIsPlanned == TradingSpec => []LossIsPlanned
<1>1. TradingInit => Init
  BY DEF TradingInit
<1>2. QED
  BY <1>1, TypeInit, TypeNext, KeeperSide, PlannedInit, PlannedNext, PTL DEF TradingSpec, TypeInv

-----------------------------------------------------------------------------
(* The limit on open positions *)

\* Places that have counted and may still open a directional position.
Coming == {c \in PlaceCalls : /\ places[c].pc \in {"daily", "weekly", "streak", "insert"}
                              /\ Directional(places[c].trade)}

Bounded == Cardinality(OpenDirectional) + Cardinality(Coming) <= Overbooked

LEMMA Finite ==
    ASSUME TypeInv
    PROVE  /\ IsFiniteSet(OpenIds) /\ IsFiniteSet(OpenDirectional) /\ IsFiniteSet(Coming)
           /\ Cardinality(OpenDirectional) <= Cardinality(OpenIds)
           /\ Cardinality(Coming) <= Cardinality(PlaceCalls)
           /\ Cardinality(OpenIds) \in Nat /\ Cardinality(OpenDirectional) \in Nat
           /\ Cardinality(Coming) \in Nat
<1>1. Ids = 1..Len(positions) /\ Len(positions) \in Nat
  BY DEF TypeInv, IndType, TypeOK, Ids
<1>2. IsFiniteSet(Ids)
  BY <1>1, FS_Interval
<1>3. OpenIds \in SUBSET Ids /\ OpenDirectional \in SUBSET OpenIds /\ Coming \in SUBSET PlaceCalls
  BY DEF OpenIds, OpenDirectional, Coming
<1>4. IsFiniteSet(OpenIds)
  BY <1>2, <1>3, FS_Subset
<1>5. /\ IsFiniteSet(OpenDirectional) /\ Cardinality(OpenDirectional) <= Cardinality(OpenIds)
      /\ IsFiniteSet(Coming) /\ Cardinality(Coming) <= Cardinality(PlaceCalls)
  BY <1>3, <1>4, FS_Subset
<1>6. QED
  BY <1>4, <1>5, FS_CardinalityType

LEMMA CallsCount == Cardinality(PlaceCalls) \in Nat \ {0}
BY FS_CardinalityType, FS_EmptySet

\* Closing positions and ending places can only lower the sum.
LEMMA Fewer ==
    ASSUME TypeInv, Bounded, TypeInv',
           OpenDirectional' \subseteq OpenDirectional, Coming' \subseteq Coming
    PROVE  Bounded'
<1>1. /\ Cardinality(OpenDirectional') <= Cardinality(OpenDirectional)
      /\ Cardinality(Coming') <= Cardinality(Coming)
      /\ Cardinality(OpenDirectional') \in Nat /\ Cardinality(Coming') \in Nat
      /\ Cardinality(OpenDirectional) \in Nat /\ Cardinality(Coming) \in Nat
  BY Finite, FS_Subset, FS_CardinalityType
<1>2. QED
  BY <1>1, CallsCount DEF Bounded, Overbooked

\* The keeper opens nothing.
LEMMA KeeperOpensNothing ==
    ASSUME TypeInv, KeeperStep \/ Fault \/ NewDay \/ \E p \in Prices : Quote(p)
    PROVE  /\ OpenIds' \subseteq OpenIds
           /\ \A i \in OpenIds' : positions'[i].trade = positions[i].trade
<1>0. positions \in Seq(Position)
  BY DEF TypeInv, IndType, TypeOK
<1>1. ASSUME NEW i \in Ids, Mark(i)
      PROVE  /\ OpenIds' \subseteq OpenIds
             /\ \A j \in OpenIds' : positions'[j].trade = positions[j].trade
  <2>1. positions[i] \in Position
    BY <1>0 DEF Ids
  <2>2. /\ DOMAIN positions' = Ids
        /\ \A j \in Ids : /\ positions'[j].trade = positions[j].trade
                           /\ positions'[j].status = positions[j].status
    BY <1>0, <1>1, <2>1 DEF Mark, Position, Ids
  <2>3. QED
    BY <2>2 DEF OpenIds, Ids
<1>2. ASSUME NEW i \in Ids, Close(i)
      PROVE  /\ OpenIds' \subseteq OpenIds
             /\ \A j \in OpenIds' : positions'[j].trade = positions[j].trade
  <2>1. PICK o \in Evaluate(positions[i].trade, price) :
          positions' = IF positions[i].status = "OPEN"
                       THEN [positions EXCEPT ![i] =
                               [trade |-> positions[i].trade, status |-> "CLOSED", reason |-> o.reason,
                                realized |-> Pnl(positions[i].trade, o.at), unrealized |-> 0]]
                       ELSE positions
    BY <1>2 DEF Close
  <2>2. DOMAIN positions' = Ids /\ \A j \in Ids : positions'[j].status = "OPEN" => positions'[j] = positions[j]
    BY <1>0, <2>1 DEF Ids
  <2>3. QED
    BY <2>2 DEF OpenIds, Ids
<1>3. CASE UNCHANGED positions
  BY <1>3 DEF OpenIds, Ids
<1>4. QED
  BY <1>1, <1>2, <1>3 DEF KeeperStep, StartTick, Skip, ReadAccount, Book, EndTick, WriteAccount,
                          RefuseDates, Fault, LoseTick, Quote, NewDay

LEMMA BoundedInit == TradingInit => Bounded
<1> SUFFICES ASSUME TradingInit PROVE Bounded
  OBVIOUS
<1>1. OpenDirectional = {} /\ Coming = {}
  BY DEF TradingInit, Init, OpenDirectional, OpenIds, Ids, Coming, Free
<1>2. QED
  BY <1>1, FS_EmptySet, CallsCount DEF Bounded, Overbooked

\* A place that changes nothing but itself, and does not come to be counted.
LEMMA PlaceLeaves ==
    ASSUME TypeInv, Bounded, TypeInv', NEW c \in PlaceCalls, NEW new, UNCHANGED vars,
           places' = [places EXCEPT ![c] = new],
           new.pc \in {"daily", "weekly", "streak", "insert"} /\ Directional(new.trade) => c \in Coming
    PROVE  Bounded'
<1>1. Coming' \subseteq Coming
  BY DEF Coming, TypeInv
<1>2. OpenDirectional' = OpenDirectional
  BY DEF OpenDirectional, OpenIds, Ids, vars
<1>3. QED
  BY <1>1, <1>2, Fewer

LEMMA BoundedNext == TypeInv /\ Bounded /\ [TradingNext]_tradingVars => Bounded'
<1> SUFFICES ASSUME TypeInv, Bounded, [TradingNext]_tradingVars PROVE Bounded'
  OBVIOUS
<1>0. TypeInv' /\ places \in [PlaceCalls -> Place]
  BY TypeNext DEF TypeInv
<1>1. ASSUME NEW c \in PlaceCalls, NEW t \in Trades, Begin(c, t)
      PROVE  Bounded'
  <2> DEFINE asks == [pc |-> "count", trade |-> t, equity |-> EquityFor(account)]
             inserts == [pc |-> "insert", trade |-> t, equity |-> 0]
  <2>1. /\ UNCHANGED vars
        /\ \E new \in {Free, asks, inserts} :
             /\ places' = [places EXCEPT ![c] = new]
             /\ new = inserts => ~Directional(t)
    <3>1. Free # inserts /\ asks # inserts
      <4>1. Free.pc = "idle" /\ asks.pc = "count" /\ inserts.pc = "insert"
        BY DEF Free
      <4> HIDE DEF asks, inserts
      <4>2. QED
        BY <4>1
    <3>2. CASE Directional(t)
      BY <1>1, <3>1, <3>2 DEF Begin, GoOn
    <3>3. CASE ~Directional(t)
      BY <1>1, <3>3 DEF Begin, GoOn
    <3>4. QED
      BY <3>2, <3>3
  <2>2. PICK new \in {Free, asks, inserts} :
          /\ places' = [places EXCEPT ![c] = new]
          /\ new = inserts => ~Directional(t)
    BY <2>1
  <2>3. ~(new.pc \in {"daily", "weekly", "streak", "insert"} /\ Directional(new.trade))
    <3>1. Free.pc = "idle" /\ asks.pc = "count" /\ inserts.trade = t
      BY DEF Free
    <3> HIDE DEF asks, inserts
    <3>2. CASE new = inserts
      BY <2>2, <3>1, <3>2 DEF Directional
    <3>3. CASE new # inserts
      BY <2>2, <3>1, <3>3
    <3>4. QED
      BY <3>2, <3>3
  <2>4. QED
    BY <1>0, <2>1, <2>2, <2>3, PlaceLeaves
<1>2. ASSUME NEW c \in PlaceCalls, CountOpen(c)
      PROVE  Bounded'
  <2> DEFINE full == Cardinality(OpenIds) >= MaxOpenPositions
             next == [places[c] EXCEPT !.pc = "daily"]
  <2>1. UNCHANGED vars /\ places' = [places EXCEPT ![c] = IF full THEN Free ELSE next]
    BY <1>2 DEF CountOpen, GoOn
  <2>2. CASE full
    BY <1>0, <2>1, <2>2, PlaceLeaves DEF Free
  <2>3. CASE ~full
    <3>1. /\ Cardinality(OpenIds) + 1 <= MaxOpenPositions
          /\ Cardinality(OpenDirectional) <= Cardinality(OpenIds)
          /\ Cardinality(OpenIds) \in Nat /\ Cardinality(OpenDirectional) \in Nat
      BY <2>3, Finite
    <3>2. OpenDirectional' = OpenDirectional
      BY <2>1 DEF OpenDirectional, OpenIds, Ids, vars
    <3>3. Cardinality(Coming') <= Cardinality(PlaceCalls) /\ Cardinality(Coming') \in Nat
      <4>1. Coming' \in SUBSET PlaceCalls
        BY DEF Coming
      <4>2. QED
        BY <4>1, FS_Subset, FS_CardinalityType
    <3>4. QED
      BY <3>1, <3>2, <3>3, CallsCount DEF Bounded, Overbooked
  <2>4. QED
    BY <2>2, <2>3
<1>3. ASSUME NEW c \in PlaceCalls, CheckLoss(c)
      PROVE  Bounded'
  <2> DEFINE next == [places[c] EXCEPT !.pc = Following[places[c].pc]]
  <2>1. UNCHANGED vars /\ \E new \in {Free, next} : places' = [places EXCEPT ![c] = new]
    BY <1>3 DEF CheckLoss, GoOn
  <2>2. PICK new \in {Free, next} : places' = [places EXCEPT ![c] = new]
    BY <2>1
  <2>3. places[c].pc \in {"daily", "weekly", "streak"} /\ places[c] \in Place
    BY <1>0, <1>3 DEF CheckLoss, Following
  <2>4. Free.pc = "idle" /\ next.trade = places[c].trade
    BY <2>3 DEF Free, Place
  <2>5. new.pc \in {"daily", "weekly", "streak", "insert"} /\ Directional(new.trade) => c \in Coming
    BY <2>2, <2>3, <2>4 DEF Coming
  <2>6. QED
    BY <1>0, <2>1, <2>2, <2>5, PlaceLeaves
<1>4. ASSUME NEW c \in PlaceCalls, Insert(c)
      PROVE  Bounded'
  <2> DEFINE t == places[c].trade
             opened == Len(positions) + 1
  <2>0. positions \in Seq(Position)
    BY DEF TypeInv, IndType, TypeOK
  <2>1. /\ places' = [places EXCEPT ![c] = Free] /\ places[c].pc = "insert"
        /\ positions' = Append(positions, [trade |-> t, status |-> "OPEN", reason |-> None,
                                           realized |-> 0, unrealized |-> 0])
    BY <1>4 DEF Insert, Open
  <2>2. /\ DOMAIN positions' = Ids \cup {opened}
        /\ \A i \in Ids : positions'[i] = positions[i]
        /\ positions'[opened].trade = t
    BY <2>0, <2>1 DEF Ids
  <2>3. CASE ~Directional(t)
    <3>1. OpenDirectional' \subseteq OpenDirectional
      BY <2>2, <2>3 DEF OpenDirectional, OpenIds, Ids
    <3>2. Coming' \subseteq Coming
      BY <1>0, <2>1 DEF Coming, Free
    <3>3. QED
      BY <1>0, <3>1, <3>2, Fewer
  <2>4. CASE Directional(t)
    <3>1. OpenDirectional' \in SUBSET (OpenDirectional \cup {opened})
      BY <2>2 DEF OpenDirectional, OpenIds, Ids
    <3>2. Coming' = Coming \ {c} /\ c \in Coming
      BY <1>0, <2>1, <2>4 DEF Coming, Free
    <3>3. /\ IsFiniteSet(OpenDirectional) /\ IsFiniteSet(Coming)
          /\ Cardinality(OpenDirectional) \in Nat /\ Cardinality(Coming) \in Nat
      BY Finite
    <3>4. Cardinality(Coming') = Cardinality(Coming) - 1
      BY <3>2, <3>3, FS_RemoveElement
    <3>5. /\ IsFiniteSet(OpenDirectional \cup {opened})
          /\ Cardinality(OpenDirectional \cup {opened}) <= Cardinality(OpenDirectional) + 1
          /\ Cardinality(OpenDirectional \cup {opened}) \in Nat
      <4>1. /\ IsFiniteSet(OpenDirectional \cup {opened})
            /\ Cardinality(OpenDirectional \cup {opened}) =
                 IF opened \in OpenDirectional THEN Cardinality(OpenDirectional)
                 ELSE Cardinality(OpenDirectional) + 1
        BY <3>3, FS_AddElement
      <4>2. QED
        BY <3>3, <4>1
    <3>6. /\ Cardinality(OpenDirectional') <= Cardinality(OpenDirectional) + 1
          /\ Cardinality(OpenDirectional') \in Nat
      <4>1. /\ IsFiniteSet(OpenDirectional')
            /\ Cardinality(OpenDirectional') <= Cardinality(OpenDirectional \cup {opened})
        BY <3>1, <3>5, FS_Subset
      <4>2. QED
        BY <3>3, <3>5, <4>1, FS_CardinalityType
    <3>7. QED
      BY <3>3, <3>4, <3>6, CallsCount DEF Bounded, Overbooked
  <2>5. QED
    BY <2>3, <2>4
<1>5. ASSUME NEW c \in PlaceCalls, Abandon(c)
      PROVE  Bounded'
  BY <1>0, <1>5, PlaceLeaves DEF Abandon, Free
<1>6. CASE /\ KeeperStep \/ Fault \/ NewDay \/ \E p \in Prices : Quote(p)
           /\ UNCHANGED places
  <2>1. OpenDirectional' \subseteq OpenDirectional
    BY <1>6, KeeperOpensNothing DEF OpenDirectional
  <2>2. Coming' \subseteq Coming
    BY <1>6 DEF Coming
  <2>3. QED
    BY <1>0, <2>1, <2>2, Fewer
<1>7. CASE UNCHANGED tradingVars
  BY <1>7 DEF tradingVars, vars, Bounded, OpenDirectional, OpenIds, Ids, Coming
<1>8. QED
  BY <1>1, <1>2, <1>3, <1>4, <1>5, <1>6, <1>7 DEF TradingNext, PlaceStep

\* Overlapping places exceed the limit by their number less one and no more,
\* for any limit, any number of places and any keeper.
THEOREM OpenBounded == TradingSpec => []OpenIsBounded
<1>1. TypeInv /\ Bounded => OpenIsBounded
  BY Finite, CallsCount DEF Bounded, OpenIsBounded, Overbooked
<1>2. QED
  BY <1>1, TypeInit, TypeNext, BoundedInit, BoundedNext, PTL DEF TradingSpec

-----------------------------------------------------------------------------
(* A pause holds *)

\* No position is looked at twice in a tick, nor after it was closed.
TodoIsOpen == keeper.todo \subseteq OpenIds

\* A tick that closed nothing is about to write the streak and the equity it read.
DraftFollows ==
    keeper.pc = "book" /\ keeper.closed = <<>> =>
        keeper.draft.streak = account.streak /\ keeper.draft.equity = account.equity

KeeperInv == TodoIsOpen /\ DraftFollows

LEMMA KeeperInit == Init => KeeperInv
BY DEF Init, KeeperInv, TodoIsOpen, DraftFollows, Idle

\* A mark leaves what a position is and whether it is open.
LEMMA MarkKeeps ==
    ASSUME IndType, NEW i \in Ids, Mark(i)
    PROVE  /\ OpenIds' = OpenIds
           /\ \A j \in Ids : positions'[j].trade = positions[j].trade
<1>0. positions \in Seq(Position)
  BY DEF IndType, TypeOK
<1>1. positions[i] \in Position
  BY <1>0 DEF Ids
<1>2. /\ DOMAIN positions' = Ids
      /\ \A j \in Ids : /\ positions'[j].trade = positions[j].trade
                         /\ positions'[j].status = positions[j].status
  BY <1>0, <1>1 DEF Mark, Position, Ids
<1>3. QED
  BY <1>2 DEF OpenIds, Ids

LEMMA KeeperNext == IndType /\ KeeperInv /\ [Next]_vars => KeeperInv'
<1> SUFFICES ASSUME IndType, KeeperInv, [Next]_vars PROVE KeeperInv'
  OBVIOUS
<1>0. /\ positions \in Seq(Position) /\ keeper \in Keeper /\ account \in Account
      /\ keeper.next \in 1..(Len(keeper.closed) + 1)
  BY DEF IndType, TypeOK, KeeperOK
<1>1. CASE StartTick
  <2>1. keeper'.todo = OpenIds /\ keeper'.pc = "scan" /\ OpenIds' = OpenIds
    BY <1>1 DEF StartTick, Idle, OpenIds, Ids
  <2>2. QED
    BY <2>1 DEF KeeperInv, TodoIsOpen, DraftFollows
<1>2. ASSUME NEW i \in Ids, Skip(i) \/ Mark(i)
      PROVE  KeeperInv'
  <2>1. keeper'.todo = keeper.todo \ {i} /\ keeper'.pc = "scan"
    BY <1>0, <1>2 DEF Skip, Mark, IsNext, Keeper
  <2>2. OpenIds' = OpenIds
    BY <1>2, MarkKeeps DEF Skip, OpenIds, Ids
  <2>3. QED
    BY <2>1, <2>2 DEF KeeperInv, TodoIsOpen, DraftFollows
<1>3. ASSUME NEW i \in Ids, Close(i)
      PROVE  KeeperInv'
  <2>1. PICK o \in Evaluate(positions[i].trade, price) :
          /\ positions' = IF positions[i].status = "OPEN"
                          THEN [positions EXCEPT ![i] =
                                  [trade |-> positions[i].trade, status |-> "CLOSED", reason |-> o.reason,
                                   realized |-> Pnl(positions[i].trade, o.at), unrealized |-> 0]]
                          ELSE positions
          /\ keeper' = [keeper EXCEPT !.todo = @ \ {i},
                                      !.closed = Append(@, Pnl(positions[i].trade, o.at))]
    BY <1>3 DEF Close
  <2>2. keeper'.todo = keeper.todo \ {i} /\ keeper'.pc = "scan"
    BY <1>0, <1>3, <2>1 DEF Close, IsNext, Keeper
  <2>3. DOMAIN positions' = Ids /\ \A j \in Ids \ {i} : positions'[j] = positions[j]
    BY <1>0, <2>1 DEF Ids
  <2>4. \A j \in OpenIds \ {i} : j \in OpenIds'
    BY <2>3 DEF OpenIds, Ids
  <2>5. QED
    BY <2>2, <2>4 DEF KeeperInv, TodoIsOpen, DraftFollows
<1>4. CASE ReadAccount
  <2>1. Rolled(account, today).streak = account.streak /\ Rolled(account, today).equity = account.equity
    BY <1>0 DEF Rolled, Account
  <2>2. /\ keeper'.todo = keeper.todo /\ keeper'.draft = Rolled(account, today)
        /\ account' = account /\ OpenIds' = OpenIds
    BY <1>0, <1>4 DEF ReadAccount, Keeper, OpenIds, Ids
  <2>3. QED
    BY <2>1, <2>2 DEF KeeperInv, TodoIsOpen, DraftFollows
<1>5. CASE Book
  <2>1. /\ keeper'.todo = keeper.todo /\ keeper'.closed = keeper.closed /\ OpenIds' = OpenIds
        /\ keeper.closed # <<>>
    BY <1>0, <1>5 DEF Book, Keeper, OpenIds, Ids
  <2>2. QED
    BY <2>1 DEF KeeperInv, TodoIsOpen, DraftFollows
<1>6. CASE EndTick \/ WriteAccount \/ RefuseDates \/ Fault
  <2>1. keeper'.todo = {} /\ keeper'.pc = "idle"
    BY <1>6 DEF EndTick, WriteAccount, RefuseDates, Fault, LoseTick, Idle
  <2>2. QED
    BY <2>1 DEF KeeperInv, TodoIsOpen, DraftFollows
<1>7. ASSUME NEW t \in Trades, Open(t)
      PROVE  KeeperInv'
  <2>1. OpenIds \subseteq OpenIds' /\ keeper' = keeper /\ account' = account
    BY <1>0, <1>7 DEF Open, OpenIds, Ids
  <2>2. QED
    BY <2>1 DEF KeeperInv, TodoIsOpen, DraftFollows
<1>8. CASE UNCHANGED <<positions, account, keeper>>
  BY <1>8 DEF KeeperInv, TodoIsOpen, DraftFollows, OpenIds, Ids
<1>9. QED
  BY <1>1, <1>2, <1>3, <1>4, <1>5, <1>6, <1>7, <1>8 DEF Next, KeeperStep, Quote, NewDay, vars

\* What a pause rests on.
LEMMA PauseFrame ==
    ASSUME TypeInv, TypeInv', Paused,
           account'.streak = account.streak, account'.equity = account.equity,
           OpenIds \subseteq OpenIds', OpenDirectional' = {}, keeper'.closed = <<>>,
           \A c \in PlaceCalls : places'[c] = places[c] \/ Doomed(c)'
    PROVE  Paused'
<1>1. /\ Cardinality(OpenIds) \in Nat /\ Cardinality(OpenIds') \in Nat
      /\ Cardinality(OpenIds) <= Cardinality(OpenIds')
  <2>1. OpenIds' \in SUBSET (1..Len(positions')) /\ Len(positions') \in Nat
    BY DEF OpenIds, Ids, TypeInv, IndType, TypeOK
  <2>2. IsFiniteSet(1..Len(positions'))
    BY <2>1, FS_Interval
  <2>3. IsFiniteSet(OpenIds') /\ OpenIds \in SUBSET OpenIds'
    BY <2>1, <2>2, FS_Subset
  <2>4. QED
    BY <2>3, FS_Subset, FS_CardinalityType
<1>2. Cardinality(OpenIds) >= MaxOpenPositions => Cardinality(OpenIds') >= MaxOpenPositions
  BY <1>1
<1>3. EquityFor(account') = EquityFor(account)
  BY DEF EquityFor
<1>4. ASSUME NEW c \in PlaceCalls, places'[c] = places[c]
      PROVE  Doomed(c)'
  BY <1>2, <1>4 DEF Paused, Doomed
<1>5. QED
  BY <1>2, <1>3, <1>4 DEF Paused

LEMMA PauseStep ==
    TypeInv /\ KeeperInv /\ [TradingNext]_tradingVars => (Paused => Paused')
<1> SUFFICES ASSUME TypeInv, KeeperInv, [TradingNext]_tradingVars, Paused PROVE Paused'
  OBVIOUS
<1>0. /\ TypeInv' /\ places \in [PlaceCalls -> Place] /\ positions \in Seq(Position)
      /\ keeper \in Keeper /\ IndType
  BY TypeNext DEF TypeInv, IndType, TypeOK
<1>a. ASSUME NEW c \in PlaceCalls, NEW new, UNCHANGED vars, Doomed(c)',
             places' = [places EXCEPT ![c] = new]
      PROVE  Paused'
  <2>1. OpenIds' = OpenIds /\ OpenDirectional' = OpenDirectional
    BY <1>a DEF vars, OpenDirectional, OpenIds, Ids
  <2>2. \A d \in PlaceCalls : places'[d] = places[d] \/ Doomed(d)'
    BY <1>0, <1>a
  <2>3. OpenDirectional = {} /\ keeper'.closed = <<>> /\ account' = account
    BY <1>a DEF Paused, vars
  <2>4. QED
    BY <1>0, <2>1, <2>2, <2>3, PauseFrame
<1>b. \A c \in PlaceCalls : places'[c] = Free => Doomed(c)'
  BY DEF Doomed, Free
<1>1. ASSUME NEW c \in PlaceCalls, NEW t \in Trades, Begin(c, t)
      PROVE  Paused'
  <2>1. UNCHANGED vars /\ account' = account /\ OpenIds' = OpenIds
    BY <1>1 DEF Begin, vars, OpenIds, Ids
  <2>2. CASE ~Directional(t)
    <3>1. places' = [places EXCEPT ![c] = [pc |-> "insert", trade |-> t, equity |-> 0]]
      BY <1>1, <2>2 DEF Begin, GoOn
    <3>2. places'[c].trade = t
      BY <1>0, <3>1
    <3>3. QED
      BY <1>a, <2>1, <2>2, <3>1, <3>2 DEF Doomed
  <2>3. CASE Directional(t) /\ RiskTooHigh(EquityFor(account))
    <3>1. places' = [places EXCEPT ![c] = Free]
      BY <1>1, <2>3 DEF Begin, GoOn
    <3>2. places'[c] = Free
      BY <1>0, <3>1
    <3>3. QED
      BY <1>a, <1>b, <2>1, <3>1, <3>2
  <2>4. CASE Directional(t) /\ ~RiskTooHigh(EquityFor(account))
    <3>1. places' = [places EXCEPT ![c] = [pc |-> "count", trade |-> t, equity |-> EquityFor(account)]]
      BY <1>1, <2>4 DEF Begin, GoOn
    <3>2. places'[c].pc = "count"
      BY <1>0, <3>1
    <3>3. account.streak >= PauseAfter \/ Cardinality(OpenIds) >= MaxOpenPositions
      BY <2>4 DEF Paused
    <3>4. Doomed(c)'
      BY <2>1, <3>2, <3>3 DEF Doomed
    <3>5. QED
      BY <1>a, <2>1, <3>1, <3>4
  <2>5. QED
    BY <2>2, <2>3, <2>4
<1>2. ASSUME NEW c \in PlaceCalls, CountOpen(c)
      PROVE  Paused'
  <2> DEFINE full == Cardinality(OpenIds) >= MaxOpenPositions
             next == [places[c] EXCEPT !.pc = "daily"]
  <2>1. /\ UNCHANGED vars /\ account' = account
        /\ places' = [places EXCEPT ![c] = IF full THEN Free ELSE next]
        /\ places[c].pc = "count"
    BY <1>2 DEF CountOpen, GoOn, vars
  <2>2. CASE full
    <3>1. places' = [places EXCEPT ![c] = Free] /\ places'[c] = Free
      BY <1>0, <2>1, <2>2
    <3>2. QED
      BY <1>a, <1>b, <2>1, <3>1
  <2>3. CASE ~full
    <3>1. Doomed(c) /\ places[c] \in Place
      BY <1>0 DEF Paused
    <3>2. account.streak >= PauseAfter \/ ~Directional(places[c].trade)
      BY <2>1, <2>3, <3>1 DEF Doomed
    <3>3. places'[c] = next /\ next.pc = "daily" /\ next.trade = places[c].trade
      BY <1>0, <2>1, <2>3, <3>1 DEF Place
    <3>4. Doomed(c)'
      BY <2>1, <3>2, <3>3 DEF Doomed
    <3>5. QED
      BY <1>a, <2>1, <3>4
  <2>4. QED
    BY <2>2, <2>3
<1>3. ASSUME NEW c \in PlaceCalls, CheckLoss(c)
      PROVE  Paused'
  <2> DEFINE broken == Breaks(places[c].pc, places[c].equity, account)
             next == [places[c] EXCEPT !.pc = Following[places[c].pc]]
  <2>1. /\ UNCHANGED vars /\ account' = account
        /\ places' = [places EXCEPT ![c] = IF broken THEN Free ELSE next]
        /\ places[c].pc \in {"daily", "weekly", "streak"}
    BY <1>3 DEF CheckLoss, GoOn, vars, Following
  <2>2. CASE broken
    <3>1. places' = [places EXCEPT ![c] = Free] /\ places'[c] = Free
      BY <1>0, <2>1, <2>2
    <3>2. QED
      BY <1>a, <1>b, <2>1, <3>1
  <2>3. CASE ~broken
    <3>1. Doomed(c) /\ places[c] \in Place
      BY <1>0 DEF Paused
    <3>2. account.streak >= PauseAfter \/ ~Directional(places[c].trade)
      BY <2>1, <3>1 DEF Doomed
    <3>3. /\ places'[c] = next /\ next.trade = places[c].trade
          /\ next.pc = Following[places[c].pc]
      BY <1>0, <2>1, <2>3, <3>1 DEF Place
    <3>4. account.streak >= PauseAfter => next.pc # "insert"
      BY <2>1, <2>3, <3>3 DEF Breaks, Following
    <3>5. Doomed(c)'
      BY <2>1, <3>2, <3>3, <3>4 DEF Doomed
    <3>6. QED
      BY <1>a, <2>1, <3>5
  <2>4. QED
    BY <2>2, <2>3
<1>4. ASSUME NEW c \in PlaceCalls, Insert(c)
      PROVE  Paused'
  <2> DEFINE t == places[c].trade
             opened == Len(positions) + 1
  <2>1. /\ places' = [places EXCEPT ![c] = Free] /\ places[c].pc = "insert"
        /\ positions' = Append(positions, [trade |-> t, status |-> "OPEN", reason |-> None,
                                           realized |-> 0, unrealized |-> 0])
        /\ account' = account /\ keeper' = keeper
    BY <1>4 DEF Insert, Open
  <2>2. /\ DOMAIN positions' = Ids \cup {opened}
        /\ \A i \in Ids : positions'[i] = positions[i]
        /\ positions'[opened].trade = t
    BY <1>0, <2>1 DEF Ids
  <2>3. ~Directional(t)
    BY <2>1 DEF Paused, Doomed
  <2>4. OpenIds \subseteq OpenIds'
    BY <2>2 DEF OpenIds, Ids
  <2>5. OpenDirectional' = {}
    BY <2>2, <2>3 DEF Paused, OpenDirectional, OpenIds, Ids
  <2>6. \A d \in PlaceCalls : places'[d] = places[d] \/ Doomed(d)'
    BY <1>0, <1>b, <2>1
  <2>7. keeper'.closed = <<>>
    BY <2>1 DEF Paused
  <2>8. QED
    BY <1>0, <2>1, <2>4, <2>5, <2>6, <2>7, PauseFrame
<1>5. ASSUME NEW c \in PlaceCalls, Abandon(c)
      PROVE  Paused'
  <2>1. places' = [places EXCEPT ![c] = Free] /\ places'[c] = Free /\ UNCHANGED vars
    BY <1>0, <1>5 DEF Abandon
  <2>2. QED
    BY <1>a, <1>b, <2>1
<1>6. ASSUME KeeperStep \/ Fault \/ NewDay \/ \E p \in Prices : Quote(p), UNCHANGED places
      PROVE  Paused'
  <2>1. ASSUME NEW i \in Ids, Close(i)
        PROVE  FALSE
    <3>0. positions[i] \in Position /\ price \in Nat
      BY <1>0, <2>1, PricesAssumption DEF Close, Ids, IndType, TypeOK
    <3>1. positions[i].trade \in Trades /\ Evaluate(positions[i].trade, price) # {}
      BY <2>1, <3>0 DEF Close, Position
    <3>2. positions[i].trade.direction \in {"LONG", "SHORT"}
      BY <3>0, <3>1, EvaluateOutcome
    <3>3. i \in OpenIds
      BY <2>1 DEF Close, IsNext, KeeperInv, TodoIsOpen
    <3>4. QED
      BY <3>2, <3>3 DEF Paused, OpenDirectional, Directional
  <2>2. /\ OpenIds' = OpenIds /\ OpenDirectional' = {}
    <3>1. ASSUME NEW i \in Ids, Mark(i)
          PROVE  OpenIds' = OpenIds /\ OpenDirectional' = {}
      BY <1>0, <3>1, MarkKeeps DEF Paused, OpenDirectional, OpenIds
    <3>2. ASSUME UNCHANGED positions
          PROVE  OpenIds' = OpenIds /\ OpenDirectional' = {}
      BY <3>2 DEF Paused, OpenDirectional, OpenIds, Ids
    <3>3. QED
      BY <1>6, <2>1, <3>1, <3>2
         DEF KeeperStep, StartTick, Skip, ReadAccount, Book, EndTick, WriteAccount, RefuseDates,
             Fault, LoseTick, Quote, NewDay
  <2>3. /\ keeper'.closed = <<>>
        /\ account'.streak = account.streak /\ account'.equity = account.equity
    <3>0. keeper.closed = <<>> /\ keeper.next \in 1..(Len(keeper.closed) + 1)
      BY <1>0 DEF Paused, IndType, KeeperOK
    <3>1. CASE StartTick \/ EndTick \/ RefuseDates \/ Fault
      <4>0. Idle.closed = <<>> /\ [Idle EXCEPT !.pc = "scan", !.todo = OpenIds].closed = <<>>
        BY DEF Idle
      <4>1. keeper'.closed = <<>>
        BY <3>1, <4>0 DEF StartTick, EndTick, RefuseDates, Fault, LoseTick
      <4>2. account' = account
        BY <3>1 DEF StartTick, EndTick, RefuseDates, Fault, LoseTick
      <4>3. QED
        BY <4>1, <4>2
    <3>2. ASSUME NEW i \in Ids, Skip(i) \/ Mark(i)
          PROVE  keeper'.closed = <<>> /\ account' = account
      BY <1>0, <3>0, <3>2 DEF Skip, Mark, Keeper
    <3>3. CASE ReadAccount
      BY <1>0, <3>0, <3>3 DEF ReadAccount, Keeper
    <3>4. ~Book
      BY <3>0 DEF Book
    <3>5. CASE WriteAccount
      BY <3>0, <3>5 DEF WriteAccount, AllBooked, Idle, KeeperInv, DraftFollows
    <3>6. CASE NewDay \/ \E p \in Prices : Quote(p)
      BY <3>0, <3>6 DEF NewDay, Quote
    <3>7. QED
      BY <1>6, <2>1, <3>1, <3>2, <3>3, <3>4, <3>5, <3>6 DEF KeeperStep
  <2>4. QED
    BY <1>0, <1>6, <2>2, <2>3, PauseFrame
<1>7. CASE UNCHANGED tradingVars
  <2>1. UNCHANGED <<positions, account, keeper, places>>
    BY <1>7 DEF tradingVars, vars
  <2>2. OpenIds' = OpenIds
    BY <2>1 DEF OpenIds, Ids
  <2>3. QED
    BY <2>1, <2>2 DEF Paused, OpenDirectional, Doomed
<1>8. QED
  BY <1>1, <1>2, <1>3, <1>4, <1>5, <1>6, <1>7 DEF TradingNext, PlaceStep

\* Once trading has paused with nothing open, nothing in the program ends it.
THEOREM PauseStands == TradingSpec => PauseHolds
<1>1. TypeInv /\ KeeperInv /\ [TradingNext]_tradingVars => KeeperInv'
  BY KeeperSide, KeeperNext DEF TypeInv
<1>2. TypeInv /\ KeeperInv /\ [TradingNext]_tradingVars => [Paused => Paused']_tradingVars
  BY PauseStep
<1>3. TradingInit => KeeperInv
  BY KeeperInit DEF TradingInit
<1>4. QED
  BY <1>1, <1>2, <1>3, TypeInit, TypeNext, PTL DEF TradingSpec, PauseHolds
=============================================================================
