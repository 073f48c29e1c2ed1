----------------------------- MODULE MarketProofs -----------------------------
(***************************************************************************)
(* Proofs about the collector's process and about the signals that come of *)
(* its prices, for all symbols, prices, windows, modes and equities, and   *)
(* any number of signals and faults.                                       *)
(***************************************************************************)
EXTENDS Market, SequenceTheorems, TLAPS

-----------------------------------------------------------------------------
(* Type correctness *)

LEMMA SymbolFacts ==
    /\ Symbols \subseteq Whitelist
    /\ \A i \in 1..Len(SymbolOrder) : SymbolOrder[i] \in Symbols
    /\ Len(SymbolOrder) \in Nat
BY SymbolsAssumption DEF Symbols, ToSet

LEMMA NewCycleType == NewCycle \in Cycle
BY SymbolFacts, BoundsAssumption DEF NewCycle, Cycle

\* The newest prices stay within the limit, and end with the new one.
LEMMA LaterType ==
    ASSUME NEW s \in Symbols, NEW price \in Nat \ {0},
           prices[s] \in Seq(Nat \ {0}), Len(prices[s]) <= Limit
    PROVE  /\ Later(s, price) \in Seq(Nat \ {0})
           /\ Len(Later(s, price)) <= Limit
           /\ Len(Later(s, price)) > 0
<1> DEFINE all == Append(prices[s], price)
           from == IF Len(all) > Limit THEN 2 ELSE 1
<1>1. Limit \in Nat /\ Limit > 0
  BY WindowsAssumption
<1>2. /\ all \in Seq(Nat \ {0}) /\ Len(all) = Len(prices[s]) + 1
      /\ Len(all) \in Nat
  OBVIOUS
<1>3. /\ from \in Int
      /\ Len(all) - from + 1 <= Limit
      /\ from <= Len(all)
      /\ 1 <= from
  BY <1>1, <1>2
<1>4. \A i \in from..Len(all) : all[i] \in Nat \ {0}
  <2>1. TAKE i \in from..Len(all)
  <2>2. i \in 1..Len(all)
    BY <1>2, <1>3, <2>1
  <2> HIDE DEF all, from
  <2>3. QED
    BY <1>2, <2>2, ElementOfSeq
<1>5. Later(s, price) = SubSeq(all, from, Len(all))
  BY DEF Later
<1> HIDE DEF all, from
<1>6. /\ SubSeq(all, from, Len(all)) \in Seq(Nat \ {0})
      /\ Len(SubSeq(all, from, Len(all))) = Len(all) - from + 1
  BY <1>2, <1>3, <1>4, SubSeqProperties
<1>7. Len(SubSeq(all, from, Len(all))) > 0
  BY <1>2, <1>3, <1>6
<1>8. QED
  BY <1>2, <1>3, <1>5, <1>6, <1>7

\* A signal is made of prices only.
LEMMA CalledFacts ==
    ASSUME NEW seq \in Seq(Nat \ {0}), NEW strategy \in Called(seq)
    PROVE  strategy \in Strategies /\ Len(seq) > 0 /\ Last(seq) \in Nat \ {0}
<1>1. strategy \in Strategies
  BY DEF Called, Strategies
<1>2. Len(seq) >= ShortWindow /\ ShortWindow > 0 /\ ShortWindow \in Nat
  BY WindowsAssumption DEF Called
<1>3. Len(seq) > 0
  BY <1>2
<1>4. Len(seq) \in 1..Len(seq)
  BY <1>2
<1>5. QED
  BY <1>1, <1>3, <1>4, ElementOfSeq DEF Last

\* Each signal's symbol has a price.
Priced == \A i \in DOMAIN signals : Len(prices[signals[i].symbol]) > 0

\* What Priced and the types have in common: the part of the state that the
\* signals are made of.
MarketInv == MarketTypeOK /\ Priced

LEMMA SignalFacts ==
    ASSUME MarketTypeOK, NEW i \in DOMAIN signals
    PROVE  /\ signals[i] \in Signal
           /\ signals[i].symbol \in Symbols
           /\ signals[i].strategy \in Strategies
           /\ signals[i].latest \in Nat \ {0}
<1>1. signals[i] \in Signal
  BY DEF MarketTypeOK
<1>2. QED
  BY <1>1 DEF Signal

LEMMA AppendSignal ==
    ASSUME MarketTypeOK, NEW g \in Signal
    PROVE  /\ Append(signals, g) \in Seq(Signal)
           /\ \A i \in DOMAIN Append(signals, g) :
                 \/ i \in DOMAIN signals /\ Append(signals, g)[i] = signals[i]
                 \/ Append(signals, g)[i] = g
BY DEF MarketTypeOK

LEMMA InitMarket == Init => MarketInv
<1>1. Init => prices \in [Symbols -> Seq(Nat \ {0})] /\ \A s \in Symbols : Len(prices[s]) <= Limit
  BY WindowsAssumption DEF Init
<1>2. Init => process \in Process /\ loop \in Cycle
  <2>1. 0 \in 0..MaxFaults
    BY BoundsAssumption
  <2>2. ASSUME Init PROVE process \in Process
    <3>1. PICK m \in Modes : process = [pc |-> "down", worker |-> "ended", signalled |-> FALSE,
                                        mode |-> m, faults |-> 0]
      BY <2>2 DEF Init
    <3>2. QED
      BY <2>1, <3>1 DEF Process
  <2>3. QED
    BY <2>2, NewCycleType DEF Init
<1>3. Init => fresh \subseteq Symbols /\ signals \in Seq(Signal) /\ Priced
  BY DEF Init, Priced
<1>4. QED
  BY <1>1, <1>2, <1>3 DEF MarketInv, MarketTypeOK

\* One step for each action; those of the collector's process and those of its
\* cycle, but one, leave prices and signals alone.
LEMMA StepMarket == MarketInv /\ [Next]_vars => MarketInv'
<1> SUFFICES ASSUME MarketInv, [Next]_vars PROVE MarketInv'
  OBVIOUS
<1> USE DEF MarketInv
<1>1. ASSUME CollectedUnchanged, process' \in Process, loop' \in Cycle PROVE MarketInv'
  BY <1>1 DEF CollectedUnchanged, MarketTypeOK, Priced
<1>2. /\ process \in Process /\ loop \in Cycle /\ MaxFaults \in Nat /\ MaxMarkets \in Nat
      /\ Len(SymbolOrder) \in Nat
  BY SymbolFacts, BoundsAssumption DEF MarketTypeOK
<1>3. CASE Start
  BY <1>1, <1>2, <1>3 DEF Start, Process
<1>4. CASE Connect
  BY <1>1, <1>2, <1>4 DEF Connect, Process
<1>5. CASE ConnectFails
  <2>1. process.faults + 1 \in 0..MaxFaults
    BY <1>2, <1>5 DEF ConnectFails, MayFault, Process
  <2>2. process' \in Process
    BY <1>2, <1>5, <2>1 DEF ConnectFails, Process
  <2>3. QED
    BY <1>1, <1>2, <1>5, <2>2 DEF ConnectFails
<1>6. CASE StopSignal
  <2>1. process.faults + 1 \in 0..MaxFaults
    BY <1>2, <1>6 DEF StopSignal, MayFault, Process
  <2>2. process' \in Process
    BY <1>2, <1>6, <2>1 DEF StopSignal, Process
  <2>3. QED
    BY <1>1, <1>2, <1>6, <2>2 DEF StopSignal
<1>7. CASE ShutDown
  BY <1>1, <1>2, <1>7, NewCycleType DEF ShutDown, Process
<1>8. CASE Exit
  BY <1>1, <1>2, <1>8 DEF Exit, Process
<1>9. CASE CollectBinance
  <2>1. process' = process /\ signals' = signals
    BY <1>9 DEF CollectBinance
  <2>2. loop' \in Cycle
    BY <1>2, <1>9 DEF CollectBinance, AfterFailure, Cycle
  <2>3. CASE prices' = prices /\ fresh' = fresh
    BY <1>2, <2>1, <2>2, <2>3 DEF MarketTypeOK, Priced
  <2>4. CASE /\ fresh' = fresh \cup {SymbolOrder[loop.binance]}
             /\ \E price \in Quotes[SymbolOrder[loop.binance]] :
                   prices' = [prices EXCEPT ![SymbolOrder[loop.binance]] =
                                 Later(SymbolOrder[loop.binance], price)]
    <3> DEFINE s == SymbolOrder[loop.binance]
    <3>1. loop.binance \in 1..Len(SymbolOrder)
      BY <1>2, <1>9 DEF CollectBinance, Cycle
    <3>2. s \in Symbols
      BY <3>1, SymbolFacts
    <3> HIDE DEF s
    <3>3. PICK price \in Quotes[s] : prices' = [prices EXCEPT ![s] = Later(s, price)]
      BY <2>4 DEF s
    <3>4. price \in Nat \ {0}
      BY <3>2, QuotesAssumption
    <3>5. /\ Later(s, price) \in Seq(Nat \ {0}) /\ Len(Later(s, price)) <= Limit
          /\ Len(Later(s, price)) > 0
      BY <3>2, <3>4, LaterType DEF MarketTypeOK
    <3>6. /\ prices' \in [Symbols -> Seq(Nat \ {0})]
          /\ \A r \in Symbols : Len(prices'[r]) <= Limit
      BY <3>2, <3>3, <3>5 DEF MarketTypeOK
    <3>7. \A r \in Symbols : Len(prices[r]) > 0 => Len(prices'[r]) > 0
      BY <3>3, <3>5 DEF MarketTypeOK
    <3>8. \A i \in DOMAIN signals : signals[i].symbol \in Symbols
      BY SignalFacts
    <3>9. Priced'
      BY <2>1, <3>7, <3>8 DEF Priced
    <3>10. fresh' \subseteq Symbols
      BY <2>4, <3>2 DEF s, MarketTypeOK
    <3>11. QED
      BY <1>2, <2>1, <2>2, <3>6, <3>9, <3>10 DEF MarketTypeOK
  <2>5. QED
    BY <1>9, <2>3, <2>4 DEF CollectBinance
<1>10. CASE CollectHyperliquid
  BY <1>1, <1>2, <1>10 DEF CollectHyperliquid, Cycle
<1>11. CASE ProbeGeoblock
  <2>1. process' = process /\ CollectedUnchanged
    BY <1>11 DEF ProbeGeoblock, CollectedUnchanged
  <2>2. loop' \in Cycle
    BY <1>2, <1>11 DEF ProbeGeoblock, AfterProbe, Verdicts, Cycle
  <2>3. QED
    BY <1>1, <1>2, <2>1, <2>2
<1>12. CASE ReportGeoblock
  BY <1>1, <1>2, <1>12 DEF ReportGeoblock, Cycle
<1>13. CASE CollectPolymarket
  BY <1>1, <1>2, <1>13 DEF CollectPolymarket, Cycle
<1>14. CASE NextCycle
  BY <1>1, <1>2, <1>14, NewCycleType DEF NextCycle
<1>15. CASE Age
  BY <1>15 DEF Age, MarketTypeOK, Priced
<1>16. ASSUME NEW s \in Symbols, GenerateSignal(s) PROVE MarketInv'
  <2>1. PICK strategy \in Called(prices[s]) :
           signals' = Append(signals, [symbol |-> s, strategy |-> strategy,
                                       latest |-> Last(prices[s]), status |-> "NEW"])
    BY <1>16 DEF GenerateSignal
  <2> DEFINE g == [symbol |-> s, strategy |-> strategy, latest |-> Last(prices[s]),
                   status |-> "NEW"]
  <2>2. prices[s] \in Seq(Nat \ {0})
    BY DEF MarketTypeOK
  <2>3. strategy \in Strategies /\ Len(prices[s]) > 0 /\ Last(prices[s]) \in Nat \ {0}
    BY <2>1, <2>2, CalledFacts
  <2>4. g \in Signal /\ g.symbol = s
    BY <2>3 DEF Signal
  <2>5. process' = process /\ loop' = loop /\ prices' = prices /\ fresh' = fresh
    BY <1>16 DEF GenerateSignal
  <2> HIDE DEF g
  <2>6. signals' = Append(signals, g)
    BY <2>1 DEF g
  <2>7. signals' \in Seq(Signal)
    BY <2>4, <2>6, AppendSignal
  <2>8. \A i \in DOMAIN signals' : \/ i \in DOMAIN signals /\ signals'[i] = signals[i]
                                   \/ signals'[i] = g
    BY <2>4, <2>6, AppendSignal
  <2>9. Priced'
    BY <2>3, <2>4, <2>5, <2>8 DEF Priced
  <2>10. QED
    BY <2>5, <2>7, <2>9 DEF MarketTypeOK
<1>17. ASSUME NEW i \in DOMAIN signals, NEW status \in {"DECIDED", "REJECTED", "OPENED"},
              signals' = [signals EXCEPT ![i].status = status],
              UNCHANGED <<process, loop, prices, fresh>>
       PROVE  MarketInv'
  <2>1. signals[i] \in Signal
    BY DEF MarketTypeOK
  <2>2. [signals[i] EXCEPT !.status = status] \in Signal
    BY <2>1 DEF Signal
  <2>3. signals' = [signals EXCEPT ![i] = [signals[i] EXCEPT !.status = status]]
    BY <1>17
  <2>4. signals' \in Seq(Signal) /\ DOMAIN signals' = DOMAIN signals
    BY <2>2, <2>3 DEF MarketTypeOK
  <2>5. \A k \in DOMAIN signals : signals[k] \in Signal
    BY DEF MarketTypeOK
  <2>6. \A k \in DOMAIN signals : signals'[k].symbol = signals[k].symbol
    BY <2>1, <2>3, <2>5 DEF Signal
  <2>7. Priced'
    BY <1>17, <2>4, <2>6 DEF Priced
  <2>8. QED
    BY <1>17, <2>4, <2>7 DEF MarketTypeOK
<1>18. ASSUME NEW i \in DOMAIN signals, Decide(i) PROVE MarketInv'
  BY <1>17, <1>18 DEF Decide
<1>19. ASSUME NEW i \in DOMAIN signals, Open(i) PROVE MarketInv'
  BY <1>17, <1>19 DEF Open
<1>20. CASE UNCHANGED vars
  BY <1>20 DEF vars, MarketTypeOK, Priced
<1>21. QED
  BY <1>3, <1>4, <1>5, <1>6, <1>7, <1>8, <1>9, <1>10, <1>11, <1>12, <1>13, <1>14, <1>15,
     <1>16, <1>18, <1>19, <1>20 DEF Next, ProcessStep, CollectorStep

\* The state of the collector's process, of its cycle and of the signals has its
\* type, and no symbol's newest prices are more than the strategy reads.
THEOREM MarketTypeCorrect == MarketSpec => []MarketTypeOK
<1>1. MarketInv => MarketTypeOK
  BY DEF MarketInv
<1>2. QED
  BY <1>1, InitMarket, StepMarket, PTL DEF MarketSpec

-----------------------------------------------------------------------------
(* The guard of the geoblock *)

\* The rows of a cycle are behind its probe, and the mode is that of the probe
\* because a process that starts begins a new cycle.
Guarded ==
    /\ loop.polymarket = "due" => loop.rows = 0
    /\ loop.polymarket = "read" \/ loop.rows > 0 =>
          loop.geoblock \in {"open", "unreadable"} /\ process.mode \in AllowedModes
    /\ process.worker = "working" \/ loop # NewCycle => process.pc = "serving"
    /\ process.worker = "connecting" => process.pc = "serving"

GuardInv == MarketInv /\ Guarded

LEMMA NewCycleGuarded ==
    NewCycle.polymarket = "due" /\ NewCycle.rows = 0
BY DEF NewCycle

LEMMA InitGuarded == Init => Guarded
<1> SUFFICES ASSUME Init PROVE Guarded
  OBVIOUS
<1>1. PICK m \in Modes : process = [pc |-> "down", worker |-> "ended", signalled |-> FALSE,
                                    mode |-> m, faults |-> 0]
  BY DEF Init
<1>2. loop = NewCycle
  BY DEF Init
<1>3. QED
  BY <1>1, <1>2, NewCycleGuarded DEF Guarded

LEMMA StepGuarded == GuardInv /\ [Next]_vars => Guarded'
<1> SUFFICES ASSUME GuardInv, [Next]_vars PROVE Guarded'
  OBVIOUS
<1>1. process \in Process /\ loop \in Cycle /\ Guarded /\ MaxMarkets \in Nat
  BY BoundsAssumption DEF GuardInv, MarketInv, MarketTypeOK
<1>2. loop = NewCycle => loop.rows = 0 /\ loop.polymarket = "due"
  BY NewCycleGuarded
<1>3. CASE Start
  BY <1>1, <1>2, <1>3, NewCycleGuarded DEF Start, Process, Guarded
<1>4. CASE Connect
  BY <1>1, <1>4 DEF Connect, Process, Guarded
<1>5. CASE ConnectFails
  BY <1>1, <1>5 DEF ConnectFails, Process, Guarded
<1>6. CASE StopSignal
  BY <1>1, <1>6 DEF StopSignal, Process, Guarded
<1>7. CASE ShutDown
  BY <1>1, <1>7, NewCycleGuarded DEF ShutDown, Process, Guarded
<1>8. CASE Exit
  <2>1. process' = [process EXCEPT !.pc = "down"] /\ loop' = loop /\ process.pc = "stopping"
    BY <1>8 DEF Exit
  <2>2. loop = NewCycle /\ process.worker \notin {"working", "connecting"}
    BY <1>1, <2>1 DEF Guarded
  <2>3. process'.worker = process.worker /\ process'.mode = process.mode
    BY <1>1, <2>1 DEF Process
  <2>4. QED
    BY <1>1, <2>1, <2>2, <2>3, NewCycleGuarded DEF Guarded
<1>9. ASSUME Working, process' = process, loop'.polymarket = loop.polymarket,
             loop'.rows = loop.rows, loop'.geoblock = loop.geoblock
      PROVE  Guarded'
  BY <1>1, <1>9 DEF Working, Guarded
<1>10. CASE CollectBinance
  <2>1. Working /\ process' = process
    BY <1>10 DEF CollectBinance
  <2>2. /\ loop'.polymarket = loop.polymarket /\ loop'.rows = loop.rows
        /\ loop'.geoblock = loop.geoblock
    BY <1>1, <1>10 DEF CollectBinance, Cycle
  <2>3. QED
    BY <1>9, <2>1, <2>2
<1>11. CASE CollectHyperliquid
  BY <1>1, <1>9, <1>11 DEF CollectHyperliquid, Cycle
<1>12. CASE ProbeGeoblock
  <2>1. /\ process' = process /\ process.pc = "serving" /\ loop.rows = 0
    BY <1>1, <1>12 DEF ProbeGeoblock, Working, Guarded
  <2>2. /\ loop'.rows = 0
        /\ loop'.polymarket # "due"
        /\ loop'.polymarket = "read" =>
              loop'.geoblock \in {"open", "unreadable"} /\ process.mode \in AllowedModes
    BY <1>1, <1>12, <2>1 DEF ProbeGeoblock, AfterProbe, Verdicts, Cycle
  <2>3. QED
    BY <2>1, <2>2 DEF Guarded
<1>13. CASE ReportGeoblock
  <2>1. PICK end \in {"reported", "done"} : loop' = [loop EXCEPT !.polymarket = end]
    BY <1>13 DEF ReportGeoblock
  <2>2. process' = process /\ process.pc = "serving"
    BY <1>1, <1>13 DEF ReportGeoblock, Working, Guarded
  <2>3. /\ loop'.polymarket \in {"reported", "done"} /\ loop'.rows = loop.rows
        /\ loop'.geoblock = loop.geoblock
    BY <1>1, <2>1 DEF Cycle
  <2>4. QED
    BY <1>1, <2>2, <2>3 DEF Guarded
<1>14. CASE CollectPolymarket
  <2>1. /\ process' = process /\ process.pc = "serving"
        /\ loop.geoblock \in {"open", "unreadable"} /\ process.mode \in AllowedModes
    BY <1>1, <1>14 DEF CollectPolymarket, Working, Guarded
  <2>2. loop'.polymarket \in {"read", "done"} /\ loop'.geoblock = loop.geoblock
    BY <1>1, <1>14 DEF CollectPolymarket, Cycle
  <2>3. QED
    BY <2>1, <2>2 DEF Guarded
<1>15. CASE NextCycle
  BY <1>1, <1>15, NewCycleGuarded DEF NextCycle, Guarded
<1>16. ASSUME UNCHANGED <<process, loop>> PROVE Guarded'
  BY <1>1, <1>16 DEF Guarded
<1>17. CASE Age
  BY <1>16, <1>17 DEF Age
<1>18. CASE \E s \in Symbols : GenerateSignal(s)
  BY <1>16, <1>18 DEF GenerateSignal
<1>19. CASE \E i \in DOMAIN signals : Decide(i) \/ Open(i)
  BY <1>16, <1>19 DEF Decide, Open
<1>20. CASE UNCHANGED vars
  BY <1>16, <1>20 DEF vars
<1>21. QED
  BY <1>3, <1>4, <1>5, <1>6, <1>7, <1>8, <1>10, <1>11, <1>12, <1>13, <1>14, <1>15,
     <1>17, <1>18, <1>19, <1>20 DEF Next, ProcessStep, CollectorStep

\* Polymarket's rows are written only in a cycle whose own probe did not say
\* that the region is blocked, and in an allowed mode, whatever stops and
\* restarts of the process there are.
THEOREM NeverReadWhileBlocked == MarketSpec => []NeverWhileBlocked
<1>1. Guarded => NeverWhileBlocked
  BY DEF Guarded, NeverWhileBlocked
<1>2. Init => GuardInv
  BY InitMarket, InitGuarded DEF GuardInv
<1>3. GuardInv /\ [Next]_vars => GuardInv'
  BY StepMarket, StepGuarded DEF GuardInv
<1>4. GuardInv => Guarded
  BY DEF GuardInv
<1>5. QED
  BY <1>1, <1>2, <1>3, <1>4, PTL DEF MarketSpec

-----------------------------------------------------------------------------
(* The numbers of a signal *)

\* Each strategy's shares, once for all.
LEMMA OffsetsFacts ==
    ASSUME NEW strategy \in Strategies
    PROVE  LET o == Offsets(strategy) IN
           /\ {o.min, o.max, o.stop, o.near, o.far, o.confidence} \subseteq Nat
           /\ 0 < o.stop /\ 1017 * o.stop < 1000 * o.max /\ o.stop < o.min /\ o.min <= o.max
           /\ 1001 <= o.max /\ o.max <= 1002 /\ o.near >= 1027 /\ o.far >= o.near
           /\ o.near - o.max > o.max - o.stop
           /\ o.confidence >= 660
           /\ WeightedReward(o) \in Int /\ WeightedReward(o) >= 1500
<1>1. CASE strategy = "trend_following_v1"
  BY <1>1 DEF Offsets, WeightedReward
<1>2. CASE strategy # "trend_following_v1"
  BY <1>2 DEF Offsets, WeightedReward
<1>3. QED
  BY <1>1, <1>2

\* A share of the latest price, next to another.
LEMMA SharesOrdered ==
    \A a, b, latest \in Nat : /\ a * latest \in Nat
                              /\ a <= b => a * latest <= b * latest
                              /\ a < b /\ latest > 0 => a * latest < b * latest
<1>1. \A a, b, latest \in Nat : a <= b => a * latest <= b * latest
  <2>1. TAKE a, b, latest \in Nat
  <2>2. b - a \in Nat => (b - a) * latest \in Nat /\ b * latest = a * latest + (b - a) * latest
    OBVIOUS
  <2>3. QED
    BY <2>2
<1>2. \A a, b, latest \in Nat : a < b /\ latest > 0 => a * latest < b * latest
  <2>1. TAKE a, b, latest \in Nat
  <2>2. HAVE a < b /\ latest > 0
  <2>3. (a + 1) * latest <= b * latest
    BY <1>1, <2>2
  <2>4. (a + 1) * latest = a * latest + latest
    OBVIOUS
  <2>5. a * latest \in Nat /\ b * latest \in Nat
    OBVIOUS
  <2>6. QED
    BY <2>2, <2>3, <2>4, <2>5
<1>3. QED
  BY <1>1, <1>2

\* What both checks read of a signal's decision.
LEMMA AgentJsonFacts ==
    ASSUME NEW g \in Signal
    PROVE  LET j == AgentJson(g) IN
           /\ j.symbol = g.symbol /\ j.symbol \in Whitelist /\ j.direction = "LONG"
           /\ {j.min, j.max, j.stop} \subseteq Nat
           /\ 0 < j.stop /\ j.stop < j.min /\ j.min <= j.max
           /\ 1017 * j.stop < 1000 * j.max
           /\ 1001 * g.latest <= j.max /\ j.max <= 1002 * g.latest
           /\ \A t \in j.targets : t \in Nat /\ t >= 1027 * g.latest /\ t - j.max > j.max - j.stop
           /\ j.confidence \in Nat /\ j.confidence >= 660
           /\ j.reward \in Int /\ j.reward >= 1500
           /\ j.risk = 5 /\ j.notional = 100 /\ j.leverage = 1
<1> DEFINE o == Offsets(g.strategy)
           L == g.latest
           j == AgentJson(g)
<1>1. g.symbol \in Symbols /\ g.strategy \in Strategies /\ L \in Nat /\ L > 0
  BY DEF Signal
<1>2. /\ {o.min, o.max, o.stop, o.near, o.far, o.confidence} \subseteq Nat
      /\ 0 < o.stop /\ 1017 * o.stop < 1000 * o.max /\ o.stop < o.min /\ o.min <= o.max
      /\ 1001 <= o.max /\ o.max <= 1002 /\ o.near >= 1027 /\ o.far >= o.near
      /\ o.near - o.max > o.max - o.stop
      /\ o.confidence >= 660
      /\ WeightedReward(o) \in Int /\ WeightedReward(o) >= 1500
  BY <1>1, OffsetsFacts
<1>3. /\ j.symbol = g.symbol /\ j.direction = "LONG"
      /\ j.min = o.min * L /\ j.max = o.max * L /\ j.stop = o.stop * L
      /\ j.targets = {o.near * L, o.far * L}
      /\ j.reward = WeightedReward(o) /\ j.confidence = o.confidence
      /\ j.risk = 5 /\ j.notional = 100 /\ j.leverage = 1
  BY DEF AgentJson
<1> HIDE DEF o, L, j
<1>4. /\ o.min * L \in Nat /\ o.max * L \in Nat /\ o.stop * L \in Nat
      /\ o.near * L \in Nat /\ o.far * L \in Nat
  BY <1>1, <1>2, SharesOrdered
<1>5. 0 * L < o.stop * L /\ o.stop * L < o.min * L /\ o.min * L <= o.max * L
  BY <1>1, <1>2, SharesOrdered
<1>6. /\ 1001 * L <= o.max * L /\ o.max * L <= 1002 * L
      /\ 1027 * L <= o.near * L /\ o.near * L <= o.far * L
  BY <1>1, <1>2, SharesOrdered
<1>7. o.near * L - o.max * L > o.max * L - o.stop * L
  <2>1. (o.max + o.max) * L < (o.near + o.stop) * L
    BY <1>1, <1>2, SharesOrdered
  <2>2. /\ (o.max + o.max) * L = o.max * L + o.max * L
        /\ (o.near + o.stop) * L = o.near * L + o.stop * L
    BY <1>1, <1>2
  <2>3. QED
    BY <1>4, <2>1, <2>2
<1>8. \A t \in j.targets : t \in Nat /\ t >= 1027 * L /\ t - j.max > j.max - j.stop
  BY <1>1, <1>3, <1>4, <1>6, <1>7
<1>9. 0 < j.stop /\ 1017 * j.stop < 1000 * j.max
  <2>1. (1017 * o.stop) * L < (1000 * o.max) * L
    BY <1>1, <1>2, SharesOrdered
  <2>2. /\ (1017 * o.stop) * L = 1017 * (o.stop * L)
        /\ (1000 * o.max) * L = 1000 * (o.max * L)
    BY <1>1, <1>2
  <2>3. QED
    BY <1>1, <1>3, <1>5, <2>1, <2>2
<1>10. j.symbol \in Whitelist
  BY <1>1, <1>3, SymbolFacts
<1>11. QED
  BY <1>2, <1>3, <1>4, <1>5, <1>6, <1>8, <1>9, <1>10 DEF L, j

\* Such a decision breaks a rule at a price only if its entry is too far away.
LEMMA OnlyTheEntry ==
    ASSUME NEW g \in Signal, NEW mid, ~TooFar(AgentJson(g).max, mid)
    PROVE  WellOrdered(AgentJson(g)) /\ Reasons(AgentJson(g), mid, Equity) = {}
<1> DEFINE j == AgentJson(g)
<1>1. /\ j.symbol \in Whitelist /\ j.direction = "LONG"
      /\ {j.min, j.max, j.stop} \subseteq Nat
      /\ 0 < j.stop /\ j.stop < j.min /\ j.min <= j.max
      /\ \A t \in j.targets : t \in Nat /\ t - j.max > j.max - j.stop
      /\ j.confidence \in Nat /\ j.confidence >= 660
      /\ j.reward \in Int /\ j.reward >= 1500
      /\ j.risk = 5 /\ j.notional = 100 /\ j.leverage = 1
  BY AgentJsonFacts
<1>2. ~TooFar(j.max, mid)
  OBVIOUS
<1> HIDE DEF j
<1>3. WellOrdered(j)
  BY <1>1 DEF WellOrdered, Longs, Shorts
<1>4. /\ ~(j.stop <= 0)
      /\ ~(/\ j.stop > 0 /\ j.max > 0
           /\ \/ j.direction \in Longs /\ j.stop >= j.max
              \/ j.direction \in Shorts /\ j.stop <= j.max)
  BY <1>1 DEF Longs, Shorts
<1>5. /\ ~(j.confidence < MinAgentConfidence) /\ ~(j.reward < MinRiskReward)
      /\ ~(j.leverage > MaxLeverage)
      /\ ~(1000 * j.risk > Equity * MaxTradeRiskPct)
      /\ ~(1000 * j.notional > Equity * MaxSymbolPositionPct)
  <2>1. /\ Equity \in Nat /\ MaxTradeRiskPct \in Nat /\ MaxSymbolPositionPct \in Nat
        /\ MinAgentConfidence \in Nat /\ MinRiskReward \in Nat /\ MaxLeverage \in Nat
    BY BoundsAssumption, LimitsAssumption
  <2>2. Equity * MaxTradeRiskPct \in Nat /\ Equity * MaxSymbolPositionPct \in Nat
    BY <2>1
  <2>3. QED
    BY <1>1, <2>1, <2>2, SettingsAssumption
<1>6. DirectionalReasons(j, mid, Equity) = {}
  <2> DEFINE none == [NO_VALID_STOP_LOSS |-> FALSE, STOP_LOSS_WRONG_SIDE |-> FALSE,
                      CONFIDENCE_BELOW_MIN |-> FALSE, RR_BELOW_MIN |-> FALSE,
                      TRADE_RISK_ABOVE_LIMIT |-> FALSE, LEVERAGE_ABOVE_LIMIT |-> FALSE,
                      SYMBOL_POSITION_ABOVE_LIMIT |-> FALSE,
                      ENTRY_DEVIATION_TOO_LARGE |-> FALSE]
  <2>1. DirectionalReasons(j, mid, Equity) = {rule \in DOMAIN none : none[rule]}
    <3>1. /\ (j.stop <= 0) = FALSE
          /\ (/\ j.stop > 0 /\ j.max > 0
              /\ \/ j.direction \in Longs /\ j.stop >= j.max
                 \/ j.direction \in Shorts /\ j.stop <= j.max) = FALSE
          /\ (j.confidence < MinAgentConfidence) = FALSE /\ (j.reward < MinRiskReward) = FALSE
          /\ (1000 * j.risk > Equity * MaxTradeRiskPct) = FALSE
          /\ (j.leverage > MaxLeverage) = FALSE
          /\ (1000 * j.notional > Equity * MaxSymbolPositionPct) = FALSE
          /\ TooFar(j.max, mid) = FALSE
      BY <1>2, <1>4, <1>5
    <3>2. QED
      BY <3>1, Zenon DEF DirectionalReasons
  <2>2. {rule \in DOMAIN none : none[rule]} = {}
    OBVIOUS
  <2>3. QED
    BY <2>1, <2>2
<1>7. Reasons(j, mid, Equity) = {}
  BY <1>1, <1>6 DEF Reasons, Longs
<1>8. QED
  BY <1>3, <1>7 DEF j

\* Every signal passes all rules on numbers at the price it was made at, for
\* all prices and for all limits that leave room for the strategy's constants.
THEOREM SignalsPass == MarketSpec => []SignalPasses
<1>1. ASSUME MarketTypeOK, NEW i \in DOMAIN signals
      PROVE  /\ WellOrdered(AgentJson(signals[i]))
             /\ Reasons(AgentJson(signals[i]), 1000 * signals[i].latest, Equity) = {}
  <2> DEFINE L == signals[i].latest
             top == AgentJson(signals[i]).max
  <2>1. signals[i] \in Signal /\ L \in Nat /\ L > 0
    BY <1>1, SignalFacts
  <2>2. top \in Nat /\ 1001 * L <= top /\ top <= 1002 * L
    BY <2>1, AgentJsonFacts
  <2> HIDE DEF L, top
  <2>3. 1000 * Distance(top, 1000 * L) <= 2 * (1000 * L)
    BY <2>1, <2>2 DEF Distance
  <2>4. MaxEntryDeviationPct \in Nat /\ MaxEntryDeviationPct >= 2
    BY SettingsAssumption
  <2>5. 2 * (1000 * L) <= MaxEntryDeviationPct * (1000 * L)
    BY <2>1, <2>4, SharesOrdered
  <2>6. Distance(top, 1000 * L) \in Nat /\ MaxEntryDeviationPct * (1000 * L) \in Nat
    BY <2>1, <2>2, <2>4 DEF Distance
  <2>7. ~TooFar(top, 1000 * L)
    BY <2>1, <2>3, <2>5, <2>6 DEF TooFar
  <2>8. QED
    BY <2>1, <2>7, OnlyTheEntry DEF L, top
<1>2. MarketTypeOK => SignalPasses
  BY <1>1 DEF SignalPasses
<1>3. QED
  BY <1>2, MarketTypeCorrect, PTL

\* A decision that is not too far from a price is in play at it.
LEMMA NearIsInPlay ==
    ASSUME NEW g \in Signal, NEW mid \in Nat, mid > 0, ~TooFar(AgentJson(g).max, mid)
    PROVE  /\ AgentJson(g).stop < mid
           /\ \A t \in AgentJson(g).targets : mid < t
<1> DEFINE L == g.latest
           j == AgentJson(g)
<1>1. L \in Nat /\ L > 0
  BY DEF Signal
<1>2. /\ j.max \in Nat /\ j.stop \in Nat /\ 1017 * j.stop < 1000 * j.max
      /\ j.max <= 1002 * L
      /\ \A t \in j.targets : t \in Nat /\ t >= 1027 * L
  BY AgentJsonFacts
<1>3. ~TooFar(j.max, mid)
  OBVIOUS
<1> HIDE DEF L, j
<1>4. MaxEntryDeviationPct \in Nat /\ MaxEntryDeviationPct <= 17
  BY SettingsAssumption
<1>5. MaxEntryDeviationPct * mid \in Nat /\ MaxEntryDeviationPct * mid <= 17 * mid
  BY <1>4, SharesOrdered
<1>6. 1000 * Distance(j.max, mid) <= MaxEntryDeviationPct * mid
  BY <1>1, <1>2, <1>3, <1>5 DEF TooFar, Distance
<1>7. 1000 * Distance(j.max, mid) <= 17 * mid
  BY <1>2, <1>5, <1>6 DEF Distance
<1>8. j.stop < mid /\ mid < 1027 * L
  <2>1. j.max - mid <= Distance(j.max, mid) /\ mid - j.max <= Distance(j.max, mid)
    BY <1>2 DEF Distance
  <2>2. Distance(j.max, mid) \in Nat
    BY <1>2 DEF Distance
  <2> DEFINE top == j.max
             stop == j.stop
             gap == Distance(j.max, mid)
  <2>3. /\ top \in Nat /\ stop \in Nat /\ gap \in Nat
        /\ top - mid <= gap /\ mid - top <= gap /\ 1000 * gap <= 17 * mid
        /\ 1017 * stop < 1000 * top /\ top <= 1002 * L
    BY <1>2, <1>7, <2>1, <2>2
  <2> HIDE DEF top, stop, gap
  <2>4. stop < mid /\ mid < 1027 * L
    BY <1>1, <2>3
  <2>5. QED
    BY <2>4 DEF stop
<1>9. QED
  BY <1>1, <1>2, <1>8 DEF j

\* What validateAgentJson lets pass becomes a position with its stop and its
\* targets on their sides of the upper end of its entry, also when it is short.
LEMMA WellOrderedIsValid ==
    ASSUME NEW j, {j.min, j.max, j.stop} \subseteq Nat, j.targets \subseteq Nat,
           j.direction \in Directions, WellOrdered(j)
    PROVE  PositionOf(j) \in Trade /\ ValidTrade(PositionOf(j))
BY DEF PositionOf, Trade, ValidTrade, WellOrdered, Directions, Longs, Shorts

\* Between its stop and its targets a long position stays open.
LEMMA BetweenStaysOpen ==
    ASSUME NEW t, t.direction = "LONG", NEW mid \in Nat, t.stop \in Nat, t.targets \subseteq Nat,
           t.stop < mid, \A x \in t.targets : mid < x
    PROVE  Evaluate(t, mid) = {}
<1>1. ~Stopped(t, mid)
  BY DEF Stopped
<1>2. \A x \in Nearest(t) : ~Reached(t, mid, x)
  BY DEF Nearest, Reached
<1>3. QED
  BY <1>1, <1>2 DEF Evaluate

\* A position is opened only while the newest price is between its stop and its
\* targets, so that the keeper leaves it open, it is of the shape that the
\* keeper's theorems assume of every trade, and its nearest target wins more than
\* its stop loses, for all prices, limits and symbols.
THEOREM OpensInPlayAlways == MarketSpec => OpensInPlay
<1> DEFINE Fine(g) == LET j == AgentJson(g)
                          t == PositionOf(j)
                      IN /\ t \in Trade /\ ValidTrade(t)
                         /\ Evaluate(t, Mid(j.symbol)) = {}
                         /\ \A x \in t.targets : Pnl(t, x) > Risk(t)
           Opened == \A i \in DOMAIN signals :
        signals[i].status = "DECIDED" /\ signals'[i].status = "OPENED" => Fine(signals[i])
<1>1. ASSUME MarketInv, NEW i \in DOMAIN signals, Open(i)
      PROVE  Fine(signals[i])
  <2> DEFINE g == signals[i]
             j == AgentJson(g)
             s == g.symbol
             t == PositionOf(j)
  <2>1. g \in Signal /\ s \in Symbols
    BY <1>1, SignalFacts DEF MarketInv
  <2>2. /\ j.symbol = s /\ j.direction = "LONG" /\ {j.min, j.max, j.stop} \subseteq Nat
        /\ j.targets \subseteq Nat /\ j.stop < j.max
        /\ \A x \in j.targets : x - j.max > j.max - j.stop
    BY <2>1, AgentJsonFacts
  <2>3. prices[s] \in Seq(Nat \ {0}) /\ Len(prices[s]) > 0
    BY <1>1, <2>1 DEF MarketInv, MarketTypeOK, Priced
  <2>4. Mid(s) \in Nat /\ Mid(s) > 0
    <3>1. Len(prices[s]) \in 1..Len(prices[s])
      BY <2>3
    <3> HIDE DEF s
    <3>2. Last(prices[s]) \in Nat \ {0}
      BY <2>3, <3>1, ElementOfSeq DEF Last
    <3>3. QED
      BY <3>2 DEF Mid
  <2>5. Reasons(j, Mid(s), Equity) = {}
    BY <1>1, <2>2 DEF Open, MayOpen
  <2>6. ~TooFar(j.max, Mid(s))
    <3> HIDE DEF j, s
    <3>1. DirectionalReasons(j, Mid(s), Equity) = {}
      BY <2>2, <2>5 DEF Reasons, Longs
    <3>2. QED
      BY <3>1 DEF DirectionalReasons
  <2>7. WellOrdered(j)
    BY <2>1, <2>6, OnlyTheEntry
  <2>8. j.stop < Mid(s) /\ \A x \in j.targets : Mid(s) < x
    BY <2>1, <2>4, <2>6, NearIsInPlay
  <2> HIDE DEF j
  <2>9. t \in Trade /\ ValidTrade(t)
    BY <2>2, <2>7, WellOrderedIsValid DEF Directions
  <2>10. /\ t.direction = "LONG" /\ t.entry = j.max /\ t.stop = j.stop
         /\ t.targets = j.targets
    BY <2>2 DEF PositionOf
  <2> HIDE DEF t, s
  <2>11. Evaluate(t, Mid(s)) = {}
    BY <2>2, <2>4, <2>8, <2>10, BetweenStaysOpen
  <2>12. \A x \in t.targets : Pnl(t, x) > Risk(t)
    BY <2>2, <2>10 DEF Pnl, Risk
  <2>13. QED
    BY <2>2, <2>9, <2>11, <2>12 DEF j, t
<1> HIDE DEF Fine
<1>2. ASSUME UNCHANGED signals PROVE Opened
  BY <1>2
<1>3. MarketInv /\ [Next]_vars => Opened
  <2> SUFFICES ASSUME MarketInv, [Next]_vars PROVE Opened
    OBVIOUS
  <2>1. CASE ProcessStep \/ ConnectFails \/ StopSignal
    BY <1>2, <2>1 DEF ProcessStep, Start, Connect, ShutDown, Exit, ConnectFails, StopSignal,
                      CollectedUnchanged
  <2>2. CASE CollectorStep \/ Age
    BY <1>2, <2>2 DEF CollectorStep, CollectBinance, CollectHyperliquid, ProbeGeoblock,
                      ReportGeoblock, CollectPolymarket, NextCycle, Age, CollectedUnchanged
  <2>3. ASSUME NEW s \in Symbols, GenerateSignal(s) PROVE Opened
    <3>1. PICK g : signals' = Append(signals, g)
      BY <2>3 DEF GenerateSignal
    <3>2. \A i \in DOMAIN signals : signals'[i] = signals[i]
      BY <3>1 DEF MarketInv, MarketTypeOK
    <3>3. QED
      BY <3>2
  <2>4. ASSUME NEW i \in DOMAIN signals, Decide(i) PROVE Opened
    <3>1. PICK status \in {"DECIDED", "REJECTED"} :
             signals' = [signals EXCEPT ![i].status = status]
      BY <2>4 DEF Decide
    <3>2. \A k \in DOMAIN signals : signals[k] \in Signal
      BY DEF MarketInv, MarketTypeOK
    <3>3. \A k \in DOMAIN signals : signals'[k].status \in {signals[k].status, status}
      BY <3>1, <3>2 DEF Signal
    <3>4. QED
      BY <3>3
  <2>5. ASSUME NEW i \in DOMAIN signals, Open(i) PROVE Opened
    <3>1. \A k \in DOMAIN signals : k # i => signals'[k] = signals[k]
      BY <2>5 DEF Open, MarketInv, MarketTypeOK
    <3>2. QED
      BY <1>1, <2>5, <3>1
  <2>6. CASE UNCHANGED vars
    BY <1>2, <2>6 DEF vars
  <2>7. QED
    BY <2>1, <2>2, <2>3, <2>4, <2>5, <2>6 DEF Next
<1>4. Opened => [Opened]_vars
  OBVIOUS
<1>5. QED
  BY <1>3, <1>4, InitMarket, StepMarket, PTL DEF MarketSpec, OpensInPlay, Fine
=============================================================================
