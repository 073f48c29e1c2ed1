-------------------------------- MODULE Market --------------------------------
(***************************************************************************)
(* From the markets to an opened position: the collector writes prices     *)
(* (collector.py), the strategy makes signals of them (strategy.py), the   *)
(* agent and the control API check a signal's numbers against the newest   *)
(* price twice, when it is decided and when it is placed.                  *)
(*                                                                         *)
(* Each of them is a process of its own, so the price a signal was made    *)
(* at, the one it is decided at and the one it is placed at differ.  The   *)
(* collector's process is modelled with its parts (main.py): the worker's  *)
(* task, the end of the process when the task ends or a signal comes, and  *)
(* the restart by the container's policy.                                  *)
(***************************************************************************)
EXTENDS RiskRules, Evaluation, SequencesExt

CONSTANTS
    SymbolOrder,  \* settings.symbols, in its order
    Flaky,        \* the symbols whose reading may fail, for as long as it likes
    Quotes,       \* the prices each symbol may have
    ShortWindow,  \* 20 prices
    LongWindow,   \* 60 prices
    Limit,        \* 80 prices that the strategy reads
    Modes,        \* the values of POLYMARKET_MODE
    Equity,       \* the account, which Trading models
    MaxMarkets,   \* the Polymarket markets read in a cycle, 10 in the code
    MaxSignals,   \* bound on the signals
    MaxFaults,    \* bound on the failures and stops of the collector's process
    None          \* the absent value

Symbols == ToSet(SymbolOrder)

ASSUME SymbolsAssumption == SymbolOrder \in Seq(Whitelist) /\ Flaky \subseteq Symbols
ASSUME QuotesAssumption == Quotes \in [Symbols -> SUBSET (Nat \ {0})]
ASSUME WindowsAssumption ==
    /\ {ShortWindow, LongWindow, Limit} \subseteq Nat
    /\ 0 < ShortWindow /\ ShortWindow <= LongWindow /\ LongWindow <= Limit
ASSUME BoundsAssumption ==
    {Equity, MaxMarkets, MaxSignals, MaxFaults} \subseteq Nat /\ None \notin STRING

\* RiskProperties next to the strategy's constants: what the limits have to
\* leave room for, and how far from an entry a position may be opened.
ASSUME SettingsAssumption ==
    /\ MinAgentConfidence <= 660 /\ MinRiskReward <= 1500 /\ MaxLeverage >= 1
    /\ 1000 * 5 <= Equity * MaxTradeRiskPct
    /\ 1000 * 100 <= Equity * MaxSymbolPositionPct
    /\ MaxEntryDeviationPct \in 2..17

VARIABLES
    process,  \* the collector's process
    loop,     \* the cycle of run_collector
    prices,   \* market_snapshot: the newest prices of each symbol, the newest last
    fresh,    \* the symbols with a price written lately
    signals   \* trade_signal, with what became of each

vars == <<process, loop, prices, fresh, signals>>

-----------------------------------------------------------------------------
(* Types *)

Process == [pc : {"down", "serving", "stopping"},
            worker : {"connecting", "working", "ended"},
            signalled : BOOLEAN,
            mode : Modes,          \* settings.polymarket_mode, read at the start
            faults : 0..MaxFaults]

Verdicts == {"open", "blocked", "unreadable", "failed"}

\* A cycle is three calls gathered: what each has still to do.
Cycle == [binance : 1..Len(SymbolOrder) + 1,    \* the symbol to read next
          hyperliquid : {"due", "done"},
          polymarket : {"due", "report", "read", "reported", "done"},
          geoblock : Verdicts \cup {None},       \* what its probe said
          rows : 0..MaxMarkets]                 \* the Polymarket rows it wrote

Strategies == {"trend_following_v1", "mean_reversion_v1"}

Signal == [symbol : Symbols, strategy : Strategies, latest : Nat \ {0},
           status : {"NEW", "DECIDED", "REJECTED", "OPENED"}]

MarketTypeOK ==
    /\ process \in Process
    /\ loop \in Cycle
    /\ prices \in [Symbols -> Seq(Nat \ {0})]
    /\ \A s \in Symbols : Len(prices[s]) <= Limit
    /\ fresh \subseteq Symbols
    /\ signals \in Seq(Signal)

-----------------------------------------------------------------------------
(* The collector's process *)

NewCycle == [binance |-> 1, hyperliquid |-> "due", polymarket |-> "due",
             geoblock |-> None, rows |-> 0]

Init ==
    /\ process \in {[pc |-> "down", worker |-> "ended", signalled |-> FALSE,
                     mode |-> m, faults |-> 0] : m \in Modes}
    /\ loop = NewCycle
    /\ prices = [s \in Symbols |-> <<>>]
    /\ fresh = {}
    /\ signals = <<>>

CollectedUnchanged == UNCHANGED <<prices, fresh, signals>>

MayFault == process.faults < MaxFaults

\* The container starts, with the settings of its environment by then.
Start ==
    /\ process.pc = "down"
    /\ \E m \in Modes :
          process' = [process EXCEPT !.pc = "serving", !.worker = "connecting",
                                     !.signalled = FALSE, !.mode = m]
    /\ UNCHANGED loop
    /\ CollectedUnchanged

Connect ==
    /\ process.worker = "connecting"
    /\ process' = [process EXCEPT !.worker = "working"]
    /\ UNCHANGED loop
    /\ CollectedUnchanged

\* Repository.connect raises, outside any try: the worker's task ends, and the
\* process serves its health check on.
ConnectFails ==
    /\ process.worker = "connecting" /\ MayFault
    /\ process' = [process EXCEPT !.worker = "ended", !.faults = @ + 1]
    /\ UNCHANGED loop
    /\ CollectedUnchanged

\* SIGTERM or SIGINT, which ends uvicorn's task too.
StopSignal ==
    /\ process.pc = "serving" /\ ~process.signalled /\ MayFault
    /\ process' = [process EXCEPT !.signalled = TRUE, !.faults = @ + 1]
    /\ UNCHANGED loop
    /\ CollectedUnchanged

\* FIRST_COMPLETED: any of the three tasks that is over.
SomeTaskOver == process.worker = "ended" \/ process.signalled

\* serve's finally: the worker is cancelled wherever it waits, and its cycle is
\* gone.
ShutDown ==
    /\ process.pc = "serving" /\ SomeTaskOver
    /\ process' = [process EXCEPT !.pc = "stopping", !.worker = "ended"]
    /\ loop' = NewCycle
    /\ CollectedUnchanged

Exit ==
    /\ process.pc = "stopping"
    /\ process' = [process EXCEPT !.pc = "down"]
    /\ UNCHANGED loop
    /\ CollectedUnchanged

ProcessStep == Start \/ Connect \/ ShutDown \/ Exit

-----------------------------------------------------------------------------
(* The collector's cycle *)

Working == process.worker = "working"

\* Mutant of Later: keeps every price.
LaterUntrimmed(s, price) == Append(prices[s], price)

\* The newest prices, Limit of them, as recent_snapshots reads them.
Later(s, price) == LET all == Append(prices[s], price)
                   IN SubSeq(all, IF Len(all) > Limit THEN 2 ELSE 1, Len(all))

\* Mutant of AfterFailure: the try is around the loop.
AfterFailureOver == Len(SymbolOrder) + 1

\* The symbol after one that could not be read.
AfterFailure == loop.binance + 1

\* collect_binance, one symbol.
CollectBinance ==
    /\ Working /\ loop.binance <= Len(SymbolOrder)
    /\ LET s == SymbolOrder[loop.binance] IN
       \/ /\ \E price \in Quotes[s] : prices' = [prices EXCEPT ![s] = Later(s, price)]
          /\ fresh' = fresh \cup {s}
          /\ loop' = [loop EXCEPT !.binance = @ + 1]
       \/ \* a request or the insert fails, or the ticker has no price
          /\ s \in Flaky
          /\ loop' = [loop EXCEPT !.binance = AfterFailure]
          /\ UNCHANGED <<prices, fresh>>
    /\ UNCHANGED <<process, signals>>

\* collect_hyperliquid: nothing reads the rows it writes, which are of coins and
\* not of symbols.
CollectHyperliquid ==
    /\ Working /\ loop.hyperliquid = "due"
    /\ loop' = [loop EXCEPT !.hyperliquid = "done"]
    /\ UNCHANGED process
    /\ CollectedUnchanged

AllowedModes == {"OBSERVE_ONLY", "PAPER_ONLY"}

\* Mutant of AfterProbe: without the return after the risk event.
AfterProbeReads(verdict) == IF verdict = "failed" THEN "done" ELSE "read"

\* What collect_polymarket does once the probe has answered.  An answer that is
\* no object, or says nothing of a block, is not one.
AfterProbe(verdict) == CASE verdict = "failed" -> "done"
                         [] verdict = "blocked" -> "report"
                         [] OTHER -> "read"

\* collect_polymarket, up to its probe.
ProbeGeoblock ==
    /\ Working /\ loop.polymarket = "due"
    /\ \/ /\ process.mode \notin AllowedModes
          /\ loop' = [loop EXCEPT !.polymarket = "done"]
       \/ /\ process.mode \in AllowedModes
          /\ \E verdict \in Verdicts :
                loop' = [loop EXCEPT !.geoblock = verdict, !.polymarket = AfterProbe(verdict)]
    /\ UNCHANGED <<process, prices, fresh, signals>>

\* The risk event of a block; when its insert raises, gather keeps the exception
\* and nobody looks at it.
ReportGeoblock ==
    /\ Working /\ loop.polymarket = "report"
    /\ \E end \in {"reported", "done"} : loop' = [loop EXCEPT !.polymarket = end]
    /\ UNCHANGED process
    /\ CollectedUnchanged

\* One row of Polymarket's, or the end: no market is left, or a call fails.
CollectPolymarket ==
    /\ Working /\ loop.polymarket = "read"
    /\ \/ /\ loop.rows < MaxMarkets
          /\ loop' = [loop EXCEPT !.rows = @ + 1]
       \/ loop' = [loop EXCEPT !.polymarket = "done"]
    /\ UNCHANGED process
    /\ CollectedUnchanged

CycleOver == /\ loop.binance > Len(SymbolOrder)
             /\ loop.hyperliquid = "done"
             /\ loop.polymarket \in {"reported", "done"}

\* The gather is over, and POLL_INTERVAL_SECONDS.
NextCycle ==
    /\ Working /\ CycleOver
    /\ loop' = NewCycle
    /\ UNCHANGED process
    /\ CollectedUnchanged

CollectorStep == \/ CollectBinance \/ CollectHyperliquid
                 \/ ProbeGeoblock \/ ReportGeoblock \/ CollectPolymarket
                 \/ NextCycle

\* Time passes, and no price written before counts as fresh.
Age ==
    /\ fresh # {}
    /\ fresh' = {}
    /\ UNCHANGED <<process, loop, prices, signals>>

-----------------------------------------------------------------------------
(* The strategy *)

Total(seq) == FoldSeq(LAMBDA x, sum : x + sum, 0, seq)

\* The newest k prices, or all of them when there are fewer.
Newest(seq, k) == SubSeq(seq, IF Len(seq) > k THEN Len(seq) - k + 1 ELSE 1, Len(seq))

\* ma20 > ma60
Rising(seq) == LET long == Newest(seq, LongWindow) IN
    Total(Newest(seq, ShortWindow)) * Len(long) > Total(long) * ShortWindow

\* latest > ma20 * share / 1000
Above(seq, share) == 1000 * ShortWindow * Last(seq) > share * Total(Newest(seq, ShortWindow))
Below(seq, share) == 1000 * ShortWindow * Last(seq) < share * Total(Newest(seq, ShortWindow))

\* generate_crypto_signals: the strategy whose signal the prices call for.
Called(seq) ==
    IF Len(seq) < ShortWindow THEN {}
    ELSE IF Above(seq, 1003) /\ Rising(seq) THEN {"trend_following_v1"}
    ELSE IF Below(seq, 985) THEN {"mean_reversion_v1"} ELSE {}

\* Mutant of Offsets: a wider range to enter at.
OffsetsWide(strategy) ==
    IF strategy = "trend_following_v1"
    THEN [min |-> 997, max |-> 1002, stop |-> 985, near |-> 1027, far |-> 1039, confidence |-> 670]
    ELSE [min |-> 995, max |-> 1005, stop |-> 975, near |-> 1040, far |-> 1040, confidence |-> 660]

\* The numbers of a signal, as shares of the latest price.  The targets are 1.8
\* and 2.6, or 1.6 alone, times the distance of the stop above it.
Offsets(strategy) ==
    IF strategy = "trend_following_v1"
    THEN [min |-> 997, max |-> 1002, stop |-> 985, near |-> 1027, far |-> 1039, confidence |-> 670]
    ELSE [min |-> 995, max |-> 1001, stop |-> 975, near |-> 1040, far |-> 1040, confidence |-> 660]

\* _weighted_rr: the mean reward for the risk, both from the latest price.
WeightedReward(o) == (1000 * (o.near + o.far - 2000)) \div (2 * (1000 - o.stop))

\* build_agent_json of a signal.
AgentJson(g) == LET o == Offsets(g.strategy) IN
    [symbol |-> g.symbol, direction |-> "LONG",
     min |-> o.min * g.latest, max |-> o.max * g.latest, stop |-> o.stop * g.latest,
     targets |-> {o.near * g.latest, o.far * g.latest},
     reward |-> WeightedReward(o), confidence |-> o.confidence,
     risk |-> 5, notional |-> 100, leverage |-> 1]

\* The newest prices are read and the signal is inserted; a signal too poor in
\* reward is not.
GenerateSignal(s) ==
    /\ Len(signals) < MaxSignals
    /\ \E strategy \in Called(prices[s]) :
          /\ WeightedReward(Offsets(strategy)) >= 1500
          /\ signals' = Append(signals, [symbol |-> s, strategy |-> strategy,
                                         latest |-> Last(prices[s]), status |-> "NEW"])
    /\ UNCHANGED <<process, loop, prices, fresh>>

-----------------------------------------------------------------------------
(* Decision and place *)

\* The newest price, as both checks read it; each signal's symbol has one.
Mid(s) == 1000 * Last(prices[s])

\* DecisionService.create on the agent's decision: its numbers, and the first
\* risk check.
Decide(i) ==
    /\ signals[i].status = "NEW"
    /\ LET j == AgentJson(signals[i])
           passed == WellOrdered(j) /\ Reasons(j, Mid(j.symbol), Equity) = {}
       IN signals' = [signals EXCEPT ![i].status = IF passed THEN "DECIDED" ELSE "REJECTED"]
    /\ UNCHANGED <<process, loop, prices, fresh>>

\* Mutant of MayOpen: without the second risk check.
MayOpenUnchecked(j) == TRUE

\* PaperOrderService.place, its second risk check.
MayOpen(j) == Reasons(j, Mid(j.symbol), Equity) = {}

\* insertPosition: the trade that a decision becomes, entered at the upper end
\* of its range.
PositionOf(j) == [direction |-> j.direction, entry |-> j.max, stop |-> j.stop,
                  targets |-> j.targets]

\* A place refused may be tried again.
Open(i) ==
    /\ signals[i].status = "DECIDED"
    /\ MayOpen(AgentJson(signals[i]))
    /\ signals' = [signals EXCEPT ![i].status = "OPENED"]
    /\ UNCHANGED <<process, loop, prices, fresh>>

-----------------------------------------------------------------------------

Next ==
    \/ ProcessStep \/ ConnectFails \/ StopSignal
    \/ CollectorStep \/ Age
    \/ \E s \in Symbols : GenerateSignal(s)
    \/ \E i \in DOMAIN signals : Decide(i) \/ Open(i)

\* The container's policy starts a process that is down.  No call of the
\* collector waits for ever: its requests have a timeout, and the database
\* answers or fails.
Fairness == WF_vars(ProcessStep) /\ WF_vars(CollectorStep)

MarketSpec == Init /\ [][Next]_vars /\ Fairness

-----------------------------------------------------------------------------
(* Properties *)

\* Polymarket's rows are written in a cycle only if the mode is one of the two
\* allowed and the probe of this very cycle neither failed nor said that the
\* region is blocked, across cycles, stops and restarts (collect_polymarket).
NeverWhileBlocked ==
    loop.rows > 0 => /\ loop.geoblock \in {"open", "unreadable"}
                     /\ process.mode \in AllowedModes

\* Every signal of the strategy passes, at the price it was made at, the order
\* of its numbers and all rules on numbers of the control API: the strategy's
\* constants (strategy.py) and the limits (RiskProperties) are kept apart.
SignalPasses ==
    \A i \in DOMAIN signals : LET j == AgentJson(signals[i]) IN
        WellOrdered(j) /\ Reasons(j, 1000 * signals[i].latest, Equity) = {}

\* A position is opened only while it is in play, whatever the price did since
\* the signal: it has its stop and its targets on their sides of the price it is
\* booked at (what the keeper's arithmetic rests on), the keeper's next look at
\* the newest price closes nothing (_evaluate), and its nearest target wins more
\* than its stop loses.
OpensInPlay == [][\A i \in DOMAIN signals :
    signals[i].status = "DECIDED" /\ signals'[i].status = "OPENED" =>
        LET j == AgentJson(signals[i])
            t == PositionOf(j)
        IN /\ t \in Trade /\ ValidTrade(t)
           /\ Evaluate(t, Mid(j.symbol)) = {}
           /\ \A x \in t.targets : Pnl(t, x) > Risk(t)]_vars

\* A symbol that can be read gets a new price again and again, whatever becomes
\* of the other symbols, of the other sources, and of the process.
QuotesKeepComing == \A s \in Symbols \ Flaky : []<>(s \in fresh)
=============================================================================
