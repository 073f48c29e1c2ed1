# AI-Quant, specified

AI-Quant is a paper-trading system. Python workers collect prices, turn them
into trade signals and have a control API (Spring Boot) decide on each; a human
approves a decision with a one-time code; a broker worker places the paper
order; a keeper worker closes positions at their stop or target and keeps the
account; a review worker judges every decision after 24 hours, 48 hours and 7
days. The parts share one PostgreSQL database, and the control API a Redis.
Nothing else holds them together: no broker of messages, no distributed
transaction. What makes the system correct is in the conditions of its queries,
its unique indexes, one advisory lock, one Redis key and the order in which
workers mark rows. That is what these modules are about.

## 1. Inventory

| Component | State | Operations | Talks to |
|---|---|---|---|
| Approval gate, `ApprovalService` | `approval_request`, `decision_log.approval_id`, Redis `approval:confirm:<decision>` | `create`, `confirm` | agent worker, operator |
| Paper orders, `PaperOrderService` | `trade_order`, `trade_position`, `review_task`; an advisory lock per decision | `place` | paper broker, any API caller |
| Risk rules, `RiskService` | none; reads `account_snapshot`, `trade_position`, `market_snapshot` | `check`, before the approval and at the order | decision and order services |
| Decision service | `decision_log` | `create` | agent worker |
| Paper broker, `paper_broker.py` | the round's list in memory | poll, `place_paper_order` | order service over HTTP, 20 s timeout |
| Position keeper, `position_keeper.py` | `trade_position`, `account_snapshot`; the tick's profits in memory | `tick`, `refresh_account_snapshot` | database only |
| Agent worker, `agent.py` | `trade_signal.status`; the round in memory | `handle_signal` | decision and approval services over HTTP, operator by message |
| Review worker, `review.py` | `review_task`, `review_result`, `experience_memory`; the round in memory | `review_task` | database only |
| Strategy worker, `strategy.py` | none | reads the newest prices, one insert into `trade_signal` | database |
| Collector, `collector.py` | the cycle in memory | inserts into `market_snapshot` from three sources, the geoblock guard | exchanges, database |
| Wiki and experiences, `agent.py`, `repository.py`; embedders, `embedding.py` | `wiki_entry`, `experience_memory`; the embedder each worker made at its start | backfill, recall, insert of an experience | model server, database, operator by SQL |
| Worker process, `main.py` | three tasks | start, cancel, exit; the container starts it again | container runtime |
| Notifier | none that others wait for | messages | Telegram, webhook |
| Authentication, audit, dashboard, deployment | none | filters, views, scripts | |

What is hard in each, and the properties that make it correct:

* **Approval.** `confirm` touches Redis, the clock and the database in turn while
  other confirms and a new `create` run. One open request per decision; an
  approval once answered is never revised; nothing approved after its expiry; one
  guess per code.
* **Orders.** Two places of one decision, perhaps under different client order
  ids, and places of different decisions that share the account. One order per
  decision; each on a young approval; no more positions than the limit, which the
  code does not keep when places overlap.
* **Broker.** It gives up on requests that run on, it forgets its queue when it
  is restarted, and its query takes a limited number of rows. Still nothing is
  executed twice, and each approved decision is tried.
* **Keeper.** A tick is many small commits and one insert at the end, from a list
  in memory, which the pinned database driver refuses. Snapshots must add up over
  days and weeks, nothing is counted twice, a loss is bounded by the stop, and a
  position that is due is closed, also when no snapshot is ever written.
* **The loop of place, keeper and account.** A place reads the account in one query
  after another while the keeper writes it; what a place opens, the keeper turns
  into the losses that stop the next place. Overlapping places overshoot the limit
  by themselves and by no more; a pause holds.
* **Market to order.** The strategy's constants and the control API's limits belong
  to two programs; minutes and price moves lie between signal, approval and order.
  A signal passes the rules on numbers; a position is opened in play. A failing
  symbol, source or process does not end the collection; a blocked region is not read.
* **Memory.** Vectors are filled in late, from a provider that may fail, answer at
  any length, and be switched while vectors are in hand. No signal fails for it as
  long as its numbers are finite, no two semantic spaces are compared after the
  documented switch, every entry is filled.
* **Agent.** Several awaits lie between the first mark of a signal and the last,
  each of which may fail with or without effect. No signal is decided twice, each
  final status is earned, what the operator was told stays true, and every signal
  is handled to the end.
* **Review.** A result, an experience and a status have to agree although any
  call may fail or its answer be lost; several windows of a decision fall due
  together after an outage. One result per task, later windows that do not
  contradict earlier ones, short windows seen whole, every due task looked at.

`PROJECT.json` lists all of this as hazards at the lines where they bite, with
the properties that cover them or the reason why none does yet.

## 2. Modules

| Module | Models | Rests on |
|---|---|---|
| `ApprovalGate` | what the gate promises: at most one offer per decision, a grant never revised | |
| `Approval` | `ApprovalService` step by step; implements `ApprovalGate` | `ApprovalGate` |
| `ExecuteOnce` | what the order service promises: an approved decision is executed at most once, for good | |
| `PaperOrder` | `PaperOrderService.place` statement by statement, on the approvals of the abstract gate; implements `ExecuteOnce` | `ApprovalGate`, `ExecuteOnce` |
| `PaperBroker` | `run_paper_broker`, composed with `PaperOrder` | `PaperOrder` |
| `Evaluation` | what a price does to a position, as pure operators: when the keeper closes it (`_evaluate`) and what it then wins or loses | |
| `PositionKeeper` | `tick` and `refresh_account_snapshot` | `Evaluation` |
| `Trading` | the account rules of the second risk check and the insert of `place`, composed with the keeper | `PositionKeeper` |
| `RiskRules` | the rules on a decision's numbers as pure operators: `validateAgentJson`, `RiskService.check` | |
| `Market` | the collector's process and cycle, the strategy, the two checks of a signal and its opening | `RiskRules`, `Evaluation` |
| `Memory` | wiki and experiences, backfill and recall, the embedders, the operator's edits | |
| `AgentWorker` | `run_agent`, `handle_signal`, and the two services it calls | |
| `Review` | `run_review`, `review_task` and the query of a window | |
| `MC…` | instances for TLC | |
| `…Proofs` | theorems and their proofs | `TLAPS` |

### State and actions against the code

**Approval.** `approvals` is the table, `linked` the column
`decision_log.approval_id`, `reservedUntil` the expiry of the Redis key, `calls`
the request threads with a program counter. `Create` is the whole transaction
of `create`. `confirm` is `Reserve`/`Refuse` (allow-list and SETNX),
`FindPending`/`FindNothing` (the SELECT), `RejectExpired`/`CompareCode` (clock
and hash), `Grant`/`GrantTooLate` (the conditional UPDATE and commit). A step
that throws rolls the database back and keeps what it did to Redis, hence
`RejectExpired` changes no row. `Fail` is an error at any point, `LoseKey` an
evicted or deleted key. Hashes are the pairs they are computed from.

**PaperOrder.** A place runs under READ COMMITTED: each SELECT is a step, the
inserts with the commit are one (`Insert`). `begun` is PostgreSQL's `now()`, the
begin of the transaction; `TakeLock` is `pg_advisory_xact_lock`, which is why a
place may wait while its approval ages. `CountOpen` is the first read of the
second risk check, `PassSecondCheck`/`FailSecondCheck` the rest; the rules on
the request's own numbers are a free choice (`bad`). A decision to observe goes
from `FindNoOrder` straight to `Insert`, as `RiskService.check` skips all of its
account rules. An equity of zero or less counts as the configured one
(`EquityFor`, `firstPositive`). Closing positions and new snapshots are the keeper's
bare effect.

**PaperBroker.** `broker` is the loop: polling, sending the head of `queue`,
awaiting `call`. `Answers` is the query, `ORDER BY approved_at LIMIT`. A fill, a
rejection and an error all end in `NextDecision`; `TimeOut` leaves the request
running in `places`.

**PositionKeeper.** `keeper` is the tick with its list `closed` and the
snapshot `draft` it computes. `Skip`, `Mark` and `Close` are the three ends of
the loop body, in the order of `created_at`, by what `Evaluate` says of the price;
`ReadAccount` and `Book` are `refresh_account_snapshot` up to the insert, `EndTick` its
return when no row is due, and the insert is `WriteAccount` or `RefuseDates`.
`Fault` drops a tick anywhere. `Quote` and `NewDay` go on in between. `booked` and
`gone` are histories: the profits written to snapshots and those that went with the
list of a tick that failed or was refused.

Which of the two it is, is up to the driver. The statement casts its two dates,
`$7::date` and `$8::date`, and gets them as text (`.isoformat()`); asyncpg 0.30.0,
which `requirements.txt` pins, encodes a date parameter from a date object and raises
`DataError` for a string. So the program as it is only ever refuses: each tick that has
closed something or has seen a new day fails at its end, its closes stay, its profits
are lost, and the account is the seeded one for good. That is `TextAsDate = FALSE`. With
`TextAsDate = TRUE` each insert may be refused or taken: these behaviours include those
of the program as it is, in which all are refused, and those of the program once its
dates are passed as dates. What holds with TRUE, as in `Trading_Account` and in the
theorems, therefore holds of both; but what snapshots, streak and pauses do is of
interest in the second only. That the windows follow the calendar is stated of neither:
the first does not do it.

**Trading.** `places` are the request threads inside `place`, past the lock:
`Begin` reads the equity (with the fallback of `firstPositive`) and applies the
limit on the risk of a trade, `CountOpen` and `CheckLoss` are the queries in the
order of `RiskService.check`, `Insert` is the order with its position. A decision to
observe goes to `Insert` at once. The code names every broken rule; here the first
ends the place, and `Abandon` stands for the rules on the numbers and for failures.
Approvals and the lock per decision are `PaperOrder`'s; here every place is of a
decision of its own.

**RiskRules and Market.** `process` is `serve` with its worker's task: `Connect` or
`ConnectFails`, `ShutDown` when a task is over (`FIRST_COMPLETED`), `Exit`, and
`Start` by `restart: unless-stopped`. `loop` is one `gather` of the three
collections, each with what it has still to do. `GenerateSignal` is
`generate_crypto_signals` with its query and its insert, as nothing reads a signal
in between; `Called` is its two conditions and `Offsets` its numbers, as shares of
the newest price. `AgentJson` is `build_agent_json`. `Decide` is
`DecisionService.create` with the first check, `Open` is `place` with the second:
both apply `Reasons` at the price that is newest by then. `PositionOf` is the
position as the keeper will read it.

**Memory.** `wiki` and `experiences` are the tables, a vector is its space, its
length and whether its numbers are finite. `agent` is `handle_signal` up to the
recall: `StartRound` embeds the query,
`ReadBacklog`, `EmbedEntry`, `StoreEntry` are `backfill_wiki_embeddings`, then the two
recalls. `review` is the vector of the experience about to be inserted. `Embeddings`
is `embed` of either class: the model's vector, padded or cut, or the hash when
anything raises. Numbers that are not finite raise nothing there (`NotFinite`), but the
`vector` type, which is not in this repository, takes none (`Storable`); a vector of
zeros is one it takes. `ChangeProvider`, `Restart`, `ClearWiki` and `ClearExperiences`
are the steps of `docs/wiki.md`, in any order.

**AgentWorker.** `signals` are the rows with their status, `agent` the loop with
its signal in hand. `Mark` is one UPDATE, which may fail before or after its
effect. The HTTP calls are records in `inflight`, served by `ServeDecide`,
`ServeRequest` or `Refuse` whether or not the worker still waits. `FailSignal`
is `safe_mark` in the handler of `run_agent`. `sends` and `told` are histories.

**Review.** `status` and `results` are two tables by task, `quotes` the market
snapshots, `review` the loop. `Verdict` is the arithmetic of `review_task` as a
function of the prices in a window. `Commit` is a transaction that may fail
before or after its commit.

### Abstractions and assumptions

* Amounts and prices are whole numbers and a position has quantity 1; floats and
  NUMERIC columns are not told apart, so rounding is not examined.
* The control API's statements work as written, which the repository does not settle
  and no test of it tries against a database: that pgjdbc binds an `Instant` given to
  `setObject` (`ApprovalService.java`, `PaperOrderService.java`), and that the `void` of
  `pg_advisory_xact_lock` can be read as a `Long` (`PaperOrderService.java:49-50`). If
  the first fails, so does every request for an approval, and every place at its
  review tasks; if the second does, so does every place. The safety properties then hold with
  nothing ever approved or opened, as such a call is one of the `Fail` steps;
  `ApprovedIsTried` holds as well, as it promises the attempt, and what the keeper and
  the review promise is about positions and tasks that are never there.
  Collisions of `hashtext` between decisions are left out; they only wait.
* The JVM, Redis and PostgreSQL share one clock.
* `confirm` reads the clock for the expiry and, a moment later, for
  `approved_at`; the second reading is that of the UPDATE. In `PaperOrder` the
  four reads of the newest account snapshot are one step; in `Trading` each is one.
* A position's side of stop and target is what `validateAgentJson` lets pass
  (`ValidTrade`, which `OpensInPlay` shows of each position the program's own signals
  open); an `entryPrice` chosen by an API caller, which could move the entry past the
  stop, is left out.
* A week has two days in the keeper's runs (`WeekLength`; seven in the code).
* In `Market` a price is a whole number and a signal's prices are its thousandths, so
  that the shares of the code (0.985, 1.002, ...) are exact; averages of two and three
  prices stand for those of twenty and sixty. `Equity` is a constant: what the account
  does to the checks is `Trading`. Hyperliquid's rows carry the name of a coin, which
  no query of a symbol finds.
* In `Memory` the nearest rows are any rows of the right topic, as no control flow
  depends on the similarity; `use_count` and `last_used_at` are left out.
* `Review` has one symbol, one price for the entry and the nearest target; the
  time from decision to order is short against a window; what is in flight at a
  restart has taken effect or not by then.
* One process per worker, which `container_name` in the compose file settles.

## 3. Runs

Twelve runs, one question each. Every property of a passing run has a mutant of
a modelled definition that breaks it (a dropped lock, guard or ORDER BY, a reset
left out, an off-by-one).

| Run | Asks | Bounds |
|---|---|---|
| `Approval_Races` | Do confirms and requests that interleave, slow or fast, with the key lost at any time, keep one open request, never revise an answer and implement the gate? And as long as none was slow and no key lost, is nothing approved late, and one code tried? | 1 decision, 2 requests, 2 confirms, 2 codes, clock to 5, so that a request and its key both run out |
| `Approval_Expiry` | Does an expired request end EXPIRED? **No.** | 1 decision, clock to 4 |
| `PaperOrder_Races` | One order per decision, on a young approval, implementing `ExecuteOnce`, with two places at a time and chosen ids? | 2 decisions, one observing; 2 approvals, 2 places, accounts that are calm, past a loss and empty, clock to 1 |
| `PaperBroker_Queue` | Round with room for all: is each approved decision asked for, also while a place the broker gave up on runs beside the next? | 2 decisions, 2 places, 1 restart, timeouts |
| `PaperBroker_Starved` | And when more wait than the LIMIT? **No.** | LIMIT 1 for 2 decisions |
| `Trading_Account` | With inserts of the snapshot refused, taken or cut off: do snapshots add up, is nothing counted twice or lost but with a failed tick, is a loss bounded by the stop, is a due position closed, is the limit on positions overshot by overlapping places only, does a pause hold? | 3 positions of 3 kinds, 2 places, limit 1, 2 prices, 3 days in 2 weeks, 1 fault, any number of refused inserts |
| `PositionKeeper_Dates` | With the pinned driver, do losses show as the streak that pauses trading? **No.** | 2 positions, no fault |
| `AgentWorker_Faults` | One decision per signal, statuses earned, messages true, signals handled? | 3 signals in rounds of 2, 2 faults, 1 restart |
| `Review_Windows` | One result per task, DONE with a result, windows that agree, short windows seen whole, due tasks looked at? | 1 decision of 3 kinds, 3 windows, 3 prices, 3 quotes of which a window takes 2, 1 fault, 1 restart |
| `Review_Long` | Does the 7-day review see its window? **No.** | windows 1, 2, 7 at one quote a tick, LIMIT 3 |
| `Memory_Recall` | Does a provider that fails or answers at any length, with finite numbers, fail no signal, does the documented switch leave no vector of the old space, is every entry filled, and before it is recalled? | 2 entries in rounds of 1, 1 experience, lengths below, at and above the dimension, 3 faults, restarts, clears and switches |
| `Market_Signals` | Do signals pass the rules on numbers, is a position opened in play, is a blocked region not read, is a symbol read again and again? | 2 symbols, the failing one first; 3 prices, which call for both strategies and stay in reach of an entry or leave it; 1 signal, 1 fault of the process |

Why the bounds suffice: each hazard needs two actors, or one actor and one
failure, on one or two rows. Two confirms and two requests give every overlap of
a confirm with another and with a new request. Two places reach both sides of
the lock and of the count. The keeper's days pass a day boundary inside a week
and a week boundary; three positions let both places open beside one to observe,
with a limit of one. Three signals in rounds of two put one behind a failed one
in a round and one in the next. Three windows in rounds of one make them compete
for the round. Three disruptions are a switch of the provider, one restart and one
clear, with vectors in hand before, between and after; a switch of both workers needs
four and is what the theorem is for. What depends on larger numbers is what the theorems are for.

Deadlock is checked in every run: the workers poll and the clock's bound leaves
other actions enabled. Symmetry (approvals, codes, calls; approvals, orders,
places) is used in runs with safety properties only.

### Fairness

`Approval` and `PaperOrder` state none. The workers are single asyncio loops that
always go on with their next statement: weak fairness of `BrokerStep`,
`KeeperStep`, `AgentStep`, `ReviewStep`, `CollectorStep`. The container's policy
starts a process that has ended: weak fairness of `ProcessStep`. The control API finishes each request it
has accepted (a thread per request, timeouts on its pools): weak fairness of
`Work(c)` and of `ServerStep`. No fairness is assumed of operators, prices,
failures, restarts or the clock. Failures and restarts are bounded, which
says they end; `ReviewFails`, `PrepareFails` and the reading of a `Flaky` symbol,
which a bad row or a refused request causes each time anew, are not. `ApprovedIsTried` and `DueIsReviewed` therefore hold although
the attempts may all fail: they promise the attempt. `SignalIsHandled` leaves out
behaviours in which the worker's database or messages fail, or it is restarted;
what happens there is below.

### What the violated runs show

* `Approval_Expiry`: `confirm` sets an expired request to EXPIRED and throws
  in the same transaction, so the row stays PENDING. As a PENDING row blocks
  another request for its decision, the decision cannot be approved any more.
* `PaperBroker_Starved`: decisions whose approval is too old, or which the second
  check rejects, stay first in `ORDER BY approved_at` and fill the LIMIT of 10.
* `PositionKeeper_Dates`: two positions are closed at their stops, the tick has a row to
  write, and the driver refuses it for its dates; neither equity nor streak ever learns
  of the losses. So it goes at every tick. What follows for the program as it is:
  equity, daily and weekly figures and streak stay the seeded ones, the windows stay
  where they were, and no rule on them ever stops an order. With the dates passed as
  dates, a tick that fails between its closes and the insert loses its losses all the
  same; TLC finds that with `TextAsDate = TRUE`.
* `Review_Long`: 5000 snapshots at up to one a minute are three and a half days.

Seen while modelling, and not kept as runs of their own:

* The broker gives up on a place after 20 seconds and sends the next decision; both
  count the open positions before either inserts. `OpenIsBounded` says by how much
  the limit of `config/risk.default.yml` is then exceeded: by the places that overlap.
* A NaN in the embedding provider's JSON, or a 1e400, raises nothing in `embed`: it passes
  `float()` and the division by the norm without the fallback, and the recall of the
  signal fails on it. With `NotFinite = TRUE` TLC finds `NeverBlocked` violated; the
  docstring of `OpenAICompatEmbedder` promises a fallback "on any error".
* A decision to OBSERVE (or FLAT) passes the second check without a look at the
  account, opens a position, and the keeper never closes it (`_evaluate` knows
  long and short only). It counts against the limit for good: with as many of them
  as the limit, `PauseHolds` says that nothing is traded any more.
* `PauseHolds` is also the answer to whether a pause after losses is ever left: not
  by the program. A win resets the streak, and a win needs a position. The same is
  true of the limit on a trade's risk: `build_agent_json` asks for 5 dollars, 0.5% of
  the seeded 1000, so that at 999 dollars every directional decision is refused until
  someone changes the account or the settings. Neither is met while the keeper's
  snapshots are refused: the account then stays at 1000 dollars and no losses.
* `docs/wiki.md` has the operator clear both tables after a switch of the provider
  "and wait for the agent-worker to fill them"; `backfill_wiki_embeddings` fills
  `wiki_entry` only, and `recall_experiences` skips rows without a vector. Cleared
  experiences are never recalled again.
* The strategy takes the newest prices however old they are, and the check on the
  entry's deviation compares with the same old price: with the collector down, signals
  are still made, decided and placed. The strategy repeats a signal every five minutes
  while the prices call for it.
* An answer of the geoblock probe that is no object counts as open (`_is_blocked`),
  which `NeverWhileBlocked` spells out (`unreadable`). The insert of the risk event may
  fail unseen, as `gather` keeps the exception; the region is still not read.
* The reward for risk of a trend signal, 2.2, is the mean over both targets from the
  signal's price. The keeper closes at the nearest target and the entry is booked at
  its upper end, so what is won for what is risked is 25/17, below `minRiskReward`.
  `OpensInPlay` therefore asks only that more is won than lost, besides the sides of
  stop and targets and that the keeper would not close the position at once.
* The first check of a decision sees no notional unless the decision has one, the
  second a default of 100; `build_agent_json` always writes 100, so they agree.
* The cap on a symbol's notional is applied to each order, not to their sum.
* A restart of the agent worker after `PROCESSING` leaves the signal there:
  `new_signals` reads NEW only. `SignalIsHandled` without `restarts > 0` fails.
* A decision with invalid JSON is answered with status REJECTED and
  `passed = true`. The agent reads the status, so nothing follows from it;
  `SettledForAReason` is what keeps it so, and its mutant reads `passed`.
* A decision counts as right when its target was touched after its stop; a
  FAILED review is not retried; an observed decision is judged as a short.

## 4. Proofs

Checked by TLAPS for every value of the constants that satisfies the named
assumptions of the modules (bounds are naturals, limits positive, `None` is no
id, snapshots have the shape of their table, trades have stop and targets on
their sides).  `Market` adds the windows' order and `SettingsAssumption`: the limits
leave room for the strategy's constants, and an entry may deviate by 2 to 17
thousandths.  The upper bound is not slack: from 18 on a trend-following
position could be opened below its own stop.

| Module | Theorem | Statement | Argument |
|---|---|---|---|
| `ApprovalProofs` | `TypeCorrect` | `Spec => []TypeOK` | `IndType`: a call beyond lookup names an inserted request of its decision |
| | `PendingLinked` | `PendingIsLinked` | the unique index and the link set in one step |
| | `AnsweredStands` | `AnsweredApprovalStands` | a request is granted only while PENDING, so no second grant touches an answered one |
| | `InTime` | `ApprovedInTime` | `GrantsAlive`: what is to be granted has not expired |
| | `LapsedForGood` | an action property: when the open request of a decision has expired and no confirm was slow, none of its requests changes and none is added | a grant would be of that request, the only PENDING one (`PendingLinked`), which `GrantsAlive` excludes; a create needs that there is none |
| | `OneGuess` | `ReserveTtl > ApprovalTtl`: `OneGuessPerCode` | `GuessInv`: a tried request's key outlives it, and a confirm in flight holds its key alone |
| | `ImplementsGate` | `Spec => GateSpec` | create maps to an offer, grant to a grant, all else stutters |
| `PaperOrderProofs` | `TypeCorrect` | `TypeOK` | |
| | `OneOrder` | `OneOrderPerDecision` | `OnceInv`: the lock is exclusive, and what was found under it (no order yet) holds until the insert |
| | `Approved` | `OrderWasApproved` | grants only grow |
| | `ImplementsOnce` | `Spec => OnceSpec` | an insert is a fill on a given approval, by the two above |
| | `OverbookedByCalls` | with finitely many calls, open trading positions ≤ `MaxOpenPositions` + calls − 1 | `Bounded`: open positions and calls past their count (`Coming`) together stay under that sum |
| | `BrokerTypeCorrect` | `BrokerTypeOK` | the queue is a sequence of decisions, non-empty unless polling |
| | `UsesOrders` | `BrokerSpec => Spec` | each broker step is a step of the order service or a stutter |
| | `RetriesExecuteOnce` | `BrokerSpec => OnceSpec` | from `UsesOrders` and `ImplementsOnce` |
| | `BrokerOverbooks` | of `BrokerSpec`, the bound of `OverbookedByCalls` | from `UsesOrders`: retries, rounds and restarts add nothing to it |
| `TradingProofs` | `KeeperTypeCorrect`, `PlannedLoss` | of `PositionKeeper`: `TypeOK`, `LossIsPlanned` | `OutcomeIsPlanned`: a close is at the stop or at a target, on known sides of the entry |
| | `TradingTypeCorrect`, `TradingLossIsPlanned` | `TradingTypeOK`, `LossIsPlanned` | a step of a place opens a position or leaves the keeper alone |
| | `OpenBounded` | `OpenIsBounded` | `Bounded`: open positions and places past their count stay under the limit and the places together |
| | `PauseStands` | `PauseHolds` | `KeeperInv`: what the keeper has in hand was open, and its draft continues the account |
| `LedgerProofs` | `SnapshotsAddUp` | `SnapshotAddsUp` | `Ledger`: the draft adds up over the log and what the tick has booked so far; days of the log never decrease and are at most the draft's, so a window that starts anew holds nothing (`RolledAddsUp`) |
| | `Balanced` | `AccountIsBalanced` | `Balance`: what the tick and the failed ones hold is what was closed and not written; a close adds one summand (`CloseAdds`), a failure moves the list (`TotalJoined`) |
| | `LossesPause` | all closed positions lost, and `PauseAfter` of them beside those in `gone`: the streak is at least `PauseAfter`; `PausedAfterLosses` while `gone` is empty | `Counted`: there are as many entries in the log, in hand and in `gone` as closed positions; when none is a win the streak is all of the log |
| | `LossesArePlanned` | equity, pending profits and those in `gone` ≥ seed − all `Risk` of the closed positions | `Balanced` and `LossIsPlanned`, summand by summand |
| | `TradingUsesKeeper`, `TradingLedger` | `TradingSpec => Init /\ [][Next]_vars`, and with it all of the above | a step of a place opens a position or stutters |
| `MemoryProofs` | `TypeCorrect`, `EmbeddingNeverBlocks` | `TypeOK`; `~NotFinite`: `NeverBlocked` | every vector, stored or in hand, has the column's length and is finite |
| | `RecallsInOneSpace` | `OneSpace` | vectors in hand are of their worker's embedder, and that is the configured one once it was restarted |
| | `FillsBeforeItRecalls` | `FilledBeforeRecall` | what is no longer to do in an undisturbed round is filled |
| `MarketProofs` | `MarketTypeCorrect`, `NeverReadWhileBlocked` | `MarketTypeOK`, `NeverWhileBlocked` | `Guarded`: the rows are behind the cycle's probe, and a process that is not serving has no cycle under way, so no start changes the mode of one |
| | `SignalsPass` | `SignalPasses` | `OnlyTheEntry`: of all rules only the distance of the entry depends on the price, and 1 or 2 thousandths are within its limit |
| | `OpensInPlayAlways` | `OpensInPlay` | `NearIsInPlay`: within 17 thousandths of the upper end of an entry no stop and no target is touched; `Priced`: each signal's symbol has a price; `WellOrderedIsValid` and `BetweenStaysOpen` put this in the keeper's terms, so that what is opened is of the shape `TradesAssumption` gives the keeper's theorems |
| `AgentWorkerProofs` | `TypeCorrect`, `AskedAtMostOnce`, `ReasonForEach`, `ToldIsTrue` | `TypeOK`, `AskedOnce`, `SettledForAReason`, `ToldStands` | one `IndInv`: what the loop knows of the signal in hand (`InHand`, `Heard`), and that only marked signals were asked for (`Asked`) |
| | `LeftForGood` | an action property: a signal that was taken up and is not in hand keeps its status; nothing more is asked for it or said of it | `InHand`: only NEW signals are to do, and only the one in hand is marked |
| `ReviewProofs` | `TypeCorrect`, `ReviewedOnce`, `DoneIsReviewed` | `TypeOK`, `OneResultPerTask`, `DoneHasResult` | `IndInv`: the task in hand and those to do are PENDING and distinct |
| | `WindowsAgree` | `LaterWindowAgrees` | `OrderInv`: windows of a decision are taken in order, and a verdict only grows with the quotes (`VerdictGrows`) |
| | `OnlyTheLimitHides` | a result whose window holds at most `WindowLimit` snapshots has seen each of them | `SeeInv`: what is in hand or was reviewed was due, and snapshots come in order of time, so no later one falls into its window; the first `WindowLimit` since the decision contain the window if it fits (`VerdictSees`) |
| | `ShortWindowsAreSeen` | `ShortWindowIsSeen`: each window `w` with `Rate * w <= WindowLimit` is seen whole, beside any longer ones | `RateKept`: at most `Rate` snapshots at one time; hence at most `Rate * w` in a window, by induction over its length (`FewInWindow`) |

None of the invariants is inductive by itself. `OneOrderPerDecision`, for one,
says nothing of a place about to insert; it needs that the place still finds no
order, which needs the lock. `LaterWindowAgrees` says nothing of the result in
hand; it needs the order in which tasks are taken and that a window never shrinks.
`OpenIsBounded` says nothing of places that have counted and not yet inserted.

`SnapshotAddsUp` says nothing of the draft, nor of the days already in the log.

The sums of the ledger are recursive functions over the indices of a sequence
(`Sums`). What they compute is proved in `LedgerProofs` without an induction theorem
over operators: a set of naturals that is not empty has a least element (`Least`, from
the well-foundedness of `<`), so a set that holds 0 and with each index the next one
holds them all (`Induct`); that the recursive function exists, and so unfolds as it is
written, is the first use of it (`SumExists`, `SumsRecur`). Appending, replacing one
summand and comparing summand by summand follow in the same way.

`LossesPause` is the counterpart of the run `PositionKeeper_Dates`: V004's pause at
three losses holds in every behaviour in which no tick was lost with something in its
list, and otherwise a lost tick delays it by what it held and no more.

Five theorems are the other side of a violated run or of a hazard. `LapsedForGood`
says that what `Approval_Expiry` finds is not mended by any later step: the request
stays PENDING and its decision unapproved. A slow confirm can still grant it, hence
the condition. `LeftForGood` does the same for a signal that a restart leaves at
PROCESSING. `OnlyTheLimitHides` says that the LIMIT is all that keeps a review from
its prices, and `ShortWindowsAreSeen` which reviews it spares: at one snapshot a minute
those of 24 and 48 hours hold 1440 and 2880 against the code's 5000, the seven days
10080. `OverbookedByCalls`, and `BrokerOverbooks` for the broker, are what is left of
the limit when places overlap. `WindowIsSeen` is a property of a violated run only.

Only model-checked: liveness under fairness, which is out of the prover's reach
(`ApprovedIsTried`, `DueIsClosed`, `SignalIsHandled`, `DueIsReviewed`, `EntryIsFilled`,
`QuotesKeepComing`). Every invariant and every action
property of the passing runs is a theorem.

## 5. Not modelled

* The rules of `RiskService.check` on a market's name, live trading and Polymarket's
  mode: no signal of the program reaches them. `entryPrice`, `qty` and `notionalUsd`
  chosen by an API caller: the broker sends none.
* The texts: prompts, messages, reasons, summaries; the values of vectors; funding and
  open interest, which only go into texts; payloads of the exchanges.
* Notifier, authentication, audit, dashboard, error mapping: no state that others
  wait for. A message is sent or fails in `AgentWorker`'s `Notify`.
* `risk_event`: written, read by the dashboard only. `use_count`, `upsert_wiki`,
  `latest_memories`: written and not read, or never called.
* The age of a price: no code looks at it.
* Deployment scripts and backups.

## 6. Plan

In the order of importance; what is done is marked.

1. Approval gate with its abstract specification and proofs (done).
2. Order service on the abstract gate, `ExecuteOnce`, proofs (done).
3. Broker composed with the order service, with its liveness (done).
4. Position keeper, agent worker, review worker (done).
5. `Trading`: places, keeper and account in one loop, with proofs (done).
6. `Memory`: wiki, experiences and embedders, with proofs (done).
7. `RiskRules` and `Market`: from the collector to an opened position (done).
8. `LedgerProofs`: the sums of the account (done).
9. The other side of the violated runs: what holds under which condition, and what
   stays lost (done).
10. The driver that refuses the keeper's dates, and providers whose numbers are not
    finite (done).
11. Left: whether the windows follow once the dates are passed as dates, and the age
    of prices, should the code come to look at it.
