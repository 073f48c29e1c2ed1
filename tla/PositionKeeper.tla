---------------------------- MODULE PositionKeeper ----------------------------
(***************************************************************************)
(* The position keeper (position_keeper.py): the worker that watches the   *)
(* open positions, closes those whose stop or target the last price has    *)
(* reached, and books the realised profits and losses of its tick into a   *)
(* new account snapshot, the one the risk rules read.                      *)
(*                                                                         *)
(* A tick is not a transaction: each close commits on its own, the profits *)
(* wait in a local list, and the snapshot is read, computed and inserted   *)
(* at the end.  Prices move, days pass and positions are opened meanwhile. *)
(*                                                                         *)
(*   idle --open_positions--> scan --each position--> book --insert--> idle *)
(*                                                                         *)
(* The insert casts its two dates from text (repository.py, lines 520,     *)
(* 528, 529).  Whether it works is up to asyncpg: the pinned 0.30.0 takes  *)
(* a date for a date parameter and refuses a string, so that every tick    *)
(* that has something to write fails there.  With TextAsDate = FALSE every *)
(* insert is refused, which is the program as pinned; with TRUE an insert  *)
(* may be refused or taken, which has the pinned program's behaviours and  *)
(* those of the same program once its two dates are passed as dates.       *)
(*                                                                         *)
(* Amounts are whole numbers and every position has quantity 1.            *)
(***************************************************************************)
EXTENDS Evaluation, Sequences, FiniteSetsExt

CONSTANTS
    Trades,         \* what a new position may look like
    Prices,         \* what latest_price may answer
    Seed,           \* the equity of V002's first snapshot
    WeekLength,     \* days of a week
    PauseAfter,     \* maxConsecutiveLosses
    MaxPositions,   \* bound on the positions opened
    LastDay,        \* bound on the days
    MaxFaults,      \* bound on the ticks that fail or are cut short
    TextAsDate,     \* external: asyncpg may take a string for a date parameter
    None            \* the absent value

ASSUME TradesAssumption == Trades \subseteq Trade /\ \A t \in Trades : ValidTrade(t)
ASSUME PricesAssumption == Prices \subseteq Nat
ASSUME NumbersAssumption ==
    /\ Seed \in Nat /\ WeekLength \in Nat \ {0} /\ PauseAfter \in Nat
    /\ MaxPositions \in Nat /\ LastDay \in Nat /\ MaxFaults \in Nat
ASSUME DriverAssumption == TextAsDate \in BOOLEAN
ASSUME NoneAssumption == None \notin Nat

VARIABLES
    today,      \* the UTC date
    price,      \* the newest price, None before the first
    positions,  \* trade_position in the order of created_at
    account,    \* the newest row of account_snapshot
    keeper,     \* the tick of the keeper
    booked,     \* history: the profits booked into snapshots, each with its day
    gone,       \* history: the profits that went with a failed tick
    faults      \* ticks that failed so far

vars == <<today, price, positions, account, keeper, booked, gone, faults>>

-----------------------------------------------------------------------------
(* Types *)

Position == [trade : Trades, status : {"OPEN", "CLOSED"}, reason : {"STOP_LOSS", "TAKE_PROFIT", None},
             realized : Int, unrealized : Int]

Account == [equity : Int, daily : Int, weekly : Int, streak : Nat, day : Nat, week : Nat]

Keeper == [pc     : {"idle", "scan", "book"},
           todo   : SUBSET Nat,     \* positions still to look at
           closed : Seq(Int),       \* closed_pnl
           next   : Nat,            \* the loop over closed_pnl: its next item
           draft  : Account]        \* the snapshot being computed

TypeOK ==
    /\ today \in Nat
    /\ price \in Prices \cup {None}
    /\ positions \in Seq(Position)
    /\ account \in Account
    /\ keeper \in Keeper
    /\ keeper.todo \subseteq DOMAIN positions
    /\ booked \in Seq([pnl : Int, day : Nat])
    /\ gone \in Seq(Int)
    /\ faults \in 0..MaxFaults

-----------------------------------------------------------------------------
(* Reading the state *)

Ids == DOMAIN positions

\* Mutant of OpenIds: without the condition on the status.
EveryId == Ids

OpenIds == {i \in Ids : positions[i].status = "OPEN"}

WeekOf(day) == day \div WeekLength     \* _monday_of

-----------------------------------------------------------------------------
(* Initial state: the seeded account, nothing open *)

NewAccount == [equity |-> Seed, daily |-> 0, weekly |-> 0, streak |-> 0, day |-> 0, week |-> 0]

Idle == [pc |-> "idle", todo |-> {}, closed |-> <<>>, next |-> 1,
         draft |-> NewAccount]

Init ==
    /\ today = 0
    /\ price = None
    /\ positions = <<>>
    /\ account = NewAccount
    /\ keeper = Idle
    /\ booked = <<>>
    /\ gone = <<>>
    /\ faults = 0

-----------------------------------------------------------------------------
(* tick *)

StartTick ==
    /\ keeper.pc = "idle"
    /\ keeper' = [Idle EXCEPT !.pc = "scan", !.todo = OpenIds]
    /\ UNCHANGED <<today, price, positions, account, booked, gone, faults>>

\* The next position, in the order of created_at.
IsNext(i) ==
    /\ keeper.pc = "scan"
    /\ i \in keeper.todo
    /\ \A j \in keeper.todo : i <= j

\* No price yet for the symbol.
Skip(i) ==
    /\ IsNext(i)
    /\ price = None
    /\ keeper' = [keeper EXCEPT !.todo = @ \ {i}]
    /\ UNCHANGED <<today, price, positions, account, booked, gone, faults>>

\* update_position_unrealized
Mark(i) ==
    LET t == positions[i].trade IN
    /\ IsNext(i)
    /\ price # None
    /\ Evaluate(t, price) = {}
    /\ positions' = IF positions[i].status = "OPEN"
                    THEN [positions EXCEPT ![i].unrealized = Pnl(t, price)]
                    ELSE positions
    /\ keeper' = [keeper EXCEPT !.todo = @ \ {i}]
    /\ UNCHANGED <<today, price, account, booked, gone, faults>>

\* close_position; the profit is remembered whether or not a row was updated.
Close(i) ==
    LET t == positions[i].trade IN
    /\ IsNext(i)
    /\ price # None
    /\ \E outcome \in Evaluate(t, price) :
         LET pnl == Pnl(t, outcome.at) IN
         /\ positions' = IF positions[i].status = "OPEN"
                         THEN [positions EXCEPT ![i] =
                                  [trade |-> t, status |-> "CLOSED", reason |-> outcome.reason,
                                   realized |-> pnl, unrealized |-> 0]]
                         ELSE positions
         /\ keeper' = [keeper EXCEPT !.todo = @ \ {i}, !.closed = Append(@, pnl)]
    /\ UNCHANGED <<today, price, account, booked, gone, faults>>

-----------------------------------------------------------------------------
(* refresh_account_snapshot *)

\* Mutant of Rolled: the weekly figure runs on.
RolledDailyOnly(a, day) ==
    [a EXCEPT !.daily = IF a.day = day THEN @ ELSE 0, !.day = day, !.week = WeekOf(day)]

\* Mutant of Rolled: weekly_window_start is left null.
RolledNoWeek(a, day) ==
    [a EXCEPT !.daily = IF a.day = day THEN @ ELSE 0, !.day = day, !.weekly = 0, !.week = None]

\* The daily and weekly windows start anew with their day and week.
Rolled(a, day) ==
    [a EXCEPT !.daily = IF a.day = day THEN @ ELSE 0,
              !.day = day,
              !.weekly = IF a.week = WeekOf(day) THEN @ ELSE 0,
              !.week = WeekOf(day)]

\* What one profit does to the snapshot.
Booked(a, pnl) ==
    [a EXCEPT !.equity = @ + pnl, !.daily = @ + pnl, !.weekly = @ + pnl,
              !.streak = IF pnl < 0 THEN @ + 1 ELSE IF pnl > 0 THEN 0 ELSE @]

\* Every position was looked at: the last snapshot and the date are read.
ReadAccount ==
    /\ keeper.pc = "scan"
    /\ keeper.todo = {}
    /\ keeper' = [keeper EXCEPT !.pc = "book", !.draft = Rolled(account, today)]
    /\ UNCHANGED <<today, price, positions, account, booked, gone, faults>>

\* One turn of the loop over closed_pnl, on local variables only.
Book ==
    /\ keeper.pc = "book"
    /\ keeper.next <= Len(keeper.closed)
    /\ keeper' = [keeper EXCEPT !.draft = Booked(@, keeper.closed[keeper.next]), !.next = @ + 1]
    /\ UNCHANGED <<today, price, positions, account, booked, gone, faults>>

\* A new row is due: something was closed, or a window has moved.
RowIsDue ==
    \/ keeper.closed # <<>>
    \/ keeper.draft.day # account.day \/ keeper.draft.week # account.week

AllBooked == keeper.pc = "book" /\ keeper.next > Len(keeper.closed)

\* Nothing to write: the tick returns.
EndTick ==
    /\ AllBooked /\ ~RowIsDue
    /\ keeper' = Idle
    /\ UNCHANGED <<today, price, positions, account, booked, gone, faults>>

\* insert_account_snapshot
WriteAccount ==
    /\ AllBooked /\ RowIsDue /\ TextAsDate
    /\ account' = keeper.draft
    /\ booked' = booked \o [i \in DOMAIN keeper.closed |->
                                [pnl |-> keeper.closed[i], day |-> keeper.draft.day]]
    /\ keeper' = Idle
    /\ UNCHANGED <<today, price, positions, gone, faults>>

\* The tick ends where it is, and what its local list held is gone.
LoseTick ==
    /\ keeper' = Idle
    /\ gone' = gone \o keeper.closed
    /\ UNCHANGED <<today, price, positions, account, booked>>

\* insert_account_snapshot raises DataError; run_position_keeper logs it and
\* goes on with the next tick.
RefuseDates ==
    /\ AllBooked /\ RowIsDue
    /\ LoseTick
    /\ UNCHANGED faults

\* The database fails or the worker dies.
Fault ==
    /\ faults < MaxFaults
    /\ keeper.pc # "idle"
    /\ LoseTick
    /\ faults' = faults + 1

-----------------------------------------------------------------------------
(* What happens around it *)

\* PaperOrderService.insertPosition
Open(t) ==
    /\ Len(positions) < MaxPositions
    /\ positions' = Append(positions, [trade |-> t, status |-> "OPEN", reason |-> None,
                                       realized |-> 0, unrealized |-> 0])
    /\ UNCHANGED <<today, price, account, keeper, booked, gone, faults>>

\* The collector stores a price.
Quote(p) ==
    /\ price' = p
    /\ UNCHANGED <<today, positions, account, keeper, booked, gone, faults>>

NewDay ==
    /\ today < LastDay
    /\ today' = today + 1
    /\ UNCHANGED <<price, positions, account, keeper, booked, gone, faults>>

KeeperStep ==
    \/ StartTick
    \/ \E i \in Ids : Skip(i) \/ Mark(i) \/ Close(i)
    \/ ReadAccount
    \/ Book
    \/ EndTick \/ WriteAccount \/ RefuseDates

Next ==
    \/ KeeperStep
    \/ Fault
    \/ \E t \in Trades : Open(t)
    \/ \E p \in Prices : Quote(p)
    \/ NewDay

\* The event loop runs the keeper as long as the worker is up.
Spec == Init /\ [][Next]_vars /\ WF_vars(KeeperStep)

-----------------------------------------------------------------------------
(* Properties *)

Closed == {i \in Ids : positions[i].status = "CLOSED"}

\* The sum of each prefix of a sequence, as a function that can be reasoned about
\* one index at a time, and the sum of it all.
Sums(seq) == LET sum[n \in 0..Len(seq)] == IF n = 0 THEN 0 ELSE sum[n - 1] + seq[n] IN sum
Total(seq) == Sums(seq)[Len(seq)]

TotalRealized == Total([i \in Ids |-> IF i \in Closed THEN positions[i].realized ELSE 0])

TotalPending == Total(keeper.closed)

\* What a log of profits books on some days.
BookedOn(log, days) == Total([i \in DOMAIN log |-> IF log[i].day \in days THEN log[i].pnl ELSE 0])

DaysOf(week) == {day \in Nat : WeekOf(day) = week}

\* The losses since the last win.
LossStreak(log) == {i \in DOMAIN log : log[i].pnl < 0 /\ \A j \in i..Len(log) : log[j].pnl <= 0}

\* No realised profit or loss is counted twice, and none is lost but with the
\* list of a tick that fails: the equity of the newest snapshot, what the
\* running tick still holds and what failed ticks held add up to the seed and
\* all closed positions (tick and refresh_account_snapshot).
AccountIsBalanced ==
    account.equity + TotalPending + Total(gone) = Seed + TotalRealized

\* A snapshot against a log of profits.
AddsUp(a, log) ==
    /\ a.equity = Seed + BookedOn(log, Nat)
    /\ a.daily = BookedOn(log, {a.day})
    /\ a.weekly = BookedOn(log, DaysOf(a.week))
    /\ a.streak = Cardinality(LossStreak(log))

\* The newest snapshot sums up all that was ever booked: its equity all of it,
\* its daily and weekly figures what fell into its windows, its streak the
\* losses since the last win (refresh_account_snapshot, window resets of V003).
SnapshotAddsUp == AddsUp(account, booked)

\* A closed position lost at most the distance to its stop, however far the
\* price had run by the time the keeper looked, and it lost exactly when its
\* stop closed it (_evaluate, and the checks of validateAgentJson on the sides
\* of stop and targets).
LossIsPlanned ==
    \A i \in Closed :
        /\ positions[i].realized >= -Risk(positions[i].trade)
        /\ positions[i].realized < 0 <=> positions[i].reason = "STOP_LOSS"

\* The price is at or beyond the stop or one of the targets.
Through(t, mid) ==
    \/ t.direction = "LONG" /\ (mid <= t.stop \/ \E x \in t.targets : mid >= x)
    \/ t.direction = "SHORT" /\ (mid >= t.stop \/ \E x \in t.targets : mid <= x)

DueToClose(i) == /\ i \in OpenIds
                 /\ price # None
                 /\ Through(positions[i].trade, price)

\* A position does not stay open while the price stays at or through its stop
\* or a target (run_position_keeper polls every minute).
DueIsClosed == []<>(\A i \in Ids : ~DueToClose(i))

\* Between ticks the snapshot shows a loss streak that pauses trading once
\* every position closed so far was a loss and there are enough of them
\* (V004: the system pauses at 3 losses).
PausedAfterLosses ==
    /\ keeper.pc = "idle"
    /\ \A i \in Closed : positions[i].realized < 0
    /\ Cardinality(Closed) >= PauseAfter
    => account.streak >= PauseAfter
=============================================================================
