------------------------------- MODULE Review -------------------------------
(***************************************************************************)
(* The review worker (review.py): it looks back at each placed decision    *)
(* after 24 hours, 48 hours and 7 days, and writes down what the market    *)
(* has made of it.                                                         *)
(*                                                                         *)
(*   poll --due_review_tasks--> read --market_window--> write or skip      *)
(*     --> next task of the round                                          *)
(*                                                                         *)
(* and an exception goes to fail, where the task is marked FAILED.  All    *)
(* decisions are on one symbol.  An entry has one price: the schema lets   *)
(* no decision pass without one.                                           *)
(***************************************************************************)
EXTENDS Integers, Sequences, FiniteSets

CONSTANTS
    Decisions,      \* the decisions that may be placed
    Windows,        \* the windows, as the time until they are due: 24h, 48h, 7d
    Prices,         \* the prices of the symbol
    Plans,          \* what a decision may say: its side, entry, stop and nearest target
    Limit,          \* LIMIT of due_review_tasks
    WindowLimit,    \* LIMIT of market_window
    Rate,           \* snapshots the collector takes in a unit of time, at most
    MaxTime,        \* bound on the clock
    MaxQuotes,      \* bound on the market snapshots
    MaxFaults,      \* bound on the failures of the worker's database
    MaxRestarts,    \* bound on the restarts of the worker
    None            \* the absent value

ASSUME BoundsAssumption ==
    /\ Windows \subseteq Nat \ {0} /\ Prices \subseteq Nat \ {0}
    /\ Plans \subseteq [long : BOOLEAN, entry : Prices, stop : Prices, target : Prices]
    /\ Limit \in Nat \ {0} /\ WindowLimit \in Nat \ {0} /\ Rate \in Nat
    /\ MaxTime \in Nat /\ MaxQuotes \in Nat /\ MaxFaults \in Nat /\ MaxRestarts \in Nat

VARIABLES
    now,        \* the clock
    quotes,     \* market_snapshot: the prices in the order of created_at
    trades,     \* decision_log of the placed decisions, with created_at
    status,     \* review_task: the status of each
    results,    \* review_result: those of each task
    review,     \* the worker's loop
    faults,     \* failures so far
    restarts    \* restarts so far

tables == <<trades, status, results>>
vars == <<now, quotes, tables, review, faults, restarts>>

-----------------------------------------------------------------------------
(* Types *)

Task == Decisions \X Windows

Trade == [created : 0..MaxTime, plan : Plans]

Quote == [at : 0..MaxTime, price : Prices]

Result == [hit_tp : BOOLEAN, hit_sl : BOOLEAN, correct : BOOLEAN, checked : Nat]

Status == {"PENDING", "DONE", "SKIPPED", "FAILED"}

Worker == [pc : {"poll", "read", "skip", "write", "fail"}, todo : SUBSET Task,
           task : Task \cup {None}, result : Result \cup {None}]

Polling == [pc |-> "poll", todo |-> {}, task |-> None, result |-> None]

Placed == DOMAIN trades

Tasks == Placed \X Windows

TypeOK ==
    /\ now \in 0..MaxTime
    /\ quotes \in Seq(Quote) /\ Len(quotes) <= MaxQuotes
    /\ Placed \subseteq Decisions
    /\ trades \in [Placed -> Trade]
    /\ status \in [Tasks -> Status]
    /\ results \in [Tasks -> Seq(Result)]
    /\ review \in Worker
    /\ review.todo \subseteq Tasks
    /\ faults \in 0..MaxFaults
    /\ restarts \in 0..MaxRestarts

-----------------------------------------------------------------------------
(* The tasks that are due, and what a review makes of the market *)

DueAt(t) == trades[t[1]].created + t[2]

\* Mutant of Due: a task is taken a unit of time early.
DueEarly == {t \in Tasks : status[t] = "PENDING" /\ DueAt(t) <= now + 1}

Due == {t \in Tasks : status[t] = "PENDING" /\ DueAt(t) <= now}

Earlier(t, u) == DueAt(t) < DueAt(u)

\* Mutant of Oldest: the order is left out.
AnyDue ==
    {batch \in SUBSET Due :
        Cardinality(batch) = IF Cardinality(Due) < Limit THEN Cardinality(Due) ELSE Limit}

\* Any choice of the oldest, up to the limit: ORDER BY does not tell apart
\* tasks due at the same time.
Oldest ==
    {batch \in SUBSET Due :
        /\ Cardinality(batch) = IF Cardinality(Due) < Limit THEN Cardinality(Due) ELSE Limit
        /\ \A t \in batch, u \in Due \ batch : ~Earlier(u, t)}

\* market_window: the first snapshots since the decision, up to the limit.
Since(d) == {i \in DOMAIN quotes : quotes[i].at >= trades[d].created}
Window(d) == {i \in Since(d) : Cardinality({j \in Since(d) : j < i}) < WindowLimit}

\* What a position of the plan would have gained at a price; one that is not
\* long is read as a short, those to observe too.
Gain(plan, price) == IF plan.long THEN price - plan.entry ELSE plan.entry - price

Reaches(plan, price) == IF plan.long THEN price >= plan.target ELSE price <= plan.target
Stops(plan, price)   == IF plan.long THEN price <= plan.stop ELSE price >= plan.stop

Abs(n) == IF n < 0 THEN -n ELSE n

\* review_task's verdict on a decision, from the prices of its window: it was
\* right when the target was reached, or when the best gain was above 0.5% and
\* above the worst.
Verdict(d) ==
    LET plan   == trades[d].plan
        prices == {quotes[i].price : i \in Window(d)}
        gains  == {Gain(plan, price) : price \in prices}
        hit_tp == \E price \in prices : Reaches(plan, price)
    IN  [hit_tp  |-> hit_tp,
         hit_sl  |-> \E price \in prices : Stops(plan, price),
         correct |-> hit_tp \/ \E best, worst \in gains :
                        /\ \A gain \in gains : worst <= gain /\ gain <= best
                        /\ best > Abs(worst) /\ best * 200 > plan.entry,
         checked |-> Cardinality(Window(d))]

-----------------------------------------------------------------------------
(* Initial state: nothing placed, the worker about to poll *)

Init ==
    /\ now = 0
    /\ quotes = <<>>
    /\ trades = [d \in {} |-> {}]
    /\ status = [t \in {} |-> {}]
    /\ results = [t \in {} |-> {}]
    /\ review = Polling
    /\ faults = 0
    /\ restarts = 0

-----------------------------------------------------------------------------
(* The worker *)

\* Goes on with the earliest due of the tasks still to do.
Turn(todo) ==
    \/ todo = {} /\ review' = Polling
    \/ \E t \in todo :
         /\ \A u \in todo : ~Earlier(u, t)
         /\ review' = [pc |-> "read", todo |-> todo \ {t}, task |-> t, result |-> None]

Raise == review' = [review EXCEPT !.pc = "fail"]

\* A statement or transaction of the worker, which sets the tables by Effect:
\* it commits and the worker goes on, or the call fails, be it before or after
\* the commit.
Commit(Effect, GoOn, OnFailure) ==
    \/ Effect /\ GoOn /\ UNCHANGED faults
    \/ /\ faults < MaxFaults
       /\ faults' = faults + 1
       /\ Effect \/ UNCHANGED <<status, results>>
       /\ OnFailure

MarkTask(value) ==
    /\ status' = [status EXCEPT ![review.task] = value]
    /\ UNCHANGED results

NextTask == Turn(review.todo)

\* due_review_tasks; a query that fails, like one without a row, leaves the
\* worker to its sleep.
Poll ==
    /\ review.pc = "poll"
    /\ \E batch \in Oldest : Turn(batch)
    /\ UNCHANGED <<now, quotes, tables, faults, restarts>>

\* Mutant of Read: goes on without a price.
ReadUnchecked ==
    /\ review.pc = "read"
    /\ LET d == review.task[1] IN
        review' = [review EXCEPT !.pc = "write",
                                 !.result = IF Window(d) = {} THEN None ELSE Verdict(d)]
    /\ UNCHANGED <<now, quotes, tables, faults, restarts>>

\* market_window: without a price the task is skipped.
Read ==
    /\ review.pc = "read"
    /\ LET d == review.task[1] IN
        \/ /\ Window(d) = {}
           /\ review' = [review EXCEPT !.pc = "skip"]
        \/ /\ Window(d) # {}
           /\ review' = [review EXCEPT !.pc = "write", !.result = Verdict(d)]
    /\ UNCHANGED <<now, quotes, tables, faults, restarts>>

Skip ==
    /\ review.pc = "skip"
    /\ Commit(MarkTask("SKIPPED"), NextTask, Raise)
    /\ UNCHANGED <<now, quotes, trades, restarts>>

\* A query fails, or the insert, as with an embedding of another dimension
\* than the column.
ReviewFails ==
    /\ review.pc \in {"read", "write"}
    /\ Raise
    /\ UNCHANGED <<now, quotes, tables, faults, restarts>>

InsertResult == results' = [results EXCEPT ![review.task] = Append(@, review.result)]

\* Mutant of Write: the task is marked by a statement of its own, here one
\* that is lost whenever the call fails.
WriteThenMark ==
    /\ review.pc = "write"
    /\ InsertResult
    /\ \/ /\ status' = [status EXCEPT ![review.task] = "DONE"]
          /\ NextTask
          /\ UNCHANGED faults
       \/ /\ faults < MaxFaults
          /\ faults' = faults + 1
          /\ review' = Polling
          /\ UNCHANGED status
    /\ UNCHANGED <<now, quotes, trades, restarts>>

\* insert_review_bundle: the result, with the experience and the rule drawn
\* from it, and the task's status, in one transaction.
Write ==
    /\ review.pc = "write"
    /\ Commit(InsertResult /\ status' = [status EXCEPT ![review.task] = "DONE"], NextTask, Raise)
    /\ UNCHANGED <<now, quotes, trades, restarts>>

\* Mutant of FailTask: the failure is only logged.
FailUnmarked ==
    /\ review.pc = "fail"
    /\ NextTask
    /\ UNCHANGED <<now, quotes, tables, faults, restarts>>

\* Mutant of FailTask: the task is put back.
FailToPending ==
    /\ review.pc = "fail"
    /\ Commit(MarkTask("PENDING"), NextTask, review' = Polling)
    /\ UNCHANGED <<now, quotes, trades, restarts>>

\* run_review's handler; when it fails itself the worker ends, and is started
\* again.
FailTask ==
    /\ review.pc = "fail"
    /\ Commit(MarkTask("FAILED"), NextTask, review' = Polling)
    /\ UNCHANGED <<now, quotes, trades, restarts>>

Restart ==
    /\ restarts < MaxRestarts
    /\ review # Polling
    /\ review' = Polling
    /\ restarts' = restarts + 1
    /\ UNCHANGED <<now, quotes, tables, faults>>

-----------------------------------------------------------------------------
(* The order service, the collector and the clock *)

\* A decision is placed, with a task for each window (createReviewTasks).  The
\* time from the decision to the order is short against the windows.
Place(d, plan) ==
    LET new == {d} \X Windows IN
    /\ d \notin Placed
    /\ trades' = [e \in Placed \cup {d} |->
                     IF e = d THEN [created |-> now, plan |-> plan] ELSE trades[e]]
    /\ status' = [t \in Tasks \cup new |-> IF t \in Tasks THEN status[t] ELSE "PENDING"]
    /\ results' = [t \in Tasks \cup new |-> IF t \in Tasks THEN results[t] ELSE <<>>]
    /\ UNCHANGED <<now, quotes, review, faults, restarts>>

\* insert_market_snapshot
Collect(price) ==
    /\ Len(quotes) < MaxQuotes
    /\ Cardinality({i \in DOMAIN quotes : quotes[i].at = now}) < Rate
    /\ quotes' = Append(quotes, [at |-> now, price |-> price])
    /\ UNCHANGED <<now, tables, review, faults, restarts>>

Tick ==
    /\ now < MaxTime
    /\ now' = now + 1
    /\ UNCHANGED <<quotes, tables, review, faults, restarts>>

ReviewStep == Poll \/ Read \/ Skip \/ ReviewFails \/ Write \/ FailTask

Next ==
    \/ ReviewStep
    \/ Restart
    \/ \E d \in Decisions, plan \in Plans : Place(d, plan)
    \/ \E price \in Prices : Collect(price)
    \/ Tick

\* The event loop runs the worker.
Spec == Init /\ [][Next]_vars /\ WF_vars(ReviewStep)

-----------------------------------------------------------------------------
(* Properties *)

\* A task is reviewed once at most, whatever fails or restarts: no experience
\* is remembered twice (insert_review_bundle marks it in the transaction).
OneResultPerTask == \A t \in Tasks : Len(results[t]) <= 1

\* What is marked DONE has its result, and a result is never behind a task that
\* would be reviewed again or was skipped.
DoneHasResult ==
    \A t \in Tasks :
        /\ status[t] = "DONE" => results[t] # <<>>
        /\ results[t] # <<>> => status[t] \in {"DONE", "FAILED"}

\* One result has seen less than another.
Below(r, s) ==
    /\ r.hit_tp => s.hit_tp
    /\ r.hit_sl => s.hit_sl
    /\ r.checked <= s.checked

\* A later window of a decision has seen all an earlier one has: a target or a
\* stop once hit stays hit (due_review_tasks takes the windows in their order).
LaterWindowAgrees ==
    \A d \in Placed, w, x \in Windows :
        w < x => \A i \in DOMAIN results[<<d, w>>], j \in DOMAIN results[<<d, x>>] :
                     Below(results[<<d, w>>][i], results[<<d, x>>][j])

\* A review has seen every price of its window (deployment.md: at 24, 48 and
\* 168 hours the worker computes the excursions).
WindowIsSeen ==
    \A t \in Tasks : \A i \in DOMAIN results[t] :
        results[t][i].checked >= Cardinality({j \in Since(t[1]) : quotes[j].at < DueAt(t)})

\* A review of a window that the LIMIT covers at the collector's rate, of 24 or
\* 48 hours, has seen every price of it: no failed task before it, restart or
\* round full of others makes it miss one (due_review_tasks, market_window).
ShortWindowIsSeen ==
    \A t \in Tasks : Rate * t[2] <= WindowLimit =>
        \A i \in DOMAIN results[t] :
            results[t][i].checked >= Cardinality({j \in Since(t[1]) : quotes[j].at < DueAt(t)})

\* A task that is due is looked at and leaves PENDING, although others fail
\* (run_review marks them).
DueIsReviewed ==
    \A t \in Decisions \X Windows :
        (t \in Tasks /\ t \in Due) ~> (t \in Tasks /\ status[t] # "PENDING")
=============================================================================
