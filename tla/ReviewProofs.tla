---------------------------- MODULE ReviewProofs ----------------------------
(***************************************************************************)
(* Proofs about the review worker: whatever fails or restarts, a task gets *)
(* one result at most, and what is marked DONE has it.  They rest on what  *)
(* the worker's loop knows: the task in hand, and those of the round still *)
(* to do, are PENDING until it marks them itself.                          *)
(* Later windows do not contradict earlier ones, and a review has seen all *)
(* of its window whenever the window fits the LIMIT of market_window, as   *)
(* the short ones do.                                                      *)
(***************************************************************************)
EXTENDS Review, SequenceTheorems, FiniteSetTheorems, WellFoundedInduction, TLAPS

USE BoundsAssumption

-----------------------------------------------------------------------------
(* The inductive invariant *)

TablesType ==
    /\ now \in 0..MaxTime
    /\ quotes \in Seq(Quote) /\ Len(quotes) <= MaxQuotes
    /\ Placed \subseteq Decisions
    /\ trades \in [Placed -> Trade]
    /\ status \in [Tasks -> Status]
    /\ results \in [Tasks -> Seq(Result)]
    /\ faults \in 0..MaxFaults
    /\ restarts \in 0..MaxRestarts

\* The task in hand is not among those still to do, and both are PENDING.
InHand ==
    /\ review \in Worker
    /\ review.todo \subseteq Tasks
    /\ review.pc # "poll" => review.task \in Tasks \ review.todo
    /\ review.pc \in {"read", "skip", "write"} => status[review.task] = "PENDING"
    /\ review.pc = "write" => review.result \in Result
    /\ \A t \in review.todo : status[t] = "PENDING"

IndInv == TablesType /\ InHand /\ OneResultPerTask /\ DoneHasResult

-----------------------------------------------------------------------------
(* Lemmas *)

\* The next task of a round is taken up while it is PENDING.
LEMMA TurnKeepsHand ==
    ASSUME NEW todo \in SUBSET Tasks', Turn(todo), Tasks' \subseteq Task,
           \A t \in todo : status'[t] = "PENDING"
    PROVE  InHand'
<1>1. CASE review' = Polling
  <2>1. /\ review'.pc = "poll" /\ review'.todo = {} /\ review' \in Worker
    BY <1>1 DEF Polling, Worker
  <2>2. QED
    BY <2>1 DEF InHand
<1>2. CASE review' # Polling
  <2>1. PICK t \in todo : review' = [pc |-> "read", todo |-> todo \ {t}, task |-> t, result |-> None]
    BY <1>2 DEF Turn
  <2>2. /\ review'.pc = "read" /\ review'.todo = todo \ {t} /\ review'.task = t
        /\ review' \in Worker
    BY <2>1 DEF Worker
  <2>3. QED
    BY <2>2 DEF InHand
<1>3. QED
  BY <1>1, <1>2

\* After an exception the worker knows only which task it has in hand.
LEMMA RaiseKeepsHand ==
    ASSUME InHand, review.pc # "poll", Raise, Tasks' = Tasks,
           \A t \in review.todo : status'[t] = "PENDING"
    PROVE  InHand'
<1>1. /\ review' = [review EXCEPT !.pc = "fail"]
      /\ review \in Worker /\ review.todo \subseteq Tasks /\ review.task \in Tasks \ review.todo
  BY DEF InHand, Raise
<1>2. /\ review'.pc = "fail" /\ review'.todo = review.todo /\ review'.task = review.task
      /\ review' \in Worker
  BY <1>1 DEF Worker
<1>3. QED
  BY <1>1, <1>2 DEF InHand

LEMMA TasksAreTasks == ASSUME TablesType PROVE Tasks \subseteq Task
BY DEF TablesType, Tasks, Task

\* A verdict is a result, whatever the window.
LEMMA VerdictIsResult ==
    ASSUME TablesType, NEW d PROVE Verdict(d) \in Result
<1>1. /\ Len(quotes) \in Nat /\ DOMAIN quotes = 1..Len(quotes)
  BY LenProperties DEF TablesType
<1>2. IsFiniteSet(1..Len(quotes))
  BY <1>1, FS_Interval
<1>3. Window(d) \subseteq 1..Len(quotes)
  BY <1>1 DEF Window, Since
<1>4. Cardinality(Window(d)) \in Nat
  BY <1>2, <1>3, FS_Subset, FS_CardinalityType
<1>5. QED
  BY <1>4 DEF Verdict, Result

\* Marking the task in hand changes no other, and keeps what is known of the
\* results when DONE is left alone or the task never had it.
LEMMA MarkKeeps ==
    ASSUME IndInv, review.pc \in {"skip", "fail"},
           NEW value \in {"SKIPPED", "FAILED"}, value = "SKIPPED" => review.pc = "skip",
           MarkTask(value) \/ UNCHANGED <<status, results>>,
           faults' \in 0..MaxFaults, UNCHANGED <<now, quotes, trades, restarts>>
    PROVE  /\ TablesType' /\ OneResultPerTask' /\ DoneHasResult'
           /\ Tasks' = Tasks
           /\ \A t \in review.todo : status'[t] = "PENDING"
<1>1. /\ review.task \in Tasks /\ review.task \notin review.todo
      /\ \A t \in review.todo : status[t] = "PENDING" /\ t \in Tasks
      /\ review.pc = "skip" => status[review.task] = "PENDING"
      /\ TablesType /\ OneResultPerTask /\ DoneHasResult
  BY DEF IndInv, InHand
<1>2. Tasks' = Tasks /\ Placed' = Placed
  BY DEF Tasks, Placed
<1>3. CASE UNCHANGED <<status, results>>
  BY <1>1, <1>2, <1>3 DEF TablesType, OneResultPerTask, DoneHasResult
<1>4. CASE MarkTask(value)
  <2>1. /\ status \in [Tasks -> Status]
        /\ status' = [status EXCEPT ![review.task] = value] /\ results' = results
    BY <1>1, <1>4 DEF MarkTask, TablesType
  <2>2. /\ status' \in [Tasks -> Status] /\ status'[review.task] = value
        /\ \A t \in Tasks \ {review.task} : status'[t] = status[t]
    BY <1>1, <2>1 DEF Status
  <2>3. TablesType'
    BY <1>1, <1>2, <2>1, <2>2 DEF TablesType
  <2>4. OneResultPerTask'
    BY <1>1, <1>2, <2>1 DEF OneResultPerTask
  <2>5. DoneHasResult'
    BY <1>1, <1>2, <2>1, <2>2 DEF DoneHasResult
  <2>6. QED
    BY <1>1, <1>2, <2>2, <2>3, <2>4, <2>5
<1>5. QED
  BY <1>3, <1>4

-----------------------------------------------------------------------------
(* The worker's steps *)

LEMMA InitHolds == Init => IndInv
<1> SUFFICES ASSUME Init PROVE IndInv
  OBVIOUS
<1>1. Placed = {} /\ Tasks = {}
  BY DEF Init, Placed, Tasks
<1>2. review.pc = "poll" /\ review.todo = {} /\ review \in Worker
  BY DEF Init, Polling, Worker
<1>3. quotes \in Seq(Quote) /\ Len(quotes) = 0
  BY DEF Init
<1>4. TablesType
  BY <1>1, <1>3 DEF Init, TablesType
<1>5. InHand
  BY <1>2 DEF InHand
<1>6. QED
  BY <1>1, <1>4, <1>5 DEF IndInv, OneResultPerTask, DoneHasResult

\* What is known of the tables holds while they stay.
LEMMA TablesStay ==
    ASSUME IndInv, UNCHANGED <<now, quotes, tables, restarts>>, faults' \in 0..MaxFaults
    PROVE  /\ TablesType' /\ OneResultPerTask' /\ DoneHasResult'
           /\ Tasks' = Tasks /\ status' = status
BY DEF IndInv, TablesType, OneResultPerTask, DoneHasResult, Tasks, Placed, tables

LEMMA PollKeepsInv == IndInv /\ Poll => IndInv'
<1> SUFFICES ASSUME IndInv, Poll PROVE IndInv'
  OBVIOUS
<1>1. /\ TablesType' /\ OneResultPerTask' /\ DoneHasResult' /\ Tasks' = Tasks /\ status' = status
  BY TablesStay DEF IndInv, TablesType, Poll
<1>2. PICK batch \in Oldest : Turn(batch)
  BY DEF Poll
<1>3. batch \in SUBSET Tasks /\ \A t \in batch : status[t] = "PENDING"
  BY <1>2 DEF Oldest, Due
<1>4. InHand'
  BY <1>1, <1>2, <1>3, TurnKeepsHand, TasksAreTasks DEF IndInv
<1>5. QED
  BY <1>1, <1>4 DEF IndInv

LEMMA ReadKeepsInv == IndInv /\ Read => IndInv'
<1> SUFFICES ASSUME IndInv, Read PROVE IndInv'
  OBVIOUS
<1>1. /\ TablesType' /\ OneResultPerTask' /\ DoneHasResult' /\ Tasks' = Tasks /\ status' = status
  BY TablesStay DEF IndInv, TablesType, Read
<1>2. /\ review \in Worker /\ review.pc = "read" /\ review.todo \subseteq Tasks
      /\ review.task \in Tasks \ review.todo /\ status[review.task] = "PENDING"
      /\ \A t \in review.todo : status[t] = "PENDING"
  BY DEF IndInv, InHand, Read
<1> DEFINE verdict == Verdict(review.task[1])
<1>3. verdict \in Result
  BY VerdictIsResult DEF IndInv
<1>4. \/ review' = [review EXCEPT !.pc = "skip"]
      \/ review' = [review EXCEPT !.pc = "write", !.result = verdict]
  BY DEF Read
<1> HIDE DEF verdict
<1>5. /\ review' \in Worker /\ review'.todo = review.todo /\ review'.task = review.task
      /\ review'.pc = "skip" \/ (review'.pc = "write" /\ review'.result = verdict)
  <2>1. review \in Worker
    BY <1>2
  <2>2. CASE review' = [review EXCEPT !.pc = "skip"]
    BY <2>1, <2>2 DEF Worker
  <2>3. CASE review' = [review EXCEPT !.pc = "write", !.result = verdict]
    BY <1>3, <2>1, <2>3 DEF Worker
  <2>4. QED
    BY <1>4, <2>2, <2>3
<1>6. InHand'
  BY <1>1, <1>2, <1>3, <1>5 DEF InHand
<1>7. QED
  BY <1>1, <1>6 DEF IndInv

LEMMA SkipKeepsInv == IndInv /\ Skip => IndInv'
<1> SUFFICES ASSUME IndInv, Skip PROVE IndInv'
  OBVIOUS
<1>1. /\ review.pc = "skip" /\ review.todo \subseteq Tasks
      /\ MarkTask("SKIPPED") \/ UNCHANGED <<status, results>>
      /\ faults' \in 0..MaxFaults /\ UNCHANGED <<now, quotes, trades, restarts>>
      /\ NextTask \/ Raise
  BY DEF IndInv, InHand, TablesType, Skip, Commit
<1>2. /\ TablesType' /\ OneResultPerTask' /\ DoneHasResult' /\ Tasks' = Tasks
      /\ \A t \in review.todo : status'[t] = "PENDING"
  BY <1>1, MarkKeeps
<1>3. InHand'
  BY <1>1, <1>2, TurnKeepsHand, RaiseKeepsHand, TasksAreTasks DEF IndInv, NextTask
<1>4. QED
  BY <1>2, <1>3 DEF IndInv

LEMMA ReviewFailsKeepsInv == IndInv /\ ReviewFails => IndInv'
<1> SUFFICES ASSUME IndInv, ReviewFails PROVE IndInv'
  OBVIOUS
<1>1. /\ TablesType' /\ OneResultPerTask' /\ DoneHasResult' /\ Tasks' = Tasks /\ status' = status
  BY TablesStay DEF IndInv, TablesType, ReviewFails
<1>2. InHand'
  BY <1>1, RaiseKeepsHand DEF IndInv, InHand, ReviewFails
<1>3. QED
  BY <1>1, <1>2 DEF IndInv

\* The first result of a task comes with its DONE.
LEMMA WriteKeepsInv == IndInv /\ Write => IndInv'
<1> SUFFICES ASSUME IndInv, Write PROVE IndInv'
  OBVIOUS
<1>1. /\ review.pc = "write" /\ review.todo \subseteq Tasks /\ review.task \in Tasks \ review.todo
      /\ status[review.task] = "PENDING" /\ review.result \in Result
      /\ \A t \in review.todo : status[t] = "PENDING"
      /\ TablesType /\ OneResultPerTask /\ DoneHasResult
      /\ faults' \in 0..MaxFaults /\ UNCHANGED <<now, quotes, trades, restarts>>
      /\ NextTask \/ Raise
  BY DEF IndInv, InHand, TablesType, Write, Commit
<1>2. Tasks' = Tasks /\ Placed' = Placed
  BY <1>1 DEF Tasks, Placed
<1>3. CASE UNCHANGED <<status, results>>
  <2>1. TablesType' /\ OneResultPerTask' /\ DoneHasResult'
    BY <1>1, <1>2, <1>3 DEF TablesType, OneResultPerTask, DoneHasResult
  <2>2. InHand'
    BY <1>1, <1>2, <1>3, TurnKeepsHand, RaiseKeepsHand, TasksAreTasks DEF IndInv, NextTask
  <2>3. QED
    BY <2>1, <2>2 DEF IndInv
<1>4. CASE InsertResult /\ status' = [status EXCEPT ![review.task] = "DONE"]
  <2>1. /\ status \in [Tasks -> Status] /\ results \in [Tasks -> Seq(Result)]
        /\ results' = [results EXCEPT ![review.task] = Append(@, review.result)]
        /\ results[review.task] = <<>>
    BY <1>1, <1>4 DEF InsertResult, TablesType, DoneHasResult
  <2>2. /\ Append(<<>>, review.result) \in Seq(Result)
        /\ Len(Append(<<>>, review.result)) = 1 /\ Append(<<>>, review.result) # <<>>
    BY <1>1
  <2>3. /\ status' \in [Tasks -> Status] /\ status'[review.task] = "DONE"
        /\ \A t \in Tasks \ {review.task} : status'[t] = status[t]
    BY <1>1, <1>4, <2>1 DEF Status
  <2>4. /\ results' \in [Tasks -> Seq(Result)]
        /\ results'[review.task] = Append(<<>>, review.result)
        /\ \A t \in Tasks \ {review.task} : results'[t] = results[t]
    BY <1>1, <2>1, <2>2
  <2>5. TablesType'
    BY <1>1, <1>2, <2>3, <2>4 DEF TablesType
  <2>6. OneResultPerTask'
    <3>1. \A t \in Tasks : Len(results'[t]) <= 1
      <4> SUFFICES ASSUME NEW t \in Tasks PROVE Len(results'[t]) <= 1
        OBVIOUS
      <4>1. CASE t = review.task
        <5>1. Len(results'[t]) = 1
          BY <2>2, <2>4, <4>1
        <5>2. QED
          BY <5>1
      <4>2. CASE t # review.task
        BY <1>1, <2>4, <4>2 DEF OneResultPerTask
      <4>3. QED
        BY <4>1, <4>2
    <3>2. QED
      BY <1>2, <3>1 DEF OneResultPerTask
  <2>7. DoneHasResult'
    BY <1>1, <1>2, <2>2, <2>3, <2>4 DEF DoneHasResult
  <2>8. \A t \in review.todo : status'[t] = "PENDING"
    BY <1>1, <2>3
  <2>9. InHand'
    BY <1>1, <1>2, <2>8, TurnKeepsHand, RaiseKeepsHand, TasksAreTasks DEF IndInv, NextTask
  <2>10. QED
    BY <2>5, <2>6, <2>7, <2>9 DEF IndInv
<1>5. QED
  BY <1>3, <1>4 DEF Write, Commit

LEMMA FailTaskKeepsInv == IndInv /\ FailTask => IndInv'
<1> SUFFICES ASSUME IndInv, FailTask PROVE IndInv'
  OBVIOUS
<1>1. /\ review.pc = "fail" /\ review.todo \subseteq Tasks
      /\ MarkTask("FAILED") \/ UNCHANGED <<status, results>>
      /\ faults' \in 0..MaxFaults /\ UNCHANGED <<now, quotes, trades, restarts>>
      /\ NextTask \/ review' = Polling
  BY DEF IndInv, InHand, TablesType, FailTask, Commit
<1>2. /\ TablesType' /\ OneResultPerTask' /\ DoneHasResult' /\ Tasks' = Tasks
      /\ \A t \in review.todo : status'[t] = "PENDING"
  BY <1>1, MarkKeeps
<1>3. Turn(review.todo) \/ Turn({})
  BY <1>1 DEF NextTask, Turn
<1>4. InHand'
  BY <1>1, <1>2, <1>3, TurnKeepsHand, TasksAreTasks DEF IndInv
<1>5. QED
  BY <1>2, <1>4 DEF IndInv

LEMMA RestartKeepsInv == IndInv /\ Restart => IndInv'
<1> SUFFICES ASSUME IndInv, Restart PROVE IndInv'
  OBVIOUS
<1>1. /\ TablesType' /\ OneResultPerTask' /\ DoneHasResult'
  BY DEF IndInv, TablesType, OneResultPerTask, DoneHasResult, Tasks, Placed, tables, Restart
<1>2. review'.pc = "poll" /\ review'.todo = {} /\ review' \in Worker
  BY DEF Restart, Polling, Worker
<1>3. QED
  BY <1>1, <1>2 DEF IndInv, InHand

-----------------------------------------------------------------------------
(* The others' steps *)

\* A decision placed brings tasks of its own and leaves the others alone.
LEMMA PlaceKeepsInv ==
    ASSUME NEW d \in Decisions, NEW plan \in Plans, IndInv, Place(d, plan) PROVE IndInv'
<1> DEFINE trade == [created |-> now, plan |-> plan]
<1>1. trade \in Trade
  BY DEF IndInv, TablesType, Trade
<1>2. /\ d \notin Placed
      /\ trades' = [e \in Placed \cup {d} |-> IF e = d THEN trade ELSE trades[e]]
      /\ status' = [t \in Tasks \cup ({d} \X Windows) |-> IF t \in Tasks THEN status[t] ELSE "PENDING"]
      /\ results' = [t \in Tasks \cup ({d} \X Windows) |-> IF t \in Tasks THEN results[t] ELSE <<>>]
      /\ UNCHANGED <<now, quotes, review, faults, restarts>>
  BY DEF Place
<1> HIDE DEF trade
<1>3. Placed' = Placed \cup {d}
  BY <1>2 DEF Placed
<1>4. Tasks' = Tasks \cup ({d} \X Windows)
  BY <1>3 DEF Tasks
<1>5. /\ \A t \in Tasks : status'[t] = status[t] /\ results'[t] = results[t]
      /\ \A t \in Tasks' \ Tasks : status'[t] = "PENDING" /\ results'[t] = <<>>
  BY <1>2, <1>4
<1>6. TablesType /\ InHand /\ OneResultPerTask /\ DoneHasResult
  BY DEF IndInv
<1>7. TablesType'
  <2>1. trades' \in [Placed' -> Trade] /\ Placed' \subseteq Decisions
    BY <1>1, <1>2, <1>3, <1>6 DEF TablesType
  <2>2. status' \in [Tasks' -> Status]
    BY <1>2, <1>4, <1>6 DEF TablesType, Status
  <2>3. results' \in [Tasks' -> Seq(Result)]
    BY <1>2, <1>4, <1>6 DEF TablesType
  <2>4. QED
    BY <1>2, <1>6, <2>1, <2>2, <2>3 DEF TablesType
<1>8. InHand'
  BY <1>2, <1>4, <1>5, <1>6 DEF InHand
<1>9. OneResultPerTask'
  BY <1>5, <1>6 DEF OneResultPerTask
<1>10. DoneHasResult'
  BY <1>5, <1>6 DEF DoneHasResult
<1>11. QED
  BY <1>7, <1>8, <1>9, <1>10 DEF IndInv

LEMMA CollectKeepsInv ==
    ASSUME NEW price \in Prices, IndInv, Collect(price) PROVE IndInv'
<1>1. [at |-> now, price |-> price] \in Quote
  BY DEF IndInv, TablesType, Quote
<1>2. quotes' \in Seq(Quote) /\ Len(quotes') <= MaxQuotes
  <2>1. quotes \in Seq(Quote) /\ Len(quotes) < MaxQuotes
    BY DEF IndInv, TablesType, Collect
  <2>2. quotes' \in Seq(Quote) /\ Len(quotes') = Len(quotes) + 1
    BY <1>1, <2>1, AppendProperties DEF Collect
  <2>3. QED
    BY <2>1, <2>2, LenProperties
<1>3. UNCHANGED <<now, trades, status, results, review, faults, restarts>>
  BY DEF Collect, tables
<1>4. QED
  BY <1>2, <1>3 DEF IndInv, TablesType, InHand, OneResultPerTask, DoneHasResult, Tasks, Placed

LEMMA TickKeepsInv == IndInv /\ Tick => IndInv'
<1> SUFFICES ASSUME IndInv, Tick PROVE IndInv'
  OBVIOUS
<1>1. now' \in 0..MaxTime
  BY DEF IndInv, TablesType, Tick
<1>2. UNCHANGED <<quotes, trades, status, results, review, faults, restarts>>
  BY DEF Tick, tables
<1>3. QED
  BY <1>1, <1>2 DEF IndInv, TablesType, InHand, OneResultPerTask, DoneHasResult, Tasks, Placed

LEMMA StepKeepsInv == IndInv /\ [Next]_vars => IndInv'
<1> SUFFICES ASSUME IndInv, [Next]_vars PROVE IndInv'
  OBVIOUS
<1>1. CASE ReviewStep
  BY <1>1, PollKeepsInv, ReadKeepsInv, SkipKeepsInv, ReviewFailsKeepsInv, WriteKeepsInv,
     FailTaskKeepsInv DEF ReviewStep
<1>2. CASE UNCHANGED vars
  BY <1>2 DEF vars, tables, IndInv, TablesType, InHand, OneResultPerTask, DoneHasResult, Tasks, Placed
<1>3. QED
  BY <1>1, <1>2, RestartKeepsInv, PlaceKeepsInv, CollectKeepsInv, TickKeepsInv DEF Next

LEMMA Inductive == Spec => []IndInv
<1>1. QED
  BY InitHolds, StepKeepsInv, PTL DEF Spec

-----------------------------------------------------------------------------
(* The theorems *)

\* Every reachable state of the review worker is well typed.
THEOREM TypeCorrect == Spec => []TypeOK
<1>1. IndInv => TypeOK
  BY DEF IndInv, TablesType, InHand, TypeOK
<1>2. QED
  BY <1>1, Inductive, PTL

\* However many reviews fail and however often the worker restarts, no task
\* gets a second result (insert_review_bundle marks it with the first).
THEOREM ReviewedOnce == Spec => []OneResultPerTask
<1>1. IndInv => OneResultPerTask
  BY DEF IndInv
<1>2. QED
  BY <1>1, Inductive, PTL

\* A task marked DONE has its result, and no result is behind a task that is
\* still to be reviewed.
THEOREM DoneIsReviewed == Spec => []DoneHasResult
<1>1. IndInv => DoneHasResult
  BY DEF IndInv
<1>2. QED
  BY <1>1, Inductive, PTL

-----------------------------------------------------------------------------
(***************************************************************************)
(* The windows agree.  The worker takes up the windows of a decision in    *)
(* their order, so that a later one is judged by at least the prices of an *)
(* earlier one.                                                            *)
(***************************************************************************)

InHandIs(t) == review.pc # "poll" /\ review.task = t

\* While a window of a decision is PENDING, no later one was reviewed or is in
\* hand, nor is one next in the round without it.
InOrder ==
    \A d \in Placed, w, x \in Windows :
        w < x /\ status[<<d, w>>] = "PENDING" =>
            /\ results[<<d, x>>] = <<>>
            /\ ~InHandIs(<<d, x>>)
            /\ <<d, x>> \in review.todo => <<d, w>> \in review.todo \/ InHandIs(<<d, w>>)

\* No result says more than the market has shown by now.
Seen ==
    /\ \A t \in Tasks : \A i \in DOMAIN results[t] : Below(results[t][i], Verdict(t[1]))
    /\ review.pc = "write" => Below(review.result, Verdict(review.task[1]))

\* The result in hand says no less than those of the earlier windows.
InHandAgrees ==
    review.pc = "write" =>
        \A w \in Windows : w < review.task[2] =>
            \A i \in DOMAIN results[<<review.task[1], w>>] :
                Below(results[<<review.task[1], w>>][i], review.result)

OrderInv == IndInv /\ InOrder /\ Seen /\ InHandAgrees /\ LaterWindowAgrees

\* The order of two windows of a decision is that of their due times.
LEMMA WindowsInOrder ==
    ASSUME TablesType, NEW d \in Placed, NEW w \in Windows, NEW x \in Windows, w < x
    PROVE  /\ Earlier(<<d, w>>, <<d, x>>)
           /\ DueAt(<<d, x>>) <= now => DueAt(<<d, w>>) <= now
<1>1. trades[d] \in Trade
  BY DEF TablesType
<1>2. trades[d].created \in Nat
  BY <1>1 DEF Trade
<1>3. /\ w \in Nat /\ x \in Nat /\ now \in Nat
      /\ DueAt(<<d, w>>) = trades[d].created + w
      /\ DueAt(<<d, x>>) = trades[d].created + x
  BY DEF TablesType, DueAt
<1>4. QED
  BY <1>2, <1>3 DEF Earlier

\* The window of a decision only grows, and so do the verdicts.
LEMMA VerdictGrows ==
    ASSUME TablesType, NEW d, NEW quote \in Quote,
           trades' = trades, quotes' = quotes \/ quotes' = Append(quotes, quote)
    PROVE  Below(Verdict(d), Verdict(d)')
<1>1. /\ quotes \in Seq(Quote) /\ Len(quotes) \in Nat /\ DOMAIN quotes = 1..Len(quotes)
  BY LenProperties DEF TablesType
<1>2. /\ Len(quotes') \in Nat /\ DOMAIN quotes' = 1..Len(quotes')
      /\ DOMAIN quotes \subseteq DOMAIN quotes'
      /\ \A i \in DOMAIN quotes : quotes'[i] = quotes[i]
      /\ \A i \in DOMAIN quotes' \ DOMAIN quotes, j \in DOMAIN quotes : ~(i < j)
  <2>1. CASE quotes' = quotes
    BY <1>1, <2>1
  <2>2. CASE quotes' = Append(quotes, quote)
    <3>1. /\ quotes' \in Seq(Quote) /\ Len(quotes') = Len(quotes) + 1
          /\ \A i \in 1..Len(quotes) : quotes'[i] = quotes[i]
      BY <1>1, <2>2, AppendProperties
    <3>2. DOMAIN quotes' = 1..Len(quotes')
      BY <3>1, LenProperties
    <3>3. QED
      BY <1>1, <3>1, <3>2
  <2>3. QED
    BY <2>1, <2>2
<1>3. /\ Since(d) \subseteq Since(d)' /\ Since(d) \subseteq DOMAIN quotes
      /\ Since(d)' \ Since(d) \subseteq DOMAIN quotes' \ DOMAIN quotes
  BY <1>2 DEF Since
<1>4. \A i \in Since(d) : {j \in Since(d)' : j < i} = {j \in Since(d) : j < i}
  BY <1>2, <1>3
<1>5. Window(d) \subseteq Window(d)' /\ Window(d)' \subseteq DOMAIN quotes'
      /\ Window(d) \subseteq DOMAIN quotes
  BY <1>3, <1>4 DEF Window, Since
<1>6. /\ Cardinality(Window(d)) \in Nat /\ Cardinality(Window(d)') \in Nat
      /\ Cardinality(Window(d)) <= Cardinality(Window(d)')
  <2> PICK n \in Nat : n = Len(quotes')
    BY <1>2
  <2>1. IsFiniteSet(1..n) /\ DOMAIN quotes' = 1..n
    BY <1>2, FS_Interval
  <2>2. IsFiniteSet(Window(d)')
    BY <1>5, <2>1, FS_Subset
  <2>3. QED
    BY <1>5, <2>2, FS_Subset, FS_CardinalityType
<1>7. \A i \in Window(d) : i \in Window(d)' /\ quotes'[i] = quotes[i]
  BY <1>2, <1>5
<1>8. Verdict(d).hit_tp => Verdict(d)'.hit_tp
  BY <1>7 DEF Verdict
<1>9. Verdict(d).hit_sl => Verdict(d)'.hit_sl
  BY <1>7 DEF Verdict
<1>10. /\ Verdict(d).checked = Cardinality(Window(d))
       /\ Verdict(d)'.checked = Cardinality(Window(d)')
  BY DEF Verdict
<1>11. QED
  BY <1>6, <1>8, <1>9, <1>10 DEF Below

LEMMA BelowIsTransitive ==
    ASSUME NEW r \in Result, NEW s \in Result, NEW t \in Result, Below(r, s), Below(s, t)
    PROVE  Below(r, t)
<1>1. r.checked \in Nat /\ s.checked \in Nat /\ t.checked \in Nat
  BY DEF Result
<1>2. QED
  BY <1>1 DEF Below

-----------------------------------------------------------------------------
(* The loop takes the windows in order *)

\* The next task of a round that has, with a window, all earlier PENDING ones
\* is the earliest PENDING one of its decision.
LEMMA TurnInOrder ==
    ASSUME NEW todo \in SUBSET Tasks, Turn(todo), TablesType,
           UNCHANGED trades,
           \A d \in Placed, w, x \in Windows :
               w < x /\ status'[<<d, w>>] = "PENDING" =>
                   /\ results'[<<d, x>>] = <<>>
                   /\ <<d, x>> \in todo => <<d, w>> \in todo
    PROVE  InOrder' /\ review'.pc # "write"
<1>1. Placed' = Placed
  BY DEF Placed
<1>2. CASE review' = Polling
  <2>1. review'.pc = "poll" /\ review'.todo = {}
    BY <1>2 DEF Polling
  <2>2. QED
    BY <1>1, <2>1 DEF InOrder, InHandIs
<1>3. CASE review' # Polling
  <2>1. PICK t \in todo :
            /\ \A u \in todo : ~Earlier(u, t)
            /\ review' = [pc |-> "read", todo |-> todo \ {t}, task |-> t, result |-> None]
    BY <1>3 DEF Turn
  <2>2. review'.pc = "read" /\ review'.todo = todo \ {t} /\ review'.task = t
    BY <2>1
  <2>3. ASSUME NEW d \in Placed, NEW w \in Windows, NEW x \in Windows,
               w < x, status'[<<d, w>>] = "PENDING"
        PROVE  /\ results'[<<d, x>>] = <<>>
               /\ ~(review'.pc # "poll" /\ review'.task = <<d, x>>)
               /\ <<d, x>> \in review'.todo =>
                     <<d, w>> \in review'.todo \/ (review'.pc # "poll" /\ review'.task = <<d, w>>)
    <3>1. results'[<<d, x>>] = <<>> /\ (<<d, x>> \in todo => <<d, w>> \in todo)
      BY <2>3
    <3>2. Earlier(<<d, w>>, <<d, x>>)
      BY <2>3, WindowsInOrder
    <3>3. <<d, x>> # t
      BY <2>1, <3>1, <3>2
    <3>4. QED
      BY <2>2, <3>1, <3>3
  <2>4. QED
    BY <1>1, <2>2, <2>3 DEF InOrder, InHandIs
<1>4. QED
  BY <1>2, <1>3

\* A task keeps its place while it is in hand and the tables' PENDING shrink.
LEMMA HandKeepsOrder ==
    ASSUME IndInv, InOrder, UNCHANGED trades,
           \A t \in Tasks \ {review.task} : results'[t] = results[t],
           \A t \in Tasks : status'[t] = "PENDING" => status[t] = "PENDING",
           review.pc # "poll", review'.pc # "poll",
           review'.todo = review.todo, review'.task = review.task
    PROVE  InOrder'
<1>1. Placed' = Placed
  BY DEF Placed
<1>2. ASSUME NEW d \in Placed, NEW w \in Windows, NEW x \in Windows,
             w < x, status'[<<d, w>>] = "PENDING"
      PROVE  /\ results'[<<d, x>>] = <<>>
             /\ ~(review'.pc # "poll" /\ review'.task = <<d, x>>)
             /\ <<d, x>> \in review'.todo =>
                   <<d, w>> \in review'.todo \/ (review'.pc # "poll" /\ review'.task = <<d, w>>)
  <2>1. <<d, w>> \in Tasks /\ <<d, x>> \in Tasks
    BY DEF Tasks
  <2>2. status[<<d, w>>] = "PENDING"
    BY <1>2, <2>1
  <2>3. results[<<d, x>>] = <<>> /\ <<d, x>> # review.task
    BY <1>2, <2>2 DEF InOrder, InHandIs
  <2>4. QED
    BY <1>2, <2>1, <2>2, <2>3 DEF InOrder, InHandIs
<1>3. QED
  BY <1>1, <1>2 DEF InOrder, InHandIs

\* Once the task in hand is marked, the worker goes on in order.
LEMMA NextInOrder ==
    ASSUME IndInv, InOrder, review.pc # "poll", NextTask,
           UNCHANGED trades,
           \A t \in Tasks \ {review.task} : results'[t] = results[t],
           \A t \in Tasks : status'[t] = "PENDING" => status[t] = "PENDING",
           status'[review.task] # "PENDING"
    PROVE  InOrder' /\ review'.pc # "write"
<1>1. review.todo \in SUBSET Tasks /\ Turn(review.todo) /\ TablesType
  BY DEF IndInv, InHand, NextTask
<1>2. ASSUME NEW d \in Placed, NEW w \in Windows, NEW x \in Windows,
             w < x, status'[<<d, w>>] = "PENDING"
      PROVE  /\ results'[<<d, x>>] = <<>>
             /\ <<d, x>> \in review.todo => <<d, w>> \in review.todo
  <2>1. <<d, w>> \in Tasks /\ <<d, x>> \in Tasks /\ <<d, w>> # review.task
    BY <1>2 DEF Tasks
  <2>2. status[<<d, w>>] = "PENDING"
    BY <1>2, <2>1
  <2>3. QED
    BY <1>2, <2>1, <2>2 DEF InOrder, InHandIs
<1>3. QED
  BY <1>1, <1>2, TurnInOrder

\* A worker that polls has nothing in hand.
LEMMA PollingInOrder ==
    ASSUME InOrder, TablesType, UNCHANGED <<trades, results>>, review' = Polling,
           \A t \in Tasks : status'[t] = "PENDING" => status[t] = "PENDING"
    PROVE  InOrder' /\ review'.pc # "write"
<1>1. Placed' = Placed
  BY DEF Placed
<1>2. review'.pc = "poll" /\ review'.todo = {}
  BY DEF Polling
<1>3. \A d \in Placed, w \in Windows : <<d, w>> \in Tasks
  BY DEF Tasks
<1>4. QED
  BY <1>1, <1>2, <1>3 DEF InOrder, InHandIs

\* What is known of the results stays while they do.
LEMMA ResultsStay ==
    ASSUME OrderInv, UNCHANGED <<quotes, trades, results>>, review'.pc # "write"
    PROVE  Seen' /\ InHandAgrees' /\ LaterWindowAgrees'
<1>1. Placed' = Placed /\ Tasks' = Tasks
  BY DEF Placed, Tasks
<1>2. \A d : Verdict(d)' = Verdict(d)
  BY DEF Verdict, Window, Since
<1>3. Seen'
  BY <1>1, <1>2 DEF OrderInv, Seen
<1>4. LaterWindowAgrees'
  BY <1>1 DEF OrderInv, LaterWindowAgrees
<1>5. QED
  BY <1>3, <1>4 DEF InHandAgrees

-----------------------------------------------------------------------------
(* The steps keep the order *)

OrderFacts == InOrder /\ Seen /\ InHandAgrees /\ LaterWindowAgrees

LEMMA OrderAtFirst == Init => OrderFacts
<1> SUFFICES ASSUME Init PROVE OrderFacts
  OBVIOUS
<1>1. Placed = {} /\ Tasks = {} /\ review.pc = "poll"
  BY DEF Init, Placed, Tasks, Polling
<1>2. QED
  BY <1>1 DEF OrderFacts, InOrder, Seen, InHandAgrees, LaterWindowAgrees

\* The oldest due tasks include, with a window, the earlier PENDING ones.
LEMMA PollKeepsOrder == OrderInv /\ Poll => OrderFacts'
<1> SUFFICES ASSUME OrderInv, Poll PROVE OrderFacts'
  OBVIOUS
<1>1. PICK batch \in Oldest : Turn(batch)
  BY DEF Poll
<1>2. UNCHANGED <<now, quotes, trades, status, results>>
  BY DEF Poll, tables
<1>3. /\ batch \subseteq Due /\ batch \in SUBSET Tasks
      /\ \A t \in batch, u \in Due \ batch : ~Earlier(u, t)
  BY DEF Oldest, Due
<1>4. ASSUME NEW d \in Placed, NEW w \in Windows, NEW x \in Windows,
             w < x, status'[<<d, w>>] = "PENDING"
      PROVE  /\ results'[<<d, x>>] = <<>>
             /\ <<d, x>> \in batch => <<d, w>> \in batch
  <2>1. status[<<d, w>>] = "PENDING" /\ <<d, w>> \in Tasks
    BY <1>2, <1>4 DEF Tasks
  <2>2. results'[<<d, x>>] = <<>>
    BY <1>2, <1>4, <2>1 DEF OrderInv, InOrder
  <2>3. ASSUME <<d, x>> \in batch PROVE <<d, w>> \in batch
    <3>1. /\ Earlier(<<d, w>>, <<d, x>>)
          /\ DueAt(<<d, x>>) <= now => DueAt(<<d, w>>) <= now
      BY <1>4, WindowsInOrder DEF OrderInv, IndInv
    <3>2. <<d, w>> \in Due
      BY <1>3, <2>1, <2>3, <3>1 DEF Due
    <3>3. QED
      BY <1>3, <2>3, <3>1, <3>2
  <2>4. QED
    BY <2>2, <2>3
<1>5. InOrder' /\ review'.pc # "write"
  BY <1>1, <1>2, <1>3, <1>4, TurnInOrder DEF OrderInv, IndInv
<1>6. QED
  BY <1>2, <1>5, ResultsStay DEF OrderFacts

\* The verdict read is above all that were written before.
LEMMA ReadKeepsOrder == OrderInv /\ Read => OrderFacts'
<1> SUFFICES ASSUME OrderInv, Read PROVE OrderFacts'
  OBVIOUS
<1>1. /\ UNCHANGED <<now, quotes, trades, status, results>>
      /\ Placed' = Placed /\ Tasks' = Tasks
  BY DEF Read, tables, Placed, Tasks
<1>2. /\ review \in Worker /\ review.pc = "read" /\ review.task \in Tasks
  BY DEF OrderInv, IndInv, InHand, Read
<1> DEFINE verdict == Verdict(review.task[1])
<1>3. \/ review' = [review EXCEPT !.pc = "skip"]
      \/ review' = [review EXCEPT !.pc = "write", !.result = verdict]
  BY DEF Read
<1>4. verdict \in Result
  BY VerdictIsResult DEF OrderInv, IndInv
<1> HIDE DEF verdict
<1>5. /\ review'.todo = review.todo /\ review'.task = review.task
      /\ review'.pc = "skip" \/ (review'.pc = "write" /\ review'.result = verdict)
  BY <1>2, <1>3 DEF Worker
<1>6. InOrder'
  BY <1>1, <1>2, <1>5, HandKeepsOrder DEF OrderInv
<1>7. CASE review'.pc = "skip"
  BY <1>1, <1>6, <1>7, ResultsStay DEF OrderFacts
<1>8. CASE review'.pc = "write" /\ review'.result = verdict
  <2>1. \A d : Verdict(d)' = Verdict(d)
    BY <1>1 DEF Verdict, Window, Since
  <2>2. verdict = Verdict(review.task[1])'
    BY <1>5, <2>1 DEF verdict
  <2>3. Below(verdict, verdict)
    BY <1>4 DEF Below, Result
  <2>4. Seen'
    BY <1>1, <1>5, <1>8, <2>1, <2>2, <2>3 DEF OrderInv, Seen
  <2>5. ASSUME NEW w \in Windows, NEW i \in DOMAIN results[<<review.task[1], w>>]
        PROVE  Below(results[<<review.task[1], w>>][i], verdict)
    <3>1. <<review.task[1], w>> \in Tasks
      BY <1>2 DEF Tasks
    <3>2. QED
      BY <2>5, <3>1 DEF OrderInv, Seen, verdict
  <2>6. InHandAgrees'
    BY <1>1, <1>5, <1>8, <2>5 DEF InHandAgrees
  <2>7. LaterWindowAgrees'
    BY <1>1 DEF OrderInv, LaterWindowAgrees
  <2>8. QED
    BY <1>6, <2>4, <2>6, <2>7 DEF OrderFacts
<1>9. QED
  BY <1>5, <1>7, <1>8

\* Marking the task in hand takes it from the PENDING ones.
LEMMA MarkedIsNotPending ==
    ASSUME IndInv, review.pc # "poll", NEW value \in Status \ {"PENDING"},
           status' = [status EXCEPT ![review.task] = value]
    PROVE  /\ status'[review.task] # "PENDING"
           /\ \A t \in Tasks : status'[t] = "PENDING" => status[t] = "PENDING"
BY DEF IndInv, TablesType, InHand

LEMMA SkipKeepsOrder == OrderInv /\ Skip => OrderFacts'
<1> SUFFICES ASSUME OrderInv, Skip PROVE OrderFacts'
  OBVIOUS
<1>1. /\ review.pc = "skip" /\ review \in Worker
      /\ UNCHANGED <<now, quotes, trades, results>>
      /\ MarkTask("SKIPPED") \/ UNCHANGED status
      /\ (MarkTask("SKIPPED") /\ NextTask) \/ Raise
  BY DEF OrderInv, IndInv, InHand, Skip, Commit, MarkTask
<1>2. \A t \in Tasks : status'[t] = "PENDING" => status[t] = "PENDING"
  BY <1>1, MarkedIsNotPending DEF MarkTask, Status, OrderInv
<1>3. CASE MarkTask("SKIPPED") /\ NextTask
  <2>1. status'[review.task] # "PENDING"
    BY <1>1, <1>3, MarkedIsNotPending DEF MarkTask, Status, OrderInv
  <2>2. InOrder' /\ review'.pc # "write"
    BY <1>1, <1>2, <1>3, <2>1, NextInOrder DEF OrderInv
  <2>3. QED
    BY <1>1, <2>2, ResultsStay DEF OrderFacts
<1>4. CASE Raise
  <2>1. review'.pc = "fail" /\ review'.todo = review.todo /\ review'.task = review.task
    BY <1>1, <1>4 DEF Raise, Worker
  <2>2. InOrder'
    BY <1>1, <1>2, <2>1, HandKeepsOrder DEF OrderInv
  <2>3. QED
    BY <1>1, <2>1, <2>2, ResultsStay DEF OrderFacts
<1>5. QED
  BY <1>1, <1>3, <1>4

LEMMA ReviewFailsKeepsOrder == OrderInv /\ ReviewFails => OrderFacts'
<1> SUFFICES ASSUME OrderInv, ReviewFails PROVE OrderFacts'
  OBVIOUS
<1>1. /\ review.pc # "poll" /\ review \in Worker
      /\ UNCHANGED <<now, quotes, trades, status, results>> /\ Raise
  BY DEF OrderInv, IndInv, InHand, ReviewFails, tables
<1>2. review'.pc = "fail" /\ review'.todo = review.todo /\ review'.task = review.task
  BY <1>1 DEF Raise, Worker
<1>3. InOrder'
  BY <1>1, <1>2, HandKeepsOrder DEF OrderInv
<1>4. QED
  BY <1>1, <1>2, <1>3, ResultsStay DEF OrderFacts

LEMMA FailTaskKeepsOrder == OrderInv /\ FailTask => OrderFacts'
<1> SUFFICES ASSUME OrderInv, FailTask PROVE OrderFacts'
  OBVIOUS
<1>1. /\ review.pc = "fail"
      /\ UNCHANGED <<now, quotes, trades, results>>
      /\ MarkTask("FAILED") \/ UNCHANGED status
      /\ (MarkTask("FAILED") /\ NextTask) \/ review' = Polling
  BY DEF FailTask, Commit, MarkTask
<1>2. \A t \in Tasks : status'[t] = "PENDING" => status[t] = "PENDING"
  BY <1>1, MarkedIsNotPending DEF MarkTask, Status, OrderInv
<1>3. CASE MarkTask("FAILED") /\ NextTask
  <2>1. status'[review.task] # "PENDING"
    BY <1>1, <1>3, MarkedIsNotPending DEF MarkTask, Status, OrderInv
  <2>2. InOrder' /\ review'.pc # "write"
    BY <1>1, <1>2, <1>3, <2>1, NextInOrder DEF OrderInv
  <2>3. QED
    BY <1>1, <2>2, ResultsStay DEF OrderFacts
<1>4. CASE review' = Polling
  <2>1. InOrder' /\ review'.pc # "write"
    BY <1>1, <1>2, <1>4, PollingInOrder DEF OrderInv, IndInv
  <2>2. QED
    BY <1>1, <2>1, ResultsStay DEF OrderFacts
<1>5. QED
  BY <1>1, <1>3, <1>4

LEMMA RestartKeepsOrder == OrderInv /\ Restart => OrderFacts'
<1> SUFFICES ASSUME OrderInv, Restart PROVE OrderFacts'
  OBVIOUS
<1>1. UNCHANGED <<now, quotes, trades, status, results>> /\ review' = Polling
  BY DEF Restart, tables
<1>2. InOrder' /\ review'.pc # "write"
  BY <1>1, PollingInOrder DEF OrderInv, IndInv
<1>3. QED
  BY <1>1, <1>2, ResultsStay DEF OrderFacts

\* The result written agrees with the earlier windows, and the later ones have
\* none yet.
LEMMA WriteKeepsOrder == OrderInv /\ Write => OrderFacts'
<1> SUFFICES ASSUME OrderInv, Write PROVE OrderFacts'
  OBVIOUS
<1>1. /\ review.pc = "write" /\ review \in Worker /\ review.task \in Tasks
      /\ status[review.task] = "PENDING" /\ results[review.task] = <<>>
      /\ UNCHANGED <<now, quotes, trades>> /\ Placed' = Placed /\ Tasks' = Tasks
  BY DEF OrderInv, IndInv, InHand, DoneHasResult, Write, Placed, Tasks
<1>2. CASE UNCHANGED <<status, results>> /\ Raise
  <2>1. review'.pc = "fail" /\ review'.todo = review.todo /\ review'.task = review.task
    BY <1>1, <1>2 DEF Raise, Worker
  <2>2. InOrder'
    BY <1>1, <1>2, <2>1, HandKeepsOrder DEF OrderInv
  <2>3. QED
    BY <1>1, <1>2, <2>1, <2>2, ResultsStay DEF OrderFacts
<1>3. CASE /\ InsertResult /\ status' = [status EXCEPT ![review.task] = "DONE"]
           /\ NextTask \/ Raise
  <2> DEFINE first == Append(<<>>, review.result)
  <2>1. /\ results'[review.task] = first
        /\ \A t \in Tasks \ {review.task} : results'[t] = results[t]
    BY <1>1, <1>3 DEF InsertResult, OrderInv, IndInv, TablesType
  <2>2. DOMAIN first = {1} /\ first[1] = review.result
    OBVIOUS
  <2> HIDE DEF first
  <2>3. /\ status'[review.task] # "PENDING"
        /\ \A t \in Tasks : status'[t] = "PENDING" => status[t] = "PENDING"
    BY <1>1, <1>3, MarkedIsNotPending DEF OrderInv, Status
  <2>4. InOrder' /\ review'.pc # "write"
    <3>1. CASE NextTask
      BY <1>1, <2>1, <2>3, <3>1, NextInOrder DEF OrderInv
    <3>2. CASE Raise
      <4>1. review'.pc = "fail" /\ review'.todo = review.todo /\ review'.task = review.task
        BY <1>1, <3>2 DEF Raise, Worker
      <4>2. QED
        BY <1>1, <2>1, <2>3, <4>1, HandKeepsOrder DEF OrderInv
    <3>3. QED
      BY <1>3, <3>1, <3>2
  <2>5. \A d : Verdict(d)' = Verdict(d)
    BY <1>1 DEF Verdict, Window, Since
  <2>6. Seen'
    <3>1. ASSUME NEW t \in Tasks, NEW i \in DOMAIN results'[t]
          PROVE  Below(results'[t][i], Verdict(t[1]))
      <4>1. CASE t = review.task
        BY <1>1, <2>1, <2>2, <3>1, <4>1 DEF OrderInv, Seen
      <4>2. CASE t # review.task
        BY <2>1, <3>1, <4>2 DEF OrderInv, Seen
      <4>3. QED
        BY <4>1, <4>2
    <3>2. QED
      BY <1>1, <2>4, <2>5, <3>1 DEF Seen
  <2>7. LaterWindowAgrees'
    <3>1. ASSUME NEW d \in Placed, NEW w \in Windows, NEW x \in Windows, w < x,
                 NEW i \in DOMAIN results'[<<d, w>>], NEW j \in DOMAIN results'[<<d, x>>]
          PROVE  Below(results'[<<d, w>>][i], results'[<<d, x>>][j])
      <4>1. <<d, w>> \in Tasks /\ <<d, x>> \in Tasks /\ <<d, w>> # <<d, x>>
        BY <3>1 DEF Tasks
      <4>2. CASE <<d, x>> = review.task
        <5>1. /\ results'[<<d, w>>] = results[<<d, w>>]
              /\ results'[<<d, x>>][j] = review.result
          BY <2>1, <2>2, <3>1, <4>1, <4>2
        <5>2. review.task[1] = d /\ review.task[2] = x
          BY <4>2
        <5>3. QED
          BY <1>1, <3>1, <5>1, <5>2 DEF OrderInv, InHandAgrees
      <4>3. CASE <<d, w>> = review.task
        <5>1. results[<<d, x>>] = <<>>
          BY <1>1, <3>1, <4>3 DEF OrderInv, InOrder
        <5>2. results'[<<d, x>>] = <<>>
          BY <2>1, <4>1, <4>3, <5>1
        <5>3. QED
          BY <3>1, <5>2
      <4>4. CASE <<d, x>> # review.task /\ <<d, w>> # review.task
        BY <2>1, <3>1, <4>1, <4>4 DEF OrderInv, LaterWindowAgrees
      <4>5. QED
        BY <4>2, <4>3, <4>4
    <3>2. QED
      BY <1>1, <3>1 DEF LaterWindowAgrees
  <2>8. QED
    BY <2>4, <2>6, <2>7 DEF OrderFacts, InHandAgrees
<1>4. QED
  BY <1>2, <1>3 DEF Write, Commit

\* A decision just placed has no result and nothing in hand.
LEMMA PlaceKeepsOrder ==
    ASSUME NEW d \in Decisions, NEW plan \in Plans, OrderInv, Place(d, plan) PROVE OrderFacts'
<1>1. /\ d \notin Placed /\ Placed' = Placed \cup {d}
      /\ Tasks' = Tasks \cup ({d} \X Windows)
      /\ \A e \in Placed : trades'[e] = trades[e]
      /\ \A t \in Tasks : status'[t] = status[t] /\ results'[t] = results[t]
      /\ \A w \in Windows : results'[<<d, w>>] = <<>>
      /\ UNCHANGED <<now, quotes, review>>
  BY DEF Place, Placed, Tasks
<1>2. /\ review.todo \subseteq Tasks
      /\ review.pc # "poll" => review.task \in Tasks
      /\ \A w \in Windows : <<d, w>> \notin Tasks
      /\ \A e \in Placed, w \in Windows : <<e, w>> \in Tasks
  BY <1>1 DEF OrderInv, IndInv, InHand, Tasks
<1>3. InOrder'
  <2>1. ASSUME NEW e \in Placed', NEW w \in Windows, NEW x \in Windows,
               w < x, status'[<<e, w>>] = "PENDING"
        PROVE  /\ results'[<<e, x>>] = <<>>
               /\ ~InHandIs(<<e, x>>)
               /\ <<e, x>> \in review.todo => <<e, w>> \in review.todo \/ InHandIs(<<e, w>>)
    <3>1. CASE e = d
      BY <1>1, <1>2, <3>1 DEF InHandIs
    <3>2. CASE e \in Placed
      <4>1. <<e, w>> \in Tasks /\ <<e, x>> \in Tasks
        BY <1>2, <3>2
      <4>2. status[<<e, w>>] = "PENDING" /\ results'[<<e, x>>] = results[<<e, x>>]
        BY <1>1, <2>1, <4>1
      <4>3. QED
        BY <2>1, <3>2, <4>2 DEF OrderInv, InOrder
    <3>3. QED
      BY <1>1, <3>1, <3>2
  <2>2. QED
    BY <1>1, <2>1 DEF InOrder, InHandIs
<1>4. \A e \in Placed : Verdict(e)' = Verdict(e)
  <2> SUFFICES ASSUME NEW e \in Placed PROVE Verdict(e)' = Verdict(e)
    OBVIOUS
  <2>1. trades'[e] = trades[e] /\ quotes' = quotes
    BY <1>1
  <2>2. Window(e)' = Window(e)
    BY <2>1 DEF Window, Since
  <2>3. QED
    BY <2>1, <2>2 DEF Verdict
<1>5. Seen'
  <2>1. ASSUME NEW t \in Tasks', NEW i \in DOMAIN results'[t]
        PROVE  Below(results'[t][i], Verdict(t[1])')
    <3>1. t \in Tasks
      <4>1. ASSUME t \in {d} \X Windows PROVE FALSE
        <5>1. t = <<d, t[2]>> /\ t[2] \in Windows
          BY <4>1
        <5>2. results'[t] = <<>>
          BY <1>1, <5>1
        <5>3. QED
          BY <2>1, <5>2
      <4>2. QED
        BY <1>1, <2>1, <4>1
    <3>2. t[1] \in Placed
      BY <3>1 DEF Tasks
    <3>3. QED
      BY <1>1, <1>4, <2>1, <3>1, <3>2 DEF OrderInv, Seen
  <2>2. ASSUME review'.pc = "write" PROVE Below(review'.result, Verdict(review.task[1])')
    <3>1. review.task \in Tasks /\ review' = review /\ review.pc = "write"
      BY <1>1, <1>2, <2>2
    <3>2. review.task[1] \in Placed
      BY <3>1 DEF Tasks
    <3>3. Verdict(review.task[1])' = Verdict(review.task[1])
      BY <1>4, <3>1, <3>2
    <3>4. QED
      BY <3>1, <3>3 DEF OrderInv, Seen
  <2>3. QED
    BY <2>1, <2>2 DEF Seen
<1>6. InHandAgrees'
  <2> SUFFICES ASSUME review.pc = "write", NEW w \in Windows, w < review.task[2],
                      NEW i \in DOMAIN results'[<<review.task[1], w>>]
               PROVE  Below(results'[<<review.task[1], w>>][i], review.result)
    BY <1>1 DEF InHandAgrees
  <2>1. review.task \in Tasks
    BY <1>2
  <2>2. review.task[1] \in Placed
    BY <2>1 DEF Tasks
  <2>3. results'[<<review.task[1], w>>] = results[<<review.task[1], w>>]
    BY <1>1, <1>2, <2>2
  <2>4. QED
    BY <2>3 DEF OrderInv, InHandAgrees
<1>7. LaterWindowAgrees'
  <2>1. ASSUME NEW e \in Placed', NEW w \in Windows, NEW x \in Windows, w < x,
               NEW i \in DOMAIN results'[<<e, w>>], NEW j \in DOMAIN results'[<<e, x>>]
        PROVE  Below(results'[<<e, w>>][i], results'[<<e, x>>][j])
    <3>1. e \in Placed
      BY <1>1, <2>1
    <3>2. QED
      BY <1>1, <1>2, <2>1, <3>1 DEF OrderInv, LaterWindowAgrees
  <2>2. QED
    BY <2>1 DEF LaterWindowAgrees
<1>8. QED
  BY <1>3, <1>5, <1>6, <1>7 DEF OrderFacts

\* A new price only makes the verdicts grow.
LEMMA CollectKeepsOrder ==
    ASSUME NEW price \in Prices, OrderInv, Collect(price) PROVE OrderFacts'
<1>1. /\ UNCHANGED <<now, trades, status, results, review>>
      /\ Placed' = Placed /\ Tasks' = Tasks
      /\ TablesType /\ InHand
  BY DEF Collect, tables, Placed, Tasks, OrderInv, IndInv
<1>2. PICK quote \in Quote : quotes' = Append(quotes, quote)
  BY <1>1 DEF TablesType, Quote, Collect
<1>3. \A d : Below(Verdict(d), Verdict(d)')
  BY <1>1, <1>2, VerdictGrows
<1>4. \A d : Verdict(d) \in Result
  BY <1>1, VerdictIsResult
<1>5. \A d : Verdict(d)' \in Result
  <2>1. TablesType'
    BY <1>1, CollectKeepsInv DEF OrderInv, IndInv
  <2>2. QED
    <3> SUFFICES ASSUME NEW d PROVE Verdict(d)' \in Result
      OBVIOUS
    <3>1. /\ Verdict(d)' = [hit_tp  |-> Verdict(d)'.hit_tp,  hit_sl  |-> Verdict(d)'.hit_sl,
                            correct |-> Verdict(d)'.correct, checked |-> Verdict(d)'.checked]
          /\ Verdict(d)'.hit_tp \in BOOLEAN /\ Verdict(d)'.hit_sl \in BOOLEAN
          /\ Verdict(d)'.correct \in BOOLEAN
      BY DEF Verdict
    <3>2. Verdict(d)'.checked \in Nat
      <4>1. Verdict(d)'.checked = Cardinality(Window(d)')
        BY DEF Verdict
      <4>2. PICK n \in Nat : n = Len(quotes') /\ DOMAIN quotes' = 1..n
        BY <2>1, LenProperties DEF TablesType
      <4>3. Window(d)' \subseteq 1..n /\ IsFiniteSet(1..n)
        BY <4>2, FS_Interval DEF Window, Since
      <4>4. QED
        BY <4>1, <4>3, FS_Subset, FS_CardinalityType
    <3>3. QED
      BY <3>1, <3>2 DEF Result
<1>6. InOrder' /\ LaterWindowAgrees' /\ InHandAgrees'
  BY <1>1 DEF OrderInv, InOrder, InHandIs, LaterWindowAgrees, InHandAgrees
<1>7. Seen'
  <2>1. ASSUME NEW t \in Tasks, NEW i \in DOMAIN results[t]
        PROVE  Below(results[t][i], Verdict(t[1])')
    <3>1. results[t][i] \in Result
      BY <1>1, <2>1 DEF TablesType
    <3>2. Below(results[t][i], Verdict(t[1]))
      BY <2>1 DEF OrderInv, Seen
    <3>3. QED
      BY <1>3, <1>4, <1>5, <3>1, <3>2, BelowIsTransitive
  <2>2. ASSUME review.pc = "write" PROVE Below(review.result, Verdict(review.task[1])')
    <3>1. review.result \in Result /\ review' = review
      BY <1>1, <2>2 DEF InHand
    <3>2. Below(review.result, Verdict(review.task[1]))
      BY <2>2 DEF OrderInv, Seen
    <3>3. PICK d : d = review.task[1]
      OBVIOUS
    <3>4. /\ Verdict(review.task[1])' = Verdict(d)'
          /\ Verdict(review.task[1]) = Verdict(d)
      BY <3>1, <3>3
    <3>5. QED
      BY <1>3, <1>4, <1>5, <3>1, <3>2, <3>4, BelowIsTransitive
  <2>3. QED
    BY <1>1, <2>1, <2>2 DEF Seen
<1>8. QED
  BY <1>6, <1>7 DEF OrderFacts

LEMMA TickKeepsOrder == OrderInv /\ (Tick \/ UNCHANGED vars) => OrderFacts'
<1> SUFFICES ASSUME OrderInv, Tick \/ UNCHANGED vars PROVE OrderFacts'
  OBVIOUS
<1>1. /\ UNCHANGED <<quotes, trades, status, results, review>>
      /\ Placed' = Placed /\ Tasks' = Tasks
  BY DEF Tick, vars, tables, Placed, Tasks
<1>2. \A d : Verdict(d)' = Verdict(d)
  BY <1>1 DEF Verdict, Window, Since
<1>3. InOrder' /\ LaterWindowAgrees' /\ InHandAgrees'
  BY <1>1 DEF OrderInv, InOrder, InHandIs, LaterWindowAgrees, InHandAgrees
<1>4. Seen'
  BY <1>1, <1>2 DEF OrderInv, Seen
<1>5. QED
  BY <1>3, <1>4 DEF OrderFacts

LEMMA StepKeepsOrder == OrderInv /\ [Next]_vars => OrderInv'
<1> SUFFICES ASSUME OrderInv, [Next]_vars PROVE OrderInv'
  OBVIOUS
<1>1. IndInv'
  BY StepKeepsInv DEF OrderInv
<1>2. ReviewStep => OrderFacts'
  BY PollKeepsOrder, ReadKeepsOrder, SkipKeepsOrder, ReviewFailsKeepsOrder,
     WriteKeepsOrder, FailTaskKeepsOrder DEF ReviewStep
<1>3. OrderFacts'
  BY <1>2, RestartKeepsOrder, PlaceKeepsOrder, CollectKeepsOrder, TickKeepsOrder DEF Next
<1>4. QED
  BY <1>1, <1>3 DEF OrderInv, OrderFacts

\* Whatever fails, restarts or comes late, a later window of a decision never
\* says less than an earlier one (due_review_tasks orders them by due_at).
THEOREM WindowsAgree == Spec => []LaterWindowAgrees
<1>1. Init => OrderInv
  BY InitHolds, OrderAtFirst DEF OrderInv, OrderFacts
<1>2. OrderInv => LaterWindowAgrees
  BY DEF OrderInv
<1>3. QED
  BY <1>1, <1>2, StepKeepsOrder, PTL DEF Spec

-----------------------------------------------------------------------------
(***************************************************************************)
(* What a review has seen.  market_window takes the first snapshots since  *)
(* the decision, so a review sees all of its window whenever the window    *)
(* holds no more of them than the LIMIT; and how many it holds is a matter *)
(* of the rate at which they are taken.                                    *)
(***************************************************************************)

\* The snapshots of a task's window.
InWindow(t) == {j \in Since(t[1]) : quotes[j].at < DueAt(t)}

\* A result has seen its window, if the window fits the LIMIT.
Sees(t, result) ==
    Cardinality(InWindow(t)) <= WindowLimit => Cardinality(InWindow(t)) <= result.checked

InTime ==
    \A i \in DOMAIN quotes :
        quotes[i].at <= now /\ \A j \in DOMAIN quotes : i <= j => quotes[i].at <= quotes[j].at

\* What is in hand, or was reviewed, was due: its window was over.
SeeInv ==
    /\ InTime
    /\ \A t \in review.todo : DueAt(t) <= now
    /\ review.pc # "poll" => DueAt(review.task) <= now
    /\ review.pc = "write" => Sees(review.task, review.result)
    /\ \A t \in Tasks : \A i \in DOMAIN results[t] : DueAt(t) <= now /\ Sees(t, results[t][i])

LEMMA DueAtType ==
    ASSUME TablesType, NEW t \in Tasks
    PROVE  /\ trades[t[1]].created \in Nat /\ t[2] \in Nat /\ DueAt(t) \in Nat /\ now \in Nat
           /\ DueAt(t) = trades[t[1]].created + t[2] /\ t[1] \in Placed /\ t[2] \in Windows
<1>1. t[1] \in Placed /\ t[2] \in Windows
  BY DEF Tasks
<1>2. trades[t[1]].created \in Nat
  BY <1>1 DEF TablesType, Trade
<1>3. now \in Nat /\ t[2] \in Nat
  <2>1. now \in 0..MaxTime /\ MaxTime \in Nat
    BY DEF TablesType
  <2>2. now \in Nat
    BY <2>1
  <2>3. t[2] \in Windows /\ Windows \subseteq Nat
    BY <1>1
  <2>4. t[2] \in Nat
    BY <2>3, Zenon
  <2>5. QED
    BY <2>2, <2>4
<1>4. DueAt(t) = trades[t[1]].created + t[2]
  BY DEF DueAt
<1>5. DueAt(t) \in Nat
  BY <1>2, <1>3, <1>4
<1>6. QED
  BY <1>1, <1>2, <1>3, <1>4, <1>5

LEMMA QuotesFinite ==
    ASSUME TablesType
    PROVE  /\ Len(quotes) \in Nat /\ DOMAIN quotes = 1..Len(quotes) /\ IsFiniteSet(DOMAIN quotes)
           /\ \A i \in DOMAIN quotes : quotes[i].at \in Nat
<1>1. Len(quotes) \in Nat /\ DOMAIN quotes = 1..Len(quotes)
  BY LenProperties DEF TablesType
<1>2. IsFiniteSet(1..Len(quotes))
  BY <1>1, FS_Interval
<1>3. \A i \in DOMAIN quotes : quotes[i] \in Quote
  BY <1>1 DEF TablesType
<1>4. QED
  BY <1>1, <1>2, <1>3 DEF Quote

\* The first snapshots since a decision are those of its window, as many as
\* the LIMIT lets through.
LEMMA VerdictSees ==
    ASSUME TablesType, InTime, NEW t \in Tasks
    PROVE  Sees(t, Verdict(t[1]))
<1> DEFINE mine == InWindow(t)
           first == Window(t[1])
<1>1. SUFFICES ASSUME Cardinality(mine) <= WindowLimit
               PROVE  Cardinality(mine) <= Cardinality(first)
  BY DEF Sees, Verdict
<1>2. /\ mine \subseteq DOMAIN quotes /\ first \subseteq DOMAIN quotes
      /\ IsFiniteSet(mine) /\ IsFiniteSet(first) /\ Cardinality(mine) \in Nat
  <2>1. mine \subseteq DOMAIN quotes /\ first \subseteq DOMAIN quotes
    BY DEF InWindow, Window, Since
  <2> HIDE DEF mine, first
  <2>2. QED
    BY <2>1, QuotesFinite, FS_Subset, FS_CardinalityType
<1>3. ASSUME NEW i \in mine PROVE i \in first
  <2> DEFINE before == {j \in Since(t[1]) : j < i}
  <2>1. before \subseteq mine \ {i}
    <3> SUFFICES ASSUME NEW j \in before PROVE j \in mine \ {i}
      OBVIOUS
    <3>1. /\ i \in DOMAIN quotes /\ j \in DOMAIN quotes /\ j \in Since(t[1]) /\ j < i
          /\ quotes[i].at < DueAt(t)
      BY <1>3 DEF InWindow, Since
    <3>2. i \in Nat /\ j \in Nat /\ quotes[i].at \in Nat /\ quotes[j].at \in Nat /\ DueAt(t) \in Nat
      BY <3>1, QuotesFinite, DueAtType
    <3>3. quotes[j].at <= quotes[i].at
      BY <3>1, <3>2 DEF InTime
    <3>4. QED
      BY <3>1, <3>2, <3>3 DEF InWindow
  <2>2. i \in Since(t[1])
    BY <1>3 DEF InWindow
  <2> HIDE DEF mine, before
  <2>3. Cardinality(mine \ {i}) = Cardinality(mine) - 1 /\ IsFiniteSet(mine \ {i})
    BY <1>2, <1>3, FS_RemoveElement
  <2>4. Cardinality(before) <= Cardinality(mine) - 1 /\ Cardinality(before) \in Nat
    BY <2>1, <2>3, FS_Subset, FS_CardinalityType
  <2>5. Cardinality(before) < WindowLimit
    BY <1>1, <1>2, <2>4
  <2>6. QED
    BY <2>2, <2>5 DEF Window, before
<1> HIDE DEF mine, first
<1>4. mine \subseteq first
  BY <1>3
<1>5. QED
  BY <1>2, <1>4, FS_Subset

\* What was reviewed or is in hand has a window that is over, which no later
\* step changes.
LEMMA SeeStays ==
    ASSUME IndInv, SeeInv, now' \in Nat, now <= now', InTime',
           \A t \in Tasks : /\ DueAt(t)' = DueAt(t)
                            /\ DueAt(t) <= now => InWindow(t)' = InWindow(t),
           review'.todo \subseteq Tasks, \A t \in review'.todo : DueAt(t) <= now,
           review'.pc # "poll" => review'.task \in Tasks /\ DueAt(review'.task) <= now,
           review'.pc = "write" => Sees(review'.task, review'.result),
           \A t \in Tasks' : \A i \in DOMAIN results'[t] :
               t \in Tasks /\ DueAt(t) <= now /\ Sees(t, results'[t][i])
    PROVE  SeeInv'
<1>1. \A t \in Tasks : DueAt(t) \in Nat /\ now \in Nat
  BY DueAtType DEF IndInv
<1>2. ASSUME NEW t \in Tasks, DueAt(t) <= now PROVE DueAt(t)' <= now'
  BY <1>1, <1>2
<1>3. ASSUME NEW t \in Tasks, NEW r, DueAt(t) <= now, Sees(t, r) PROVE Sees(t, r)'
  BY <1>3 DEF Sees
<1>4. \A t \in review'.todo : DueAt(t)' <= now'
  BY <1>2
<1>5. review'.pc # "poll" => DueAt(review.task)' <= now'
  <2> SUFFICES ASSUME review'.pc # "poll" PROVE DueAt(review.task)' <= now'
    OBVIOUS
  <2>1. PICK t \in Tasks : t = review'.task
    OBVIOUS
  <2>2. DueAt(t)' <= now'
    BY <1>2, <2>1
  <2>3. QED
    BY <2>1, <2>2
<1>6. review'.pc = "write" => Sees(review.task, review.result)'
  <2> SUFFICES ASSUME review'.pc = "write" PROVE Sees(review.task, review.result)'
    OBVIOUS
  <2>1. PICK t \in Tasks : t = review'.task
    OBVIOUS
  <2>2. PICK r : r = review'.result
    OBVIOUS
  <2>3. Sees(t, r)'
    BY <1>3, <2>1, <2>2
  <2>4. QED
    BY <2>1, <2>2, <2>3
<1>7. \A t \in Tasks' : \A i \in DOMAIN results'[t] : DueAt(t)' <= now' /\ Sees(t, results[t][i])'
  <2> SUFFICES ASSUME NEW t \in Tasks', NEW i \in DOMAIN results'[t]
               PROVE  DueAt(t)' <= now' /\ Sees(t, results[t][i])'
    OBVIOUS
  <2>1. PICK r : r = results'[t][i]
    OBVIOUS
  <2>2. t \in Tasks /\ DueAt(t) <= now /\ Sees(t, r)
    BY <2>1
  <2>3. DueAt(t)' <= now' /\ Sees(t, r)'
    BY <1>2, <1>3, <2>2
  <2>4. QED
    BY <2>1, <2>3
<1>8. QED
  BY <1>4, <1>5, <1>6, <1>7 DEF SeeInv

\* A round takes up what is due.
LEMMA TurnIsDue ==
    ASSUME NEW todo \in SUBSET Tasks, Turn(todo), \A t \in todo : DueAt(t) <= now
    PROVE  /\ review'.todo \subseteq Tasks /\ \A t \in review'.todo : DueAt(t) <= now
           /\ review'.pc # "poll" => review'.task \in Tasks /\ DueAt(review'.task) <= now
           /\ review'.pc # "write"
<1>1. CASE review' = Polling
  BY <1>1 DEF Polling
<1>2. CASE review' # Polling
  <2>1. PICK t \in todo :
            review' = [pc |-> "read", todo |-> todo \ {t}, task |-> t, result |-> None]
    BY <1>2 DEF Turn
  <2>2. review'.pc = "read" /\ review'.todo = todo \ {t} /\ review'.task = t
    BY <2>1
  <2>3. QED
    BY <2>2
<1>3. QED
  BY <1>1, <1>2

\* The worker's own steps leave the snapshots and the windows alone.
LEMMA WorkerStays ==
    ASSUME IndInv, SeeInv, UNCHANGED <<now, quotes, trades>>,
           review'.todo \subseteq Tasks, \A t \in review'.todo : DueAt(t) <= now,
           review'.pc # "poll" => review'.task \in Tasks /\ DueAt(review'.task) <= now,
           review'.pc = "write" => Sees(review'.task, review'.result),
           \A t \in Tasks : \A i \in DOMAIN results'[t] : DueAt(t) <= now /\ Sees(t, results'[t][i])
    PROVE  SeeInv'
<1>1. now \in Nat /\ Tasks' = Tasks
  BY DEF IndInv, TablesType, Tasks, Placed
<1>2. InTime'
  BY DEF SeeInv, InTime
<1>3. \A t \in Tasks : DueAt(t)' = DueAt(t) /\ InWindow(t)' = InWindow(t)
  BY DEF DueAt, InWindow, Since
<1>4. now' \in Nat /\ now <= now'
  BY <1>1
<1>5. QED
  BY <1>1, <1>2, <1>3, <1>4, SeeStays

LEMMA SeeAtFirst == Init => SeeInv
<1> SUFFICES ASSUME Init PROVE SeeInv
  OBVIOUS
<1>1. /\ Placed = {} /\ Tasks = {} /\ review.pc = "poll" /\ review.todo = {}
      /\ DOMAIN quotes = {}
  BY DEF Init, Placed, Tasks, Polling
<1>2. QED
  BY <1>1 DEF SeeInv, InTime

\* One step for each of the worker's.
LEMMA ReviewStepSees == IndInv /\ SeeInv /\ (ReviewStep \/ Restart) => SeeInv'
<1> SUFFICES ASSUME IndInv, SeeInv, ReviewStep \/ Restart PROVE SeeInv'
  OBVIOUS
<1>1. /\ TablesType /\ review \in Worker /\ review.todo \in SUBSET Tasks
      /\ review.pc # "poll" => review.task \in Tasks
      /\ results \in [Tasks -> Seq(Result)]
  BY DEF IndInv, InHand, TablesType
<1>2. /\ InTime /\ \A t \in review.todo : DueAt(t) <= now
      /\ review.pc # "poll" => DueAt(review.task) <= now
      /\ review.pc = "write" => Sees(review.task, review.result)
      /\ \A t \in Tasks : \A i \in DOMAIN results[t] : DueAt(t) <= now /\ Sees(t, results[t][i])
  BY DEF SeeInv
<1>3. ASSUME Raise, review.pc # "poll"
      PROVE  review'.pc = "fail" /\ review'.todo = review.todo /\ review'.task = review.task
  BY <1>1, <1>3 DEF Raise, Worker
<1>4. ASSUME UNCHANGED <<now, quotes, trades, results>>, review.pc # "poll",
             NextTask \/ Raise \/ review' = Polling
      PROVE  SeeInv'
  <2>1. CASE NextTask
    BY <1>1, <1>2, <1>4, <2>1, TurnIsDue, WorkerStays DEF NextTask
  <2>2. CASE Raise
    BY <1>1, <1>2, <1>3, <1>4, <2>2, WorkerStays
  <2>3. CASE review' = Polling
    <3>1. review'.pc = "poll" /\ review'.todo = {}
      BY <2>3 DEF Polling
    <3>2. QED
      BY <1>1, <1>2, <1>4, <3>1, WorkerStays
  <2>4. QED
    BY <1>4, <2>1, <2>2, <2>3
<1>5. CASE Poll
  <2>1. PICK batch \in Oldest : Turn(batch)
    BY <1>5 DEF Poll
  <2>2. batch \in SUBSET Tasks /\ \A t \in batch : DueAt(t) <= now
    BY <2>1 DEF Oldest, Due
  <2>3. UNCHANGED <<now, quotes, trades, results>>
    BY <1>5 DEF Poll, tables
  <2>4. QED
    BY <1>1, <1>2, <2>1, <2>2, <2>3, TurnIsDue, WorkerStays
<1>6. CASE Read
  <2> DEFINE verdict == Verdict(review.task[1])
  <2>1. /\ UNCHANGED <<now, quotes, trades, results>> /\ review.pc = "read"
        /\ \/ review' = [review EXCEPT !.pc = "skip"]
           \/ review' = [review EXCEPT !.pc = "write", !.result = verdict]
    BY <1>6 DEF Read, tables
  <2>2. Sees(review.task, verdict)
    BY <1>1, <1>2, <2>1, VerdictSees
  <2> HIDE DEF verdict
  <2>3. /\ review'.todo = review.todo /\ review'.task = review.task
        /\ review'.pc = "write" => review'.result = verdict
    BY <1>1, <2>1 DEF Worker
  <2>4. QED
    BY <1>1, <1>2, <2>1, <2>2, <2>3, WorkerStays
<1>7. CASE Skip
  BY <1>4, <1>7 DEF Skip, Commit, MarkTask
<1>8. CASE ReviewFails
  BY <1>4, <1>8 DEF ReviewFails, tables
<1>9. CASE FailTask
  BY <1>4, <1>9 DEF FailTask, Commit, MarkTask
<1>10. CASE Restart
  <2>1. UNCHANGED <<now, quotes, trades, results>> /\ review'.pc = "poll" /\ review'.todo = {}
    BY <1>10 DEF Restart, tables, Polling
  <2>2. QED
    BY <1>1, <1>2, <2>1, WorkerStays
<1>11. CASE Write
  <2>1. /\ review.pc = "write" /\ UNCHANGED <<now, quotes, trades>>
        /\ NextTask \/ Raise
        /\ InsertResult \/ UNCHANGED results
    BY <1>11 DEF Write, Commit
  <2>2. /\ review'.todo \subseteq Tasks /\ \A t \in review'.todo : DueAt(t) <= now
        /\ review'.pc # "poll" => review'.task \in Tasks /\ DueAt(review'.task) <= now
        /\ review'.pc # "write"
    BY <1>1, <1>2, <1>3, <2>1, TurnIsDue DEF NextTask
  <2>3. ASSUME InsertResult, NEW t \in Tasks, NEW i \in DOMAIN results'[t]
        PROVE  DueAt(t) <= now /\ Sees(t, results'[t][i])
    <3>1. CASE t # review.task
      <4>1. results'[t] = results[t]
        BY <1>1, <2>3, <3>1 DEF InsertResult
      <4>2. QED
        BY <1>2, <2>3, <4>1
    <3>2. CASE t = review.task
      <4>1. results[t] \in Seq(Result) /\ review.result \in Result
        BY <1>1, <2>1 DEF IndInv, InHand
      <4>2. results'[t] = Append(results[t], review.result)
        BY <1>1, <2>3, <3>2 DEF InsertResult
      <4>3. (i \in DOMAIN results[t] /\ results'[t][i] = results[t][i]) \/ results'[t][i] = review.result
        BY <2>3, <4>1, <4>2
      <4>4. QED
        BY <1>2, <2>1, <3>2, <4>3
    <3>3. QED
      BY <3>1, <3>2
  <2>4. \A t \in Tasks : \A i \in DOMAIN results'[t] : DueAt(t) <= now /\ Sees(t, results'[t][i])
    BY <1>2, <2>1, <2>3
  <2>5. QED
    BY <2>1, <2>2, <2>4, WorkerStays
<1>12. QED
  BY <1>5, <1>6, <1>7, <1>8, <1>9, <1>10, <1>11 DEF ReviewStep

\* A decision placed leaves the windows of the others alone.
LEMMA PlaceSees ==
    ASSUME NEW d \in Decisions, NEW plan \in Plans, IndInv, SeeInv, Place(d, plan) PROVE SeeInv'
<1>1. /\ UNCHANGED <<now, quotes, review>> /\ d \notin Placed
      /\ trades' = [e \in Placed \cup {d} |->
                       IF e = d THEN [created |-> now, plan |-> plan] ELSE trades[e]]
      /\ results' = [t \in Tasks \cup ({d} \X Windows) |-> IF t \in Tasks THEN results[t] ELSE <<>>]
  BY DEF Place
<1>2. Placed' = Placed \cup {d}
  BY <1>1 DEF Placed
<1>3. Tasks' = Tasks \cup ({d} \X Windows)
  BY <1>2 DEF Tasks
<1>4. ASSUME NEW t \in Tasks PROVE DueAt(t)' = DueAt(t) /\ InWindow(t)' = InWindow(t)
  <2>1. t[1] \in Placed
    BY DEF Tasks
  <2>2. trades'[t[1]] = trades[t[1]]
    BY <1>1, <2>1
  <2>3. QED
    BY <1>1, <2>2 DEF DueAt, InWindow, Since
<1>5. /\ \A t \in Tasks : results'[t] = results[t]
      /\ \A t \in Tasks' : t \notin Tasks => results'[t] = <<>>
  BY <1>1, <1>3
<1>6. /\ review.todo \subseteq Tasks
      /\ review.pc # "poll" => review.task \in Tasks
      /\ now \in Nat
  BY DEF IndInv, InHand, TablesType
<1>7. InTime'
  BY <1>1 DEF SeeInv, InTime
<1>8. ASSUME NEW t \in Tasks', NEW i \in DOMAIN results'[t]
      PROVE  t \in Tasks /\ DueAt(t) <= now /\ Sees(t, results'[t][i])
  BY <1>5, <1>8 DEF SeeInv
<1>9. now' \in Nat /\ now <= now'
  BY <1>1, <1>6
<1>10. QED
  <2>1. /\ \A t \in review.todo : DueAt(t) <= now
        /\ review.pc # "poll" => DueAt(review.task) <= now
        /\ review.pc = "write" => Sees(review.task, review.result)
    BY DEF SeeInv
  <2>2. review' = review
    BY <1>1
  <2>3. QED
    BY <1>4, <1>6, <1>7, <1>8, <1>9, <2>1, <2>2, SeeStays

\* A new snapshot falls in no window that is over.
LEMMA CollectSees ==
    ASSUME NEW price \in Prices, IndInv, SeeInv, Collect(price) PROVE SeeInv'
<1> DEFINE quote == [at |-> now, price |-> price]
<1>1. /\ quotes' = Append(quotes, quote) /\ quote.at = now
      /\ UNCHANGED <<now, trades, results, review>> /\ Tasks' = Tasks
  BY DEF Collect, tables, Tasks, Placed
<1> HIDE DEF quote
<1>2. /\ Len(quotes) \in Nat /\ DOMAIN quotes = 1..Len(quotes) /\ quotes \in Seq(Quote)
      /\ \A i \in DOMAIN quotes : quotes[i].at \in Nat
  BY QuotesFinite DEF IndInv, TablesType
<1> DEFINE n == Len(quotes) + 1
<1>3. /\ DOMAIN quotes' = 1..n /\ n \in Nat
      /\ \A i \in 1..Len(quotes) : quotes'[i] = quotes[i]
      /\ quotes'[n] = quote
  BY <1>1, <1>2
<1>4. now \in Nat
  BY DEF IndInv, TablesType
<1> HIDE DEF n
<1>5. \A i \in 1..n : i \in DOMAIN quotes \/ i = n
  BY <1>2 DEF n
<1>6. \A i \in DOMAIN quotes : i # n /\ ~(n <= i) /\ i \in 1..n
  BY <1>2 DEF n
<1>7. InTime'
  <2> SUFFICES ASSUME NEW i \in 1..n
               PROVE  /\ quotes'[i].at <= now
                      /\ \A j \in 1..n : i <= j => quotes'[i].at <= quotes'[j].at
    BY <1>1, <1>3 DEF InTime
  <2>1. CASE i \in DOMAIN quotes
    <3>1. quotes[i].at <= now /\ \A j \in DOMAIN quotes : i <= j => quotes[i].at <= quotes[j].at
      BY <2>1 DEF SeeInv, InTime
    <3>2. quotes'[i] = quotes[i] /\ \A j \in DOMAIN quotes : quotes'[j] = quotes[j]
      BY <1>2, <1>3, <2>1
    <3>3. QED
      BY <1>1, <1>3, <1>5, <3>1, <3>2
  <2>2. CASE i = n
    <3>1. quotes'[i].at = now
      BY <1>1, <1>3, <2>2
    <3>2. \A j \in 1..n : i <= j => j = n
      BY <1>5, <1>6, <2>2
    <3>3. QED
      BY <1>4, <2>2, <3>1, <3>2
  <2>3. QED
    BY <1>5, <2>1, <2>2
<1>8. ASSUME NEW t \in Tasks
      PROVE  /\ DueAt(t)' = DueAt(t)
             /\ DueAt(t) <= now => InWindow(t)' = InWindow(t)
  <2>1. DueAt(t)' = DueAt(t) /\ trades' = trades
    BY <1>1 DEF DueAt
  <2>2. DueAt(t) \in Nat
    BY DueAtType DEF IndInv
  <2>3. DueAt(t) <= now => ~(quotes'[n].at < DueAt(t))
    BY <1>1, <1>3, <1>4, <2>2
  <2>4. InWindow(t)' = {i \in 1..n : quotes'[i].at >= trades[t[1]].created /\ quotes'[i].at < DueAt(t)}
    BY <1>3, <2>1 DEF InWindow, Since
  <2>5. InWindow(t) = {i \in DOMAIN quotes : quotes[i].at >= trades[t[1]].created /\ quotes[i].at < DueAt(t)}
    BY DEF InWindow, Since
  <2>6. \A i \in DOMAIN quotes : quotes'[i] = quotes[i]
    BY <1>2, <1>3
  <2>7. QED
    BY <1>5, <1>6, <2>1, <2>3, <2>4, <2>5, <2>6
<1>9. /\ review.todo \subseteq Tasks
      /\ review.pc # "poll" => review.task \in Tasks
      /\ now' \in Nat /\ now <= now'
  BY <1>1, <1>4 DEF IndInv, InHand
<1>10. QED
  <2>1. /\ \A t \in review.todo : DueAt(t) <= now
        /\ review.pc # "poll" => DueAt(review.task) <= now
        /\ review.pc = "write" => Sees(review.task, review.result)
        /\ \A t \in Tasks : \A i \in DOMAIN results[t] : DueAt(t) <= now /\ Sees(t, results[t][i])
    BY DEF SeeInv
  <2>2. review' = review /\ results' = results /\ Tasks' = Tasks
    BY <1>1
  <2>3. QED
    BY <1>7, <1>8, <1>9, <2>1, <2>2, SeeStays

LEMMA TickSees == IndInv /\ SeeInv /\ (Tick \/ UNCHANGED vars) => SeeInv'
<1> SUFFICES ASSUME IndInv, SeeInv, Tick \/ UNCHANGED vars PROVE SeeInv'
  OBVIOUS
<1>1. /\ UNCHANGED <<quotes, trades, results, review>> /\ Tasks' = Tasks
  BY DEF Tick, vars, tables, Tasks, Placed
<1>2. now \in Nat
  BY DEF IndInv, TablesType
<1>3. now' \in Nat /\ now <= now'
  BY <1>2 DEF Tick, vars
<1>4. \A t \in Tasks : DueAt(t)' = DueAt(t) /\ InWindow(t)' = InWindow(t)
  BY <1>1 DEF DueAt, InWindow, Since
<1>5. InTime'
  <2>1. \A i \in DOMAIN quotes : quotes[i].at \in Nat
    BY QuotesFinite DEF IndInv
  <2>2. QED
    BY <1>1, <1>2, <1>3, <2>1 DEF SeeInv, InTime
<1>6. review.todo \subseteq Tasks /\ (review.pc # "poll" => review.task \in Tasks)
  BY DEF IndInv, InHand
<1>7. QED
  BY <1>1, <1>3, <1>4, <1>5, <1>6, SeeStays DEF SeeInv

LEMMA StepSees == IndInv /\ SeeInv /\ [Next]_vars => SeeInv'
BY ReviewStepSees, PlaceSees, CollectSees, TickSees DEF Next

LEMMA AlwaysSees == Spec => [](IndInv /\ SeeInv)
BY InitHolds, StepKeepsInv, SeeAtFirst, StepSees, PTL DEF Spec

\* A review has seen every price of its window, unless the window holds more
\* snapshots than the LIMIT of market_window: nothing else, no late round, no
\* failure and no restart, makes it miss one.
THEOREM OnlyTheLimitHides ==
    Spec => [](\A t \in Tasks : \A i \in DOMAIN results[t] :
                  Cardinality(InWindow(t)) <= WindowLimit
                      => results[t][i].checked >= Cardinality(InWindow(t)))
<1>1. IndInv /\ SeeInv => \A t \in Tasks : \A i \in DOMAIN results[t] :
                              Cardinality(InWindow(t)) <= WindowLimit
                                  => results[t][i].checked >= Cardinality(InWindow(t))
  BY DEF SeeInv, Sees
<1>2. QED
  BY <1>1, AlwaysSees, PTL

-----------------------------------------------------------------------------
(* How many snapshots a window holds *)

LEMMA Least ==
    ASSUME NEW T, T \subseteq Nat, T # {}
    PROVE  \E n \in T : \A m \in T : n <= m
<1> DEFINE R == OpToRel(<, Nat)
<1>1. IsWellFoundedOn(R, Nat)
  BY NatLessThanWellFounded
<1>2. \A m, n \in Nat : m < n => <<m, n>> \in R
  BY DEF OpToRel
<1> HIDE DEF R
<1>3. PICK n \in T : \A m \in T : ~(<<m, n>> \in R)
  BY <1>1, WFMin
<1>4. \A m \in T : ~(m < n)
  BY <1>2, <1>3
<1>5. \A m \in T : n <= m
  BY <1>4
<1>6. QED
  BY <1>5

LEMMA Induct ==
    ASSUME NEW N \in Nat, NEW T, 0 \in T, \A n \in 0..(N - 1) : n \in T => n + 1 \in T
    PROVE  \A n \in 0..N : n \in T
<1> DEFINE rest == {n \in 0..N : n \notin T}
<1>1. ASSUME rest # {} PROVE FALSE
  <2>1. rest \subseteq Nat
    OBVIOUS
  <2> HIDE DEF rest
  <2>2. PICK n \in rest : \A m \in rest : n <= m
    BY <1>1, <2>1, Least
  <2>3. n \in 1..N /\ n \notin T
    BY <2>2 DEF rest
  <2>4. n - 1 \in 0..(N - 1) /\ n - 1 \notin rest /\ n - 1 + 1 = n
    BY <2>1, <2>2, <2>3
  <2>5. n - 1 \in T
    BY <2>3, <2>4 DEF rest
  <2>6. QED
    BY <2>3, <2>4, <2>5
<1>2. QED
  BY <1>1

\* The collector takes Rate snapshots in a unit of time, at most.
RateKept == \A time \in Nat : Cardinality({i \in DOMAIN quotes : quotes[i].at = time}) <= Rate

LEMMA RateAtFirst == Init => RateKept
<1> SUFFICES ASSUME Init, NEW time \in Nat
             PROVE  Cardinality({i \in DOMAIN quotes : quotes[i].at = time}) <= Rate
  BY DEF RateKept
<1> DEFINE at == {i \in DOMAIN quotes : quotes[i].at = time}
<1>1. at = {}
  BY DEF Init
<1> HIDE DEF at
<1>2. Cardinality(at) = 0
  BY <1>1, FS_EmptySet
<1>3. QED
  BY <1>2 DEF at

LEMMA RateStays == IndInv /\ RateKept /\ [Next]_vars => RateKept'
<1> SUFFICES ASSUME IndInv, RateKept, [Next]_vars PROVE RateKept'
  OBVIOUS
<1>1. ASSUME NEW price \in Prices, Collect(price) PROVE RateKept'
  <2> SUFFICES ASSUME NEW time \in Nat
               PROVE  Cardinality({i \in DOMAIN quotes' : quotes'[i].at = time}) <= Rate
    BY DEF RateKept
  <2> DEFINE at == {i \in DOMAIN quotes : quotes[i].at = time}
             quote == [at |-> now, price |-> price]
             n == Len(quotes) + 1
  <2>1. /\ Len(quotes) \in Nat /\ DOMAIN quotes = 1..Len(quotes) /\ quotes \in Seq(Quote)
        /\ IsFiniteSet(DOMAIN quotes)
    BY QuotesFinite DEF IndInv, TablesType
  <2>2. /\ quotes' = Append(quotes, quote) /\ quote.at = now
        /\ Cardinality({i \in DOMAIN quotes : quotes[i].at = now}) < Rate
    BY <1>1 DEF Collect
  <2>3. at \subseteq DOMAIN quotes /\ IsFiniteSet(at) /\ Cardinality(at) \in Nat
    <3>1. at \subseteq DOMAIN quotes
      OBVIOUS
    <3> HIDE DEF at
    <3>2. QED
      BY <2>1, <3>1, FS_Subset, FS_CardinalityType
  <2> HIDE DEF quote
  <2>4. /\ DOMAIN quotes' = 1..n /\ quotes'[n] = quote
        /\ \A i \in 1..Len(quotes) : quotes'[i] = quotes[i]
    BY <2>1, <2>2
  <2>5. \A i \in 1..n : i \in DOMAIN quotes \/ i = n
    BY <2>1
  <2>6. n \notin DOMAIN quotes /\ n \in 1..n /\ \A i \in DOMAIN quotes : i \in 1..n
    BY <2>1
  <2> HIDE DEF n
  <2>7. CASE time = now
    <3>1. {i \in DOMAIN quotes' : quotes'[i].at = time} = at \cup {n}
      BY <2>1, <2>2, <2>4, <2>5, <2>6, <2>7
    <3>2. n \notin at
      BY <2>6
    <3>3. Cardinality(at) < Rate /\ Rate \in Nat
      BY <2>2, <2>7
    <3> HIDE DEF at
    <3>4. Cardinality(at \cup {n}) = Cardinality(at) + 1
      BY <2>3, <3>2, FS_AddElement
    <3>5. Cardinality(at \cup {n}) <= Rate
      BY <2>3, <3>3, <3>4
    <3>6. QED
      BY <3>1, <3>5
  <2>8. CASE time # now
    <3>1. {i \in DOMAIN quotes' : quotes'[i].at = time} = at
      BY <2>1, <2>2, <2>4, <2>5, <2>6, <2>8
    <3>2. QED
      BY <3>1 DEF RateKept
  <2>9. QED
    BY <2>7, <2>8
<1>2. CASE UNCHANGED quotes
  BY <1>2 DEF RateKept
<1>3. ReviewStep \/ Restart \/ Tick \/ UNCHANGED vars => UNCHANGED quotes
  BY DEF ReviewStep, Poll, Read, Skip, ReviewFails, Write, FailTask, Restart, Tick, vars
<1>4. ASSUME NEW d \in Decisions, NEW plan \in Plans, Place(d, plan) PROVE UNCHANGED quotes
  BY <1>4 DEF Place
<1>5. QED
  BY <1>1, <1>2, <1>3, <1>4 DEF Next

\* A window of w units of time holds Rate times w snapshots, at most.
LEMMA FewInWindow ==
    ASSUME TablesType, RateKept, NEW t \in Tasks
    PROVE  Cardinality(InWindow(t)) \in Nat /\ Cardinality(InWindow(t)) <= Rate * t[2]
<1> DEFINE c == trades[t[1]].created
           w == t[2]
           Upto(k) == {j \in Since(t[1]) : quotes[j].at < c + k}
           T == {k \in 0..w : Cardinality(Upto(k)) <= Rate * k}
<1>1. c \in Nat /\ w \in Nat /\ DueAt(t) = c + w
  BY DueAtType
<1>2. InWindow(t) = Upto(w)
  BY <1>1 DEF InWindow
<1>3. Since(t[1]) = {i \in DOMAIN quotes : quotes[i].at >= c}
  BY DEF Since
<1>4. IsFiniteSet(DOMAIN quotes) /\ \A i \in DOMAIN quotes : quotes[i].at \in Nat
  BY QuotesFinite
<1> HIDE DEF c, w
<1>5. ASSUME NEW k \in Nat PROVE IsFiniteSet(Upto(k)) /\ Cardinality(Upto(k)) \in Nat
  <2>1. Upto(k) \subseteq DOMAIN quotes
    BY <1>3
  <2> HIDE DEF Upto
  <2>2. QED
    BY <1>4, <2>1, FS_Subset, FS_CardinalityType
<1>6. 0 \in T
  <2>1. Upto(0) = {}
    BY <1>1, <1>3, <1>4
  <2>2. Cardinality(Upto(0)) = 0
    BY <2>1, FS_EmptySet
  <2>3. 0 \in 0..w /\ Rate * 0 = 0
    BY <1>1
  <2>4. QED
    BY <2>2, <2>3
<1>7. ASSUME NEW k \in 0..(w - 1), k \in T PROVE k + 1 \in T
  <2> DEFINE slice == {i \in DOMAIN quotes : quotes[i].at = c + k}
  <2>1. k \in Nat /\ k + 1 \in 0..w /\ c + k \in Nat
    BY <1>1
  <2>2. Upto(k + 1) \subseteq Upto(k) \cup slice
    BY <1>1, <1>3, <1>4, <2>1
  <2>3. Cardinality(slice) <= Rate /\ Rate \in Nat
    BY <2>1 DEF RateKept
  <2>4. Cardinality(Upto(k)) <= Rate * k
    BY <1>7
  <2>5. IsFiniteSet(Upto(k)) /\ IsFiniteSet(Upto(k + 1)) /\ Cardinality(Upto(k)) \in Nat
        /\ Cardinality(Upto(k + 1)) \in Nat
    <3> HIDE DEF Upto
    <3>1. k + 1 \in Nat
      BY <2>1
    <3>2. QED
      BY <1>5, <2>1, <3>1
  <2>6. slice \subseteq DOMAIN quotes
    OBVIOUS
  <2> HIDE DEF slice, Upto
  <2>7. IsFiniteSet(slice) /\ Cardinality(slice) \in Nat
    BY <1>4, <2>6, FS_Subset, FS_CardinalityType
  <2>8. /\ IsFiniteSet(Upto(k) \cup slice)
        /\ Cardinality(Upto(k) \cup slice) <= Cardinality(Upto(k)) + Cardinality(slice)
    <3>1. /\ IsFiniteSet(Upto(k) \cup slice)
          /\ Cardinality(Upto(k) \cup slice) =
                Cardinality(Upto(k)) + Cardinality(slice) - Cardinality(Upto(k) \cap slice)
      BY <2>5, <2>7, FS_Union
    <3>2. Cardinality(Upto(k) \cap slice) \in Nat
      BY <2>5, FS_Intersection, FS_CardinalityType
    <3>3. QED
      BY <2>5, <2>7, <3>1, <3>2
  <2>9. /\ Cardinality(Upto(k + 1)) <= Cardinality(Upto(k) \cup slice)
        /\ Cardinality(Upto(k) \cup slice) \in Nat
    BY <2>2, <2>8, FS_Subset, FS_CardinalityType
  <2>10. Rate * (k + 1) = Rate * k + Rate /\ Rate * k \in Nat
    BY <2>1, <2>3
  <2>11. Cardinality(Upto(k + 1)) <= Rate * (k + 1)
    BY <2>3, <2>4, <2>5, <2>7, <2>8, <2>9, <2>10
  <2>12. QED
    BY <2>1, <2>11
<1>8. Cardinality(Upto(w)) \in Nat
  BY <1>1, <1>5
<1> HIDE DEF T
<1>9. \A k \in 0..w : k \in T
  BY <1>1, <1>6, <1>7, Induct
<1>10. w \in T
  BY <1>1, <1>9
<1>11. Cardinality(Upto(w)) <= Rate * w
  BY <1>10 DEF T
<1> HIDE DEF Upto
<1>12. QED
  BY <1>2, <1>8, <1>11 DEF w

\* Of a window that fits the LIMIT at the collector's rate, as those of 24 and
\* 48 hours do (1440 and 2880 snapshots a minute apart, of 5000), each review
\* has seen every price, whatever other windows there are.
THEOREM ShortWindowsAreSeen == Spec => []ShortWindowIsSeen
<1>1. ASSUME TablesType, SeeInv, RateKept PROVE ShortWindowIsSeen
  <2> SUFFICES ASSUME NEW t \in Tasks, Rate * t[2] <= WindowLimit, NEW i \in DOMAIN results[t]
               PROVE  results[t][i].checked >= Cardinality(InWindow(t))
    BY DEF ShortWindowIsSeen, InWindow
  <2>1. t[2] \in Windows /\ t[2] \in Nat
    BY <1>1, DueAtType
  <2>2. Rate * t[2] <= WindowLimit /\ Rate * t[2] \in Int /\ WindowLimit \in Nat
    BY <2>1
  <2>3. Cardinality(InWindow(t)) \in Nat /\ Cardinality(InWindow(t)) <= Rate * t[2]
    BY <1>1, FewInWindow
  <2>4. Cardinality(InWindow(t)) <= WindowLimit
    BY <2>2, <2>3
  <2>5. results[t][i] \in Result
    BY <1>1 DEF TablesType
  <2>6. results[t][i].checked \in Nat
    BY <2>5 DEF Result
  <2>7. QED
    BY <1>1, <2>3, <2>4, <2>6 DEF SeeInv, Sees
<1>2. IndInv /\ SeeInv /\ RateKept => ShortWindowIsSeen
  BY <1>1 DEF IndInv
<1>3. QED
  BY <1>2, AlwaysSees, InitHolds, StepKeepsInv, RateAtFirst, RateStays, PTL DEF Spec
=============================================================================
