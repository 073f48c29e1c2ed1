----------------------------- MODULE PaperBroker -----------------------------
(***************************************************************************)
(* The paper broker (run_paper_broker): the worker that polls the database *)
(* for approved decisions without an order and asks the order service to   *)
(* place them, one after the other.                                        *)
(*                                                                         *)
(* It composes with PaperOrder: a request of the broker is a place request *)
(* that runs on in the control API whether or not the broker still waits   *)
(* for it.  The HTTP client gives up after 20 seconds.                     *)
(***************************************************************************)
EXTENDS PaperOrder, SequencesExt

CONSTANTS
    Limit,          \* LIMIT of approved_decisions_without_order
    Timeouts,       \* a place may take longer than the client waits
    MaxRestarts     \* bound on the restarts of the broker

ASSUME BrokerAssumption ==
    /\ Limit \in Nat \ {0}
    /\ Timeouts \in BOOLEAN
    /\ MaxRestarts \in Nat

VARIABLES
    broker,     \* the broker's loop
    restarts    \* how often it was restarted

brokerVars == <<vars, broker, restarts>>

Polling == [pc |-> "poll", queue |-> <<>>, call |-> None]

BrokerTypeOK ==
    /\ broker.pc \in {"poll", "send", "await"}
    /\ broker.queue \in Seq(Tradable)
    /\ broker.call \in PlaceCalls \cup {None}
    /\ restarts \in 0..MaxRestarts

-----------------------------------------------------------------------------
(* approved_decisions_without_order *)

\* The rows of the join: one per approval of a decision without an order.
Waiting == {g \in grants : OrdersOf(g.decision) = {}}

\* ORDER BY approved_at: equal ones come in any order.
Sorted == {rows \in SetToSeqs(Waiting) :
              \A i, j \in DOMAIN rows : i < j => rows[i].at <= rows[j].at}

Count(rows) == IF Len(rows) < Limit THEN Len(rows) ELSE Limit

\* What the query may answer: the decisions of the first Limit rows.
Answers == {[i \in 1..Count(rows) |-> rows[i].decision] : rows \in Sorted}

-----------------------------------------------------------------------------
(* run_paper_broker *)

BrokerInit == Init /\ broker = Polling /\ restarts = 0

\* One round begins.  A query that fails, like one without a row, leaves the
\* broker to its sleep.
Poll ==
    /\ broker.pc = "poll"
    /\ \E queue \in Answers :
          /\ queue # <<>>
          /\ broker' = [broker EXCEPT !.pc = "send", !.queue = queue]
    /\ UNCHANGED <<vars, restarts>>

\* place_paper_order: the request reaches the control API.
Send(c) ==
    /\ broker.pc = "send"
    /\ Begin(c, Head(broker.queue), DefaultKey(Head(broker.queue)))
    /\ broker' = [broker EXCEPT !.pc = "await", !.call = c]
    /\ UNCHANGED restarts

\* Mutant of NextDecision: whatever ends a request ends the round.
NextRound ==
    /\ broker' = Polling
    /\ UNCHANGED <<vars, restarts>>

\* On to the next decision of the round, or to the next round.  A rejection,
\* an error and a fill all end here: the broker only notifies and logs.
NextDecision ==
    /\ broker' = IF Len(broker.queue) = 1
                 THEN Polling
                 ELSE [pc |-> "send", queue |-> Tail(broker.queue), call |-> None]
    /\ UNCHANGED <<vars, restarts>>

Answered ==
    /\ broker.pc = "await"
    /\ places[broker.call].pc = "idle"
    /\ NextDecision

\* httpx gives up; the request goes on in the control API.
TimeOut ==
    /\ Timeouts
    /\ broker.pc = "await"
    /\ places[broker.call].pc # "idle"
    /\ NextDecision

\* The worker is restarted: its queue is gone.
Restart ==
    /\ restarts < MaxRestarts
    /\ broker # Polling
    /\ broker' = Polling
    /\ restarts' = restarts + 1
    /\ UNCHANGED vars

BrokerStep == Poll \/ (\E c \in PlaceCalls : Send(c)) \/ Answered \/ TimeOut

World ==
    /\ \/ \E c \in PlaceCalls : PlaceStep(c)
       \/ GateStep
       \/ \E o \in OrderIds : ClosePosition(o)
       \/ NewSnapshot
       \/ Tick
    /\ UNCHANGED <<broker, restarts>>

BrokerNext == BrokerStep \/ Restart \/ World

\* The event loop keeps running the broker, and the control API every request
\* it has accepted.
Fairness ==
    /\ WF_brokerVars(BrokerStep)
    /\ \A c \in PlaceCalls : WF_brokerVars(Work(c) /\ UNCHANGED <<broker, restarts>>)

BrokerSpec == BrokerInit /\ [][BrokerNext]_brokerVars /\ Fairness

-----------------------------------------------------------------------------
(* Properties *)

WaitingDecisions == {g.decision : g \in Waiting}

\* Every approved decision without an order is eventually asked for
\* (runbook.md: once confirmed, the broker calls /api/v1/orders/paper within
\* its 20 second poll), however many approved before it were rejected.
ApprovedIsTried ==
    \A d \in Tradable :
        d \in WaitingDecisions ~> \E c \in PlaceCalls : places[c].decision = d
=============================================================================
