----------------------------- MODULE AgentWorker -----------------------------
(***************************************************************************)
(* The agent worker (agent.py): it takes new trade signals, has the        *)
(* control API decide on each (DecisionService.create) and asks it for an  *)
(* approval of those that pass.                                            *)
(*                                                                         *)
(* Each database call of the worker commits on its own and may fail, with  *)
(* or without effect.  An HTTP call is served in the control API whether   *)
(* or not the worker still waits for it.                                   *)
(*                                                                         *)
(*   poll --new_signals--> take --mark--> prepare --POST--> decide -->     *)
(*     decided --POST--> request --> settle --mark--> notify --> next      *)
(*                                                                         *)
(* and an exception anywhere goes to fail, where safe_mark ends the signal.*)
(***************************************************************************)
EXTENDS Integers, FiniteSets, Sequences

CONSTANTS
    Limit,          \* LIMIT of new_signals
    LostCalls,      \* an HTTP call may time out, before or after its effect
    MaxSignals,     \* bound on the signals
    MaxFaults,      \* bound on the failures of the worker's database and messages
    MaxRestarts,    \* bound on the restarts of the worker
    None            \* the absent value

ASSUME BoundsAssumption ==
    /\ Limit \in Nat \ {0}
    /\ LostCalls \in BOOLEAN
    /\ MaxSignals \in Nat /\ MaxFaults \in Nat /\ MaxRestarts \in Nat
ASSUME NoneAssumption == None \notin Nat

VARIABLES
    signals,    \* trade_signal: the status of each, in the order of created_at
    decisions,  \* decision_log: signal -> row, for the signals that have one
    requests,   \* the signals whose decision has an approval_request
    inflight,   \* HTTP calls the control API has yet to end
    agent,      \* the worker's loop
    told,       \* the signals the operator was told the outcome of
    sends,      \* history: decisions asked for each signal, up to two
    faults,     \* failures so far
    restarts    \* restarts so far

server == <<decisions, requests, inflight>>
vars == <<signals, server, agent, told, sends, faults, restarts>>

-----------------------------------------------------------------------------
(* Types *)

Settled == {"AWAITING_APPROVAL", "APPROVAL_REQUEST_FAILED", "RISK_REJECTED", "AGENT_FAILED"}

Status == {"NEW", "PROCESSING"} \cup Settled

Decision == [risk : {"PASS", "REJECTED"}, valid : BOOLEAN]

\* RiskCheckResult, as create answers it.
Answer == [status : {"PASS", "REJECTED"}, passed : BOOLEAN]

Ids == DOMAIN signals

Agent == [pc     : {"poll", "take", "prepare", "decide", "decided", "request",
                    "settle", "notify", "fail"},
          todo   : SUBSET Nat,              \* signals of the round still to do
          signal : Nat \cup {None},
          answer : Answer \cup {None},
          target : Settled \cup {None}]     \* the status to settle the signal with

Polling == [pc |-> "poll", todo |-> {}, signal |-> None, answer |-> None, target |-> None]

TypeOK ==
    /\ signals \in Seq(Status)
    /\ DOMAIN decisions \subseteq Ids
    /\ decisions \in [DOMAIN decisions -> Decision]
    /\ requests \subseteq DOMAIN decisions
    /\ inflight \subseteq [kind : {"decide", "request"}, signal : Ids]
    /\ agent \in Agent
    /\ agent.todo \subseteq Ids
    /\ agent.signal \in Ids \cup {None}
    /\ told \subseteq Ids
    /\ sends \in [1..MaxSignals -> 0..2]
    /\ faults \in 0..MaxFaults
    /\ restarts \in 0..MaxRestarts

-----------------------------------------------------------------------------
(* Reading the state *)

New == {s \in Ids : signals[s] = "NEW"}

\* new_signals: the oldest ones, up to the limit.
Oldest == {s \in New : Cardinality({t \in New : t < s}) < Limit}

\* What validateAgentJson and RiskService.check make of a signal's decision:
\* an invalid one is rejected, and its answer carries passed = true.
Answered(risk, valid) ==
    IF valid THEN [status |-> risk, passed |-> risk = "PASS"]
    ELSE [status |-> "REJECTED", passed |-> TRUE]

Waits(kind, s) == agent.pc = kind /\ agent.signal = s

-----------------------------------------------------------------------------
(* Initial state: no signal yet *)

Init ==
    /\ signals = <<>>
    /\ decisions = [s \in {} |-> {}]
    /\ requests = {}
    /\ inflight = {}
    /\ agent = Polling
    /\ told = {}
    /\ sends = [s \in 1..MaxSignals |-> 0]
    /\ faults = 0
    /\ restarts = 0

-----------------------------------------------------------------------------
(* run_agent and handle_signal *)

\* Goes on with the oldest signal of those still to do.
Turn(todo) ==
    \/ todo = {} /\ agent' = Polling
    \/ \E s \in todo :
         /\ \A t \in todo : s <= t
         /\ agent' = [pc |-> "take", todo |-> todo \ {s}, signal |-> s,
                      answer |-> None, target |-> None]

NextSignal == Turn(agent.todo)

\* An exception leaves handle_signal.
Raise == agent' = [agent EXCEPT !.pc = "fail"]

\* mark_signal(signal, status): it is written and goes on, or the call fails,
\* be it before or after the status was written.
Mark(status, GoOn) ==
    \/ /\ signals' = [signals EXCEPT ![agent.signal] = status]
       /\ GoOn
       /\ UNCHANGED faults
    \/ /\ faults < MaxFaults
       /\ faults' = faults + 1
       /\ signals' \in {signals, [signals EXCEPT ![agent.signal] = status]}
       /\ Raise

\* new_signals, and on to the first of them, if any.
Poll ==
    /\ agent.pc = "poll"
    /\ Turn(Oldest)
    /\ UNCHANGED <<signals, server, told, sends, faults, restarts>>

\* Mutant of Take: the signal is not marked.
TakeUnmarked ==
    /\ agent.pc = "take"
    /\ agent' = [agent EXCEPT !.pc = "prepare"]
    /\ UNCHANGED <<signals, faults, server, told, sends, restarts>>

Take ==
    /\ agent.pc = "take"
    /\ Mark("PROCESSING", agent' = [agent EXCEPT !.pc = "prepare"])
    /\ UNCHANGED <<server, told, sends, restarts>>

\* The embedding, the recalls and the message to the model are made, and the
\* decision is asked for.
Prepare ==
    /\ agent.pc = "prepare"
    /\ inflight' = inflight \cup {[kind |-> "decide", signal |-> agent.signal]}
    /\ sends' = [sends EXCEPT ![agent.signal] = IF @ = 0 THEN 1 ELSE 2]
    /\ agent' = [agent EXCEPT !.pc = "decide"]
    /\ UNCHANGED <<signals, decisions, requests, told, faults, restarts>>

\* A query fails.  A failing embedding service does not come here: embed falls
\* back on a local embedding.
PrepareFails ==
    /\ agent.pc = "prepare"
    /\ Raise
    /\ UNCHANGED <<signals, server, told, sends, faults, restarts>>

\* Mutant of Decided: looks at passed.
DecidedByPassed ==
    /\ agent.pc = "decided"
    /\ \/ /\ agent.answer.passed
          /\ inflight' = inflight \cup {[kind |-> "request", signal |-> agent.signal]}
          /\ agent' = [agent EXCEPT !.pc = "request"]
       \/ /\ ~agent.answer.passed
          /\ agent' = [agent EXCEPT !.pc = "settle", !.target = "RISK_REJECTED"]
          /\ UNCHANGED inflight
    /\ UNCHANGED <<signals, decisions, requests, told, sends, faults, restarts>>

\* Mutant of Decided: settles with the status of the answer.
DecidedAsAnswered ==
    /\ agent.pc = "decided"
    /\ \/ /\ agent.answer.status = "PASS"
          /\ inflight' = inflight \cup {[kind |-> "request", signal |-> agent.signal]}
          /\ agent' = [agent EXCEPT !.pc = "request"]
       \/ /\ agent.answer.status # "PASS"
          /\ agent' = [agent EXCEPT !.pc = "settle", !.target = agent.answer.status]
          /\ UNCHANGED inflight
    /\ UNCHANGED <<signals, decisions, requests, told, sends, faults, restarts>>

\* A decision that passed needs an approval, the others are settled.
Decided ==
    /\ agent.pc = "decided"
    /\ \/ /\ agent.answer.status = "PASS"
          /\ inflight' = inflight \cup {[kind |-> "request", signal |-> agent.signal]}
          /\ agent' = [agent EXCEPT !.pc = "request"]
       \/ /\ agent.answer.status # "PASS"
          /\ agent' = [agent EXCEPT !.pc = "settle", !.target = "RISK_REJECTED"]
          /\ UNCHANGED inflight
    /\ UNCHANGED <<signals, decisions, requests, told, sends, faults, restarts>>

\* What an HTTP call that failed does to the worker: for want of a decision
\* the signal fails, for want of an approval it is settled as such.
CallFails ==
    \/ agent.pc = "decide" /\ Raise
    \/ /\ agent.pc = "request"
       /\ agent' = [agent EXCEPT !.pc = "settle", !.target = "APPROVAL_REQUEST_FAILED"]

TimeOut ==
    /\ LostCalls
    /\ CallFails
    /\ UNCHANGED <<signals, server, told, sends, faults, restarts>>

\* Mutant of Settle: a failed request for an approval is only logged.
SettleUnlessFailed ==
    /\ agent.pc = "settle"
    /\ IF agent.target = "APPROVAL_REQUEST_FAILED"
       THEN NextSignal /\ UNCHANGED <<signals, faults>>
       ELSE Mark(agent.target, agent' = [agent EXCEPT !.pc = "notify"])
    /\ UNCHANGED <<server, told, sends, restarts>>

\* The final mark; a failed request for an approval is not announced.
Settle ==
    /\ agent.pc = "settle"
    /\ Mark(agent.target, IF agent.target = "APPROVAL_REQUEST_FAILED"
                          THEN NextSignal
                          ELSE agent' = [agent EXCEPT !.pc = "notify"])
    /\ UNCHANGED <<server, told, sends, restarts>>

\* Mutant of Notify: a failed message fails the signal.
NotifyOrRaise ==
    /\ agent.pc = "notify"
    /\ \/ /\ told' = told \cup {agent.signal}
          /\ NextSignal
          /\ UNCHANGED faults
       \/ /\ faults < MaxFaults
          /\ faults' = faults + 1
          /\ told' \in {told, told \cup {agent.signal}}
          /\ Raise
    /\ UNCHANGED <<signals, server, sends, restarts>>

\* safe_notify: the message is sent to Telegram and then to the webhook, and
\* a failure of either, with or without the first, is logged.
Notify ==
    /\ agent.pc = "notify"
    /\ \/ /\ told' = told \cup {agent.signal}
          /\ UNCHANGED faults
       \/ /\ faults < MaxFaults
          /\ faults' = faults + 1
          /\ told' \in {told, told \cup {agent.signal}}
    /\ NextSignal
    /\ UNCHANGED <<signals, server, sends, restarts>>

\* run_agent's handler: safe_mark, whose own failure is suppressed.
FailSignal ==
    /\ agent.pc = "fail"
    /\ \/ /\ signals' = [signals EXCEPT ![agent.signal] = "AGENT_FAILED"]
          /\ UNCHANGED faults
       \/ /\ faults < MaxFaults
          /\ faults' = faults + 1
          /\ UNCHANGED signals
    /\ NextSignal
    /\ UNCHANGED <<server, told, sends, restarts>>

\* The worker is restarted: new_signals failed, or the process was stopped.
Restart ==
    /\ restarts < MaxRestarts
    /\ agent # Polling
    /\ agent' = Polling
    /\ restarts' = restarts + 1
    /\ UNCHANGED <<signals, server, told, sends, faults>>

-----------------------------------------------------------------------------
(* The control API *)

\* The worker gets the answer, unless it waits no more or the answer is lost.
Hear(kind, s, GoOn) ==
    \/ Waits(kind, s) /\ GoOn
    \/ (LostCalls \/ ~Waits(kind, s)) /\ UNCHANGED agent

\* DecisionService.create: whatever the rules say of the signal is stored, once
\* (uq_decision_signal).
ServeDecide(s, risk, valid) ==
    LET answer == Answered(risk, valid) IN
    /\ [kind |-> "decide", signal |-> s] \in inflight
    /\ s \notin DOMAIN decisions
    /\ decisions' = [t \in DOMAIN decisions \cup {s} |->
                        IF t = s THEN [risk |-> answer.status, valid |-> valid] ELSE decisions[t]]
    /\ inflight' = inflight \ {[kind |-> "decide", signal |-> s]}
    /\ Hear("decide", s, agent' = [agent EXCEPT !.pc = "decided", !.answer = answer])
    /\ UNCHANGED <<signals, requests, told, sends, faults, restarts>>

\* ApprovalService.create, which asks for a decision that passed.
ServeRequest(s) ==
    /\ [kind |-> "request", signal |-> s] \in inflight
    /\ s \in DOMAIN decisions
    /\ decisions[s].risk = "PASS" /\ decisions[s].valid
    /\ s \notin requests
    /\ requests' = requests \cup {s}
    /\ inflight' = inflight \ {[kind |-> "request", signal |-> s]}
    /\ Hear("request", s, agent' = [agent EXCEPT !.pc = "settle", !.target = "AWAITING_APPROVAL"])
    /\ UNCHANGED <<signals, decisions, told, sends, faults, restarts>>

\* The call ends with an error and leaves nothing behind.
Refuse(call) ==
    /\ call \in inflight
    /\ inflight' = inflight \ {call}
    /\ Hear(call.kind, call.signal, CallFails)
    /\ UNCHANGED <<signals, decisions, requests, told, sends, faults, restarts>>

-----------------------------------------------------------------------------
(* The strategy worker *)

\* insert_trade_signal
Arrive ==
    /\ Len(signals) < MaxSignals
    /\ signals' = Append(signals, "NEW")
    /\ UNCHANGED <<server, agent, told, sends, faults, restarts>>

AgentStep ==
    \/ Poll \/ Take \/ Prepare \/ PrepareFails \/ Decided \/ TimeOut
    \/ Settle \/ Notify \/ FailSignal

ServerStep ==
    \/ \E s \in Ids, risk \in {"PASS", "REJECTED"}, valid \in BOOLEAN : ServeDecide(s, risk, valid)
    \/ \E s \in Ids : ServeRequest(s)
    \/ \E call \in inflight : Refuse(call)

Next == AgentStep \/ ServerStep \/ Restart \/ Arrive

\* The event loop runs the worker, and the control API ends every call.
Spec == Init /\ [][Next]_vars /\ WF_vars(AgentStep) /\ WF_vars(ServerStep)

-----------------------------------------------------------------------------
(* Properties *)

\* The control API is asked for a decision on a signal at most once, whatever
\* fails and however often the worker is restarted: no signal is traded twice
\* (handle_signal marks it first; V003: only one decision per signal).
AskedOnce == \A s \in 1..MaxSignals : sends[s] <= 1

\* A settled signal is settled for a reason: one that awaits approval has a
\* request, one that was rejected has a rejected decision, and one whose
\* request failed has a decision that passed (handle_signal).
SettledForAReason ==
    \A s \in Ids :
        /\ signals[s] = "AWAITING_APPROVAL" => s \in requests
        /\ signals[s] = "RISK_REJECTED" =>
              s \in DOMAIN decisions /\ decisions[s].risk = "REJECTED"
        /\ signals[s] = "APPROVAL_REQUEST_FAILED" =>
              s \in DOMAIN decisions /\ decisions[s].risk = "PASS"

\* The operator is told only of signals that stay as he was told: no later
\* failure of the worker marks them otherwise (safe_notify).
ToldStands ==
    \A s \in told : signals[s] \in {"AWAITING_APPROVAL", "RISK_REJECTED"}

\* Handled to the end: the operator has the code of a signal that awaits
\* approval, any other is settled.
Handled(s) ==
    /\ s \in Ids
    /\ signals[s] \in Settled
    /\ signals[s] = "AWAITING_APPROVAL" => s \in told

\* Every signal is handled to the end (README: each signal goes to the agent
\* and to approval), whatever calls to the control API are lost, unless the
\* worker's own database or messages fail or it is restarted.
SignalIsHandled ==
    \A s \in 1..MaxSignals : s \in Ids ~> Handled(s) \/ faults > 0 \/ restarts > 0
=============================================================================
