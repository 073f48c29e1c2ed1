-------------------------- MODULE AgentWorkerProofs --------------------------
(***************************************************************************)
(* Proofs about the agent worker: what its loop knows of the signal in     *)
(* hand is an invariant, and with it every status it settles a signal with *)
(* is earned, whatever fails, times out or restarts; and it never comes    *)
(* back to a signal it has left.                                           *)
(***************************************************************************)
EXTENDS AgentWorker, SequenceTheorems, TLAPS

USE BoundsAssumption, NoneAssumption

-----------------------------------------------------------------------------
(* The inductive invariant *)

AgentType == agent \in Agent /\ agent.todo \subseteq Ids /\ agent.signal \in Ids \cup {None}

\* The signal in hand, and those still to do: the latter are new, the former is
\* marked before anything is asked for it.
InHand ==
    /\ agent.pc # "poll" => agent.signal \in Ids /\ agent.signal \notin agent.todo \cup told
    /\ \A s \in agent.todo : signals[s] = "NEW"
    /\ agent.pc \notin {"poll", "take", "fail"} => signals[agent.signal] # "NEW"
    /\ agent.pc \in {"take", "prepare"} => sends[agent.signal] = 0

\* What the loop heard of the control API is so.
Heard ==
    /\ agent.pc = "decided" =>
          /\ agent.signal \in DOMAIN decisions
          /\ agent.answer \in Answer
          /\ decisions[agent.signal].risk = agent.answer.status
    /\ agent.pc = "request" =>
          agent.signal \in DOMAIN decisions /\ decisions[agent.signal].risk = "PASS"
    /\ agent.pc \in {"settle", "notify"} =>
          /\ agent.target \in {"AWAITING_APPROVAL", "RISK_REJECTED", "APPROVAL_REQUEST_FAILED"}
          /\ agent.target = "AWAITING_APPROVAL" => agent.signal \in requests
          /\ agent.target = "RISK_REJECTED" =>
                agent.signal \in DOMAIN decisions /\ decisions[agent.signal].risk = "REJECTED"
          /\ agent.target = "APPROVAL_REQUEST_FAILED" =>
                agent.signal \in DOMAIN decisions /\ decisions[agent.signal].risk = "PASS"
    /\ agent.pc = "notify" =>
          agent.target # "APPROVAL_REQUEST_FAILED" /\ signals[agent.signal] = agent.target

\* Only marked signals were asked for.
Asked ==
    \A s \in 1..MaxSignals : sends[s] # 0 => sends[s] = 1 /\ s \in Ids /\ signals[s] # "NEW"

AgentInv == AgentType /\ InHand /\ Heard

TablesType ==
    /\ signals \in Seq(Status)
    /\ Len(signals) <= MaxSignals
    /\ DOMAIN decisions \subseteq Ids
    /\ decisions \in [DOMAIN decisions -> Decision]
    /\ requests \subseteq DOMAIN decisions
    /\ inflight \subseteq [kind : {"decide", "request"}, signal : Ids]
    /\ told \subseteq Ids
    /\ sends \in [1..MaxSignals -> 0..2]
    /\ faults \in 0..MaxFaults
    /\ restarts \in 0..MaxRestarts

TablesInv == TablesType /\ Asked /\ SettledForAReason /\ ToldStands

IndInv == AgentInv /\ TablesInv

-----------------------------------------------------------------------------
(* Lemmas *)

\* The positions of the signals are numbers up to MaxSignals.
LEMMA IdsAreNumbers ==
    ASSUME TablesType
    PROVE  Ids = 1..Len(signals) /\ Ids \subseteq 1..MaxSignals /\ Ids \subseteq Nat /\ None \notin Ids
BY DEF TablesType, Ids

\* A marked signal keeps its place, and the others their status.
LEMMA MarkedSignals ==
    ASSUME TablesType, NEW s \in Ids, NEW status \in Status,
           signals' = [signals EXCEPT ![s] = status]
    PROVE  /\ signals' \in Seq(Status) /\ Len(signals') = Len(signals) /\ Ids' = Ids
           /\ signals'[s] = status
           /\ \A t \in Ids \ {s} : signals'[t] = signals[t]
<1>1. s \in 1..Len(signals)
  BY DEF TablesType, Ids
<1>2. signals \in Seq(Status)
  BY DEF TablesType
<1>3. /\ [signals EXCEPT ![s] = status] \in Seq(Status)
      /\ Len([signals EXCEPT ![s] = status]) = Len(signals)
      /\ \A j \in 1..Len(signals) :
            [signals EXCEPT ![s] = status][j] = IF j = s THEN status ELSE signals[j]
  BY <1>1, <1>2, ExceptSeq
<1>4. signals' \in Seq(Status) /\ Len(signals') = Len(signals)
  BY <1>3
<1>5. Ids' = 1..Len(signals) /\ Ids = 1..Len(signals)
  BY <1>2, <1>4 DEF Ids
<1>6. QED
  BY <1>1, <1>3, <1>4, <1>5

\* Going on with the next signal of the round needs only that they are new and
\* nothing was asked for them.
LEMMA TurnKeepsInv ==
    ASSUME NEW todo, Turn(todo), TablesType',
           todo \subseteq Ids',
           \A s \in todo : signals'[s] = "NEW" /\ s \notin told' /\ sends'[s] = 0
    PROVE  AgentInv'
<1>1. CASE agent' = Polling
  <2>1. /\ agent'.pc = "poll" /\ agent'.todo = {} /\ agent'.signal = None
        /\ agent' \in Agent
    BY <1>1 DEF Polling, Agent
  <2>2. QED
    BY <2>1 DEF AgentInv, AgentType, InHand, Heard
<1>2. CASE todo # {} \/ agent' # Polling
  <2>1. PICK s \in todo : agent' = [pc |-> "take", todo |-> todo \ {s}, signal |-> s,
                                    answer |-> None, target |-> None]
    BY <1>2 DEF Turn
  <2>2. Ids' \subseteq Nat
    BY DEF TablesType, Ids
  <2>3. /\ agent'.pc = "take" /\ agent'.todo = todo \ {s} /\ agent'.signal = s
        /\ agent' \in Agent
    BY <2>1, <2>2 DEF Agent
  <2>4. QED
    BY <2>3 DEF AgentInv, AgentType, InHand, Heard
<1>3. QED
  BY <1>1, <1>2

\* The signals still to do are untouched.
LEMMA TodoIsFresh ==
    ASSUME IndInv
    PROVE  /\ agent.todo \subseteq Ids
           /\ \A s \in agent.todo : signals[s] = "NEW" /\ s \notin told /\ sends[s] = 0
<1>1. /\ agent.todo \subseteq Ids
      /\ \A s \in agent.todo : signals[s] = "NEW"
  BY DEF IndInv, AgentInv, AgentType, InHand
<1>2. Ids \subseteq 1..MaxSignals
  BY IdsAreNumbers DEF IndInv, TablesInv
<1>3. QED
  BY <1>1, <1>2 DEF IndInv, TablesInv, Asked, ToldStands

\* A step that leaves the tables alone keeps what is known of them.
LEMMA TablesStay ==
    ASSUME TablesInv, UNCHANGED <<signals, server, told, sends, faults, restarts>>
    PROVE  TablesInv'
BY DEF TablesInv, TablesType, Asked, SettledForAReason, ToldStands, Ids, server

\* What entitles the worker to mark the signal in hand.
Earned(status) ==
    /\ status \in Status \ {"NEW"}
    /\ status = "AWAITING_APPROVAL" => agent.signal \in requests
    /\ status = "RISK_REJECTED" =>
          agent.signal \in DOMAIN decisions /\ decisions[agent.signal].risk = "REJECTED"
    /\ status = "APPROVAL_REQUEST_FAILED" =>
          agent.signal \in DOMAIN decisions /\ decisions[agent.signal].risk = "PASS"

\* An earned mark keeps the tables in order, and the signals still to do.
LEMMA MarkKeepsTables ==
    ASSUME IndInv, agent.pc # "poll", NEW status, Earned(status),
           signals' \in {signals, [signals EXCEPT ![agent.signal] = status]},
           faults' \in 0..MaxFaults,
           UNCHANGED <<server, told, sends, restarts>>
    PROVE  /\ TablesInv'
           /\ Ids' = Ids
           /\ \A s \in agent.todo : signals'[s] = "NEW" /\ s \notin told' /\ sends'[s] = 0
<1>1. /\ agent.signal \in Ids /\ agent.signal \notin agent.todo /\ agent.signal \notin told
      /\ TablesType /\ Asked /\ SettledForAReason /\ ToldStands
      /\ UNCHANGED <<decisions, requests, inflight, told, sends, restarts>>
  BY DEF IndInv, AgentInv, InHand, TablesInv, server
<1>2. CASE signals' = signals
  <2>1. TablesInv' /\ Ids' = Ids
    BY <1>1, <1>2 DEF TablesInv, TablesType, Asked, SettledForAReason, ToldStands, Ids
  <2>2. QED
    BY <1>1, <1>2, <2>1, TodoIsFresh
<1>3. CASE signals' = [signals EXCEPT ![agent.signal] = status]
  <2>1. status \in Status
    BY DEF Earned
  <2>2. /\ signals' \in Seq(Status) /\ Len(signals') = Len(signals) /\ Ids' = Ids
        /\ signals'[agent.signal] = status
        /\ \A t \in Ids \ {agent.signal} : signals'[t] = signals[t]
    BY <1>1, <1>3, <2>1, MarkedSignals
  <2>3. TablesType'
    BY <1>1, <2>2 DEF TablesType
  <2>4. Asked'
    BY <1>1, <2>2 DEF Asked, Earned
  <2>5. SettledForAReason'
    BY <1>1, <2>2 DEF SettledForAReason, Earned
  <2>6. ToldStands'
    BY <1>1, <2>2 DEF ToldStands, TablesType
  <2>7. QED
    BY <1>1, <2>2, <2>3, <2>4, <2>5, <2>6, TodoIsFresh DEF TablesInv
<1>4. QED
  BY <1>2, <1>3

\* After an exception the loop knows only which signal it has in hand.
LEMMA RaiseKeepsInv ==
    ASSUME IndInv, agent.pc # "poll", Raise, Ids' = Ids, told' = told,
           \A s \in agent.todo : signals'[s] = "NEW"
    PROVE  AgentInv'
<1>1. /\ agent \in Agent /\ agent.todo \subseteq Ids /\ agent.signal \in Ids
      /\ agent.signal \notin agent.todo \cup told
  BY DEF IndInv, AgentInv, AgentType, InHand
<1>2. /\ agent'.pc = "fail" /\ agent'.todo = agent.todo /\ agent'.signal = agent.signal
      /\ agent' \in Agent
  BY <1>1 DEF Raise, Agent
<1>3. QED
  BY <1>1, <1>2 DEF AgentInv, AgentType, InHand, Heard

-----------------------------------------------------------------------------
(* The worker's steps *)

LEMMA InitHolds == Init => IndInv
<1> SUFFICES ASSUME Init PROVE IndInv
  OBVIOUS
<1>1. /\ agent.pc = "poll" /\ agent.todo = {} /\ agent.signal = None /\ agent \in Agent
  BY DEF Init, Polling, Agent
<1>2. Ids = {} /\ signals \in Seq(Status) /\ Len(signals) = 0
  BY DEF Init, Ids
<1>3. TablesType
  BY <1>2 DEF Init, TablesType
<1>4. AgentInv
  BY <1>1, <1>2 DEF AgentInv, AgentType, InHand, Heard
<1>5. Asked /\ SettledForAReason /\ ToldStands
  BY <1>2 DEF Init, Asked, SettledForAReason, ToldStands
<1>6. QED
  BY <1>3, <1>4, <1>5 DEF IndInv, TablesInv

LEMMA PollKeepsInv == IndInv /\ Poll => IndInv'
<1> SUFFICES ASSUME IndInv, Poll PROVE IndInv'
  OBVIOUS
<1>1. TablesInv'
  BY TablesStay DEF IndInv, Poll
<1>2. /\ Turn(Oldest) /\ Oldest \subseteq Ids
      /\ \A s \in Oldest : signals[s] = "NEW"
  BY DEF Poll, Oldest, New
<1>3. Ids' = Ids /\ UNCHANGED <<signals, told, sends>>
  BY DEF Poll, Ids
<1>4. Ids \subseteq 1..MaxSignals
  BY IdsAreNumbers DEF IndInv, TablesInv
<1>5. \A s \in Oldest : signals'[s] = "NEW" /\ s \notin told' /\ sends'[s] = 0
  BY <1>2, <1>3, <1>4 DEF IndInv, TablesInv, Asked, ToldStands
<1>6. TablesType'
  BY <1>1 DEF TablesInv
<1>7. AgentInv'
  BY <1>2, <1>3, <1>5, <1>6, TurnKeepsInv
<1>8. QED
  BY <1>1, <1>7 DEF IndInv

LEMMA TakeKeepsInv == IndInv /\ Take => IndInv'
<1> SUFFICES ASSUME IndInv, Take PROVE IndInv'
  OBVIOUS
<1>1. /\ agent \in Agent /\ agent.pc = "take" /\ agent.signal \in Ids
      /\ agent.signal \notin agent.todo \cup told /\ sends[agent.signal] = 0
      /\ agent.todo \subseteq Ids /\ faults \in 0..MaxFaults
      /\ signals \in Seq(Status)
      /\ UNCHANGED <<server, told, sends, restarts>>
  BY DEF IndInv, AgentInv, AgentType, InHand, Take, TablesInv, TablesType
<1>2. Earned("PROCESSING")
  BY DEF Earned, Status, Settled
<1>3. /\ signals' \in {signals, [signals EXCEPT ![agent.signal] = "PROCESSING"]}
      /\ faults' \in 0..MaxFaults
  BY <1>1 DEF Take, Mark
<1>4. /\ TablesInv' /\ Ids' = Ids
      /\ \A s \in agent.todo : signals'[s] = "NEW"
  BY <1>1, <1>2, <1>3, MarkKeepsTables
<1>5. CASE Raise
  BY <1>1, <1>4, <1>5, RaiseKeepsInv DEF IndInv
<1>6. CASE /\ signals' = [signals EXCEPT ![agent.signal] = "PROCESSING"]
           /\ agent' = [agent EXCEPT !.pc = "prepare"]
  <2>1. /\ agent'.pc = "prepare" /\ agent'.todo = agent.todo /\ agent'.signal = agent.signal
        /\ agent' \in Agent
    BY <1>1, <1>6 DEF Agent
  <2>2. signals'[agent.signal] # "NEW"
    BY <1>1, <1>6 DEF Ids
  <2>3. AgentInv'
    BY <1>1, <1>4, <2>1, <2>2 DEF AgentInv, AgentType, InHand, Heard
  <2>4. QED
    BY <1>4, <2>3 DEF IndInv
<1>7. QED
  BY <1>5, <1>6 DEF Take, Mark

LEMMA PrepareKeepsInv == IndInv /\ Prepare => IndInv'
<1> SUFFICES ASSUME IndInv, Prepare PROVE IndInv'
  OBVIOUS
<1>1. /\ agent \in Agent /\ agent.pc = "prepare" /\ agent.signal \in Ids
      /\ agent.signal \notin agent.todo \cup told /\ signals[agent.signal] # "NEW"
      /\ sends[agent.signal] = 0 /\ agent.todo \subseteq Ids
      /\ \A s \in agent.todo : signals[s] = "NEW"
      /\ TablesType /\ Asked /\ SettledForAReason /\ ToldStands
  BY DEF IndInv, AgentInv, AgentType, InHand, Prepare, TablesInv
<1>2. /\ UNCHANGED <<signals, decisions, requests, told, faults, restarts>> /\ Ids' = Ids
      /\ sends' = [sends EXCEPT ![agent.signal] = IF @ = 0 THEN 1 ELSE 2]
      /\ inflight' = inflight \cup {[kind |-> "decide", signal |-> agent.signal]}
  BY DEF Prepare, Ids
<1>3. /\ agent'.pc = "decide" /\ agent'.todo = agent.todo /\ agent'.signal = agent.signal
      /\ agent' \in Agent
  BY <1>1 DEF Prepare, Agent
<1>4. AgentInv'
  BY <1>1, <1>2, <1>3 DEF AgentInv, AgentType, InHand, Heard
<1>5. Ids \subseteq 1..MaxSignals /\ sends \in [1..MaxSignals -> 0..2]
  BY <1>1, IdsAreNumbers DEF TablesType
<1>6. sends' = [sends EXCEPT ![agent.signal] = 1]
  BY <1>1, <1>2, <1>5
<1>7. TablesType'
  BY <1>1, <1>2, <1>5, <1>6 DEF TablesType
<1>8. Asked'
  BY <1>1, <1>2, <1>5, <1>6 DEF Asked
<1>9. SettledForAReason' /\ ToldStands'
  BY <1>1, <1>2 DEF SettledForAReason, ToldStands
<1>10. QED
  BY <1>4, <1>7, <1>8, <1>9 DEF IndInv, TablesInv

LEMMA PrepareFailsKeepsInv == IndInv /\ PrepareFails => IndInv'
<1> SUFFICES ASSUME IndInv, PrepareFails PROVE IndInv'
  OBVIOUS
<1>1. TablesInv' /\ Ids' = Ids /\ told' = told
  BY TablesStay DEF IndInv, PrepareFails, Ids
<1>2. \A s \in agent.todo : signals'[s] = "NEW"
  BY TodoIsFresh DEF PrepareFails
<1>3. AgentInv'
  BY <1>1, <1>2, RaiseKeepsInv DEF PrepareFails
<1>4. QED
  BY <1>1, <1>3 DEF IndInv

LEMMA DecidedKeepsInv == IndInv /\ Decided => IndInv'
<1> SUFFICES ASSUME IndInv, Decided PROVE IndInv'
  OBVIOUS
<1>1. /\ agent \in Agent /\ agent.pc = "decided" /\ agent.signal \in Ids
      /\ agent.signal \notin agent.todo \cup told /\ signals[agent.signal] # "NEW"
      /\ agent.todo \subseteq Ids /\ \A s \in agent.todo : signals[s] = "NEW"
      /\ agent.signal \in DOMAIN decisions /\ agent.answer \in Answer
      /\ decisions[agent.signal].risk = agent.answer.status
      /\ TablesType /\ Asked /\ SettledForAReason /\ ToldStands
  BY DEF IndInv, AgentInv, AgentType, InHand, Heard, Decided, TablesInv
<1>2. /\ UNCHANGED <<signals, decisions, requests, told, sends, faults, restarts>> /\ Ids' = Ids
      /\ inflight' \in {inflight, inflight \cup {[kind |-> "request", signal |-> agent.signal]}}
  BY DEF Decided, Ids
<1>3. TablesInv'
  BY <1>1, <1>2 DEF TablesInv, TablesType, Asked, SettledForAReason, ToldStands
<1>4. CASE agent.answer.status = "PASS" /\ agent' = [agent EXCEPT !.pc = "request"]
  <2>1. /\ agent'.pc = "request" /\ agent'.todo = agent.todo /\ agent'.signal = agent.signal
        /\ agent' \in Agent
    BY <1>1, <1>4 DEF Agent
  <2>2. QED
    BY <1>1, <1>2, <1>3, <1>4, <2>1 DEF IndInv, AgentInv, AgentType, InHand, Heard
<1>5. CASE /\ agent.answer.status # "PASS"
           /\ agent' = [agent EXCEPT !.pc = "settle", !.target = "RISK_REJECTED"]
  <2>1. /\ agent'.pc = "settle" /\ agent'.todo = agent.todo /\ agent'.signal = agent.signal
        /\ agent'.target = "RISK_REJECTED" /\ agent' \in Agent
    BY <1>1, <1>5 DEF Agent, Settled
  <2>2. decisions[agent.signal].risk = "REJECTED"
    BY <1>1, <1>5 DEF Answer
  <2>3. QED
    BY <1>1, <1>2, <1>3, <2>1, <2>2 DEF IndInv, AgentInv, AgentType, InHand, Heard
<1>6. QED
  BY <1>4, <1>5 DEF Decided

\* A failed call leaves the worker with what its failure means.
LEMMA CallFailsKeepsInv ==
    ASSUME IndInv, CallFails, UNCHANGED <<signals, decisions, told, sends>>
    PROVE  AgentInv'
<1>1. Ids' = Ids /\ \A s \in agent.todo : signals'[s] = "NEW"
  BY TodoIsFresh DEF Ids
<1>2. CASE agent.pc = "decide" /\ Raise
  BY <1>1, <1>2, RaiseKeepsInv
<1>3. CASE /\ agent.pc = "request"
           /\ agent' = [agent EXCEPT !.pc = "settle", !.target = "APPROVAL_REQUEST_FAILED"]
  <2>1. /\ agent \in Agent /\ agent.signal \in Ids
        /\ agent.signal \notin agent.todo \cup told /\ signals[agent.signal] # "NEW"
        /\ agent.todo \subseteq Ids
        /\ agent.signal \in DOMAIN decisions /\ decisions[agent.signal].risk = "PASS"
    BY <1>3 DEF IndInv, AgentInv, AgentType, InHand, Heard
  <2>2. /\ agent'.pc = "settle" /\ agent'.todo = agent.todo /\ agent'.signal = agent.signal
        /\ agent'.target = "APPROVAL_REQUEST_FAILED" /\ agent' \in Agent
    BY <1>3, <2>1 DEF Agent, Settled
  <2>3. QED
    BY <1>1, <2>1, <2>2 DEF AgentInv, AgentType, InHand, Heard
<1>4. QED
  BY <1>2, <1>3 DEF CallFails

LEMMA TimeOutKeepsInv == IndInv /\ TimeOut => IndInv'
<1> SUFFICES ASSUME IndInv, TimeOut PROVE IndInv'
  OBVIOUS
<1>1. TablesInv'
  BY TablesStay DEF IndInv, TimeOut
<1>2. AgentInv'
  BY CallFailsKeepsInv DEF TimeOut, server
<1>3. QED
  BY <1>1, <1>2 DEF IndInv

LEMMA SettleKeepsInv == IndInv /\ Settle => IndInv'
<1> SUFFICES ASSUME IndInv, Settle PROVE IndInv'
  OBVIOUS
<1>1. /\ agent \in Agent /\ agent.pc = "settle" /\ agent.signal \in Ids
      /\ agent.signal \notin agent.todo \cup told
      /\ agent.todo \subseteq Ids /\ faults \in 0..MaxFaults
      /\ signals \in Seq(Status)
      /\ UNCHANGED <<server, told, sends, restarts>>
  BY DEF IndInv, AgentInv, AgentType, InHand, Settle, TablesInv, TablesType
<1>2. /\ agent.target \in {"AWAITING_APPROVAL", "RISK_REJECTED", "APPROVAL_REQUEST_FAILED"}
      /\ agent.target = "AWAITING_APPROVAL" => agent.signal \in requests
      /\ agent.target = "RISK_REJECTED" =>
            agent.signal \in DOMAIN decisions /\ decisions[agent.signal].risk = "REJECTED"
      /\ agent.target = "APPROVAL_REQUEST_FAILED" =>
            agent.signal \in DOMAIN decisions /\ decisions[agent.signal].risk = "PASS"
  BY <1>1 DEF IndInv, AgentInv, Heard
<1>3. Earned(agent.target)
  BY <1>2 DEF Earned, Status, Settled
<1>4. /\ signals' \in {signals, [signals EXCEPT ![agent.signal] = agent.target]}
      /\ faults' \in 0..MaxFaults
  BY <1>1 DEF Settle, Mark
<1>5. /\ TablesInv' /\ Ids' = Ids
      /\ \A s \in agent.todo : signals'[s] = "NEW" /\ s \notin told' /\ sends'[s] = 0
  BY <1>1, <1>3, <1>4, MarkKeepsTables
<1>6. CASE Raise
  BY <1>1, <1>5, <1>6, RaiseKeepsInv DEF IndInv
<1>7. CASE NextSignal
  BY <1>1, <1>5, <1>7, TurnKeepsInv DEF NextSignal, IndInv, TablesInv
<1>8. CASE /\ signals' = [signals EXCEPT ![agent.signal] = agent.target]
           /\ agent.target # "APPROVAL_REQUEST_FAILED"
           /\ agent' = [agent EXCEPT !.pc = "notify"]
  <2>1. /\ agent'.pc = "notify" /\ agent'.todo = agent.todo /\ agent'.signal = agent.signal
        /\ agent'.target = agent.target /\ agent' \in Agent
    BY <1>1, <1>8 DEF Agent
  <2>2. signals'[agent.signal] = agent.target
    BY <1>1, <1>8 DEF Ids
  <2>3. UNCHANGED <<decisions, requests, told, sends>>
    BY <1>1 DEF server
  <2>4. AgentType' /\ InHand'
    BY <1>1, <1>2, <1>5, <2>1, <2>2, <2>3 DEF AgentType, InHand
  <2>5. Heard'
    BY <1>2, <1>8, <2>1, <2>2, <2>3 DEF Heard
  <2>6. QED
    BY <1>5, <2>4, <2>5 DEF IndInv, AgentInv
<1>9. QED
  BY <1>6, <1>7, <1>8 DEF Settle, Mark

LEMMA NotifyKeepsInv == IndInv /\ Notify => IndInv'
<1> SUFFICES ASSUME IndInv, Notify PROVE IndInv'
  OBVIOUS
<1>1. /\ agent.pc = "notify" /\ agent.signal \in Ids
      /\ agent.signal \notin agent.todo /\ signals[agent.signal] = agent.target
      /\ agent.target \in {"AWAITING_APPROVAL", "RISK_REJECTED"}
      /\ TablesType /\ Asked /\ SettledForAReason /\ ToldStands
      /\ UNCHANGED <<signals, decisions, requests, inflight, sends, restarts>> /\ Ids' = Ids
  BY DEF IndInv, AgentInv, InHand, Heard, Notify, TablesInv, server, Ids
<1>2. told' \in {told, told \cup {agent.signal}} /\ faults' \in 0..MaxFaults
  BY <1>1 DEF Notify, TablesType
<1>3. TablesType'
  BY <1>1, <1>2 DEF TablesType
<1>4. Asked' /\ SettledForAReason' /\ ToldStands'
  BY <1>1, <1>2 DEF Asked, SettledForAReason, ToldStands
<1>5. /\ agent.todo \subseteq Ids'
      /\ \A s \in agent.todo : signals'[s] = "NEW" /\ s \notin told' /\ sends'[s] = 0
  BY <1>1, <1>2, TodoIsFresh
<1>6. AgentInv'
  BY <1>3, <1>5, TurnKeepsInv DEF Notify, NextSignal
<1>7. QED
  BY <1>3, <1>4, <1>6 DEF IndInv, TablesInv

LEMMA FailSignalKeepsInv == IndInv /\ FailSignal => IndInv'
<1> SUFFICES ASSUME IndInv, FailSignal PROVE IndInv'
  OBVIOUS
<1>1. /\ agent.pc = "fail" /\ agent.todo \subseteq Ids /\ faults \in 0..MaxFaults
      /\ UNCHANGED <<server, told, sends, restarts>>
  BY DEF IndInv, AgentInv, AgentType, FailSignal, TablesInv, TablesType
<1>2. Earned("AGENT_FAILED")
  BY DEF Earned, Status, Settled
<1>3. /\ signals' \in {signals, [signals EXCEPT ![agent.signal] = "AGENT_FAILED"]}
      /\ faults' \in 0..MaxFaults
  BY <1>1 DEF FailSignal
<1>4. /\ TablesInv' /\ Ids' = Ids
      /\ \A s \in agent.todo : signals'[s] = "NEW" /\ s \notin told' /\ sends'[s] = 0
  BY <1>1, <1>2, <1>3, MarkKeepsTables
<1>5. AgentInv'
  BY <1>1, <1>4, TurnKeepsInv DEF FailSignal, NextSignal, TablesInv
<1>6. QED
  BY <1>4, <1>5 DEF IndInv

LEMMA RestartKeepsInv == IndInv /\ Restart => IndInv'
<1> SUFFICES ASSUME IndInv, Restart PROVE IndInv'
  OBVIOUS
<1>1. /\ agent'.pc = "poll" /\ agent'.todo = {} /\ agent'.signal = None /\ agent' \in Agent
  BY DEF Restart, Polling, Agent
<1>2. AgentInv'
  BY <1>1 DEF AgentInv, AgentType, InHand, Heard
<1>3. TablesInv'
  BY DEF IndInv, TablesInv, TablesType, Asked, SettledForAReason, ToldStands, Ids, server, Restart
<1>4. QED
  BY <1>2, <1>3 DEF IndInv

-----------------------------------------------------------------------------
(* The control API and the strategy worker *)

LEMMA RefuseKeepsInv == ASSUME NEW call \in inflight, IndInv, Refuse(call) PROVE IndInv'
<1>1. /\ UNCHANGED <<signals, decisions, requests, told, sends, faults, restarts>> /\ Ids' = Ids
      /\ inflight' \subseteq inflight
  BY DEF Refuse, Ids
<1>2. TablesInv'
  BY <1>1 DEF IndInv, TablesInv, TablesType, Asked, SettledForAReason, ToldStands
<1>3. CASE CallFails
  BY <1>1, <1>2, <1>3, CallFailsKeepsInv DEF IndInv
<1>4. CASE UNCHANGED agent
  BY <1>1, <1>2, <1>4 DEF IndInv, AgentInv, AgentType, InHand, Heard
<1>5. QED
  BY <1>3, <1>4 DEF Refuse, Hear

\* A new decision leaves the others, and all that rests on them, alone.
LEMMA ServeDecideKeepsInv ==
    ASSUME NEW s \in Ids, NEW risk \in {"PASS", "REJECTED"}, NEW valid \in BOOLEAN,
           IndInv, ServeDecide(s, risk, valid)
    PROVE  IndInv'
<1> DEFINE answer == Answered(risk, valid)
           row    == [risk |-> answer.status, valid |-> valid]
<1>1. answer \in Answer /\ row \in Decision /\ row.risk = answer.status
  BY DEF Answered, Answer, Decision
<1> HIDE DEF answer, row
<1>2. /\ decisions' = [t \in DOMAIN decisions \cup {s} |-> IF t = s THEN row ELSE decisions[t]]
      /\ s \notin DOMAIN decisions
      /\ inflight' \subseteq inflight
      /\ UNCHANGED <<signals, requests, told, sends, faults, restarts>> /\ Ids' = Ids
  BY DEF ServeDecide, answer, row, Ids
<1>3. /\ DOMAIN decisions' = DOMAIN decisions \cup {s} /\ decisions'[s] = row
      /\ \A t \in DOMAIN decisions : decisions'[t] = decisions[t]
  BY <1>2
<1>4. TablesType /\ Asked /\ SettledForAReason /\ ToldStands
  BY DEF IndInv, TablesInv
<1>5. decisions' \in [DOMAIN decisions' -> Decision] /\ DOMAIN decisions' \subseteq Ids'
  BY <1>1, <1>2, <1>3, <1>4 DEF TablesType
<1>6. TablesType'
  BY <1>2, <1>3, <1>4, <1>5 DEF TablesType
<1>7. Asked' /\ SettledForAReason' /\ ToldStands'
  BY <1>2, <1>3, <1>4 DEF Asked, SettledForAReason, ToldStands
<1>8. CASE UNCHANGED agent
  BY <1>2, <1>3, <1>6, <1>7, <1>8 DEF IndInv, TablesInv, AgentInv, AgentType, InHand, Heard
<1>9. CASE /\ Waits("decide", s)
           /\ agent' = [agent EXCEPT !.pc = "decided", !.answer = answer]
  <2>1. /\ agent \in Agent /\ agent.pc = "decide" /\ agent.signal = s
        /\ s \notin agent.todo \cup told /\ signals[s] # "NEW"
        /\ agent.todo \subseteq Ids /\ \A t \in agent.todo : signals[t] = "NEW"
    BY <1>9 DEF IndInv, AgentInv, AgentType, InHand, Waits
  <2>2. /\ agent'.pc = "decided" /\ agent'.todo = agent.todo /\ agent'.signal = s
        /\ agent'.answer = answer /\ agent' \in Agent
    BY <1>1, <1>9, <2>1 DEF Agent
  <2>3. AgentType' /\ InHand'
    BY <1>2, <2>1, <2>2 DEF AgentType, InHand
  <2>4. Heard'
    BY <1>1, <1>3, <2>2 DEF Heard
  <2>5. QED
    BY <1>6, <1>7, <2>3, <2>4 DEF IndInv, TablesInv, AgentInv
<1>10. QED
  BY <1>8, <1>9 DEF ServeDecide, Hear, answer

LEMMA ServeRequestKeepsInv == ASSUME NEW s \in Ids, IndInv, ServeRequest(s) PROVE IndInv'
<1>1. /\ requests' = requests \cup {s} /\ s \in DOMAIN decisions
      /\ inflight' \subseteq inflight
      /\ UNCHANGED <<signals, decisions, told, sends, faults, restarts>> /\ Ids' = Ids
  BY DEF ServeRequest, Ids
<1>2. TablesInv'
  BY <1>1 DEF IndInv, TablesInv, TablesType, Asked, SettledForAReason, ToldStands
<1>3. CASE UNCHANGED agent
  BY <1>1, <1>2, <1>3 DEF IndInv, AgentInv, AgentType, InHand, Heard
<1>4. CASE /\ Waits("request", s)
           /\ agent' = [agent EXCEPT !.pc = "settle", !.target = "AWAITING_APPROVAL"]
  <2>1. /\ agent \in Agent /\ agent.pc = "request" /\ agent.signal = s
        /\ s \notin agent.todo \cup told /\ signals[s] # "NEW"
        /\ agent.todo \subseteq Ids /\ \A t \in agent.todo : signals[t] = "NEW"
    BY <1>4 DEF IndInv, AgentInv, AgentType, InHand, Waits
  <2>2. /\ agent'.pc = "settle" /\ agent'.todo = agent.todo /\ agent'.signal = s
        /\ agent'.target = "AWAITING_APPROVAL" /\ agent' \in Agent
    BY <1>4, <2>1 DEF Agent, Settled
  <2>3. QED
    BY <1>1, <1>2, <2>1, <2>2 DEF IndInv, AgentInv, AgentType, InHand, Heard
<1>5. QED
  BY <1>3, <1>4 DEF ServeRequest, Hear

\* A new signal takes the next place.
LEMMA ArriveKeepsInv == IndInv /\ Arrive => IndInv'
<1> SUFFICES ASSUME IndInv, Arrive PROVE IndInv'
  OBVIOUS
<1>1. /\ TablesType /\ Asked /\ SettledForAReason /\ ToldStands
      /\ signals \in Seq(Status) /\ "NEW" \in Status /\ Ids = 1..Len(signals)
      /\ signals' = Append(signals, "NEW") /\ Len(signals) < MaxSignals
      /\ UNCHANGED <<decisions, requests, inflight, agent, told, sends, faults, restarts>>
  BY IdsAreNumbers DEF IndInv, TablesInv, TablesType, Arrive, Status, server
<1>2. /\ signals' \in Seq(Status) /\ Len(signals') = Len(signals) + 1
      /\ \A t \in 1..Len(signals) : signals'[t] = signals[t]
      /\ signals'[Len(signals) + 1] = "NEW"
  BY <1>1, AppendProperties
<1>3. Ids' = 1..Len(signals) + 1 /\ Ids \subseteq Ids' /\ \A t \in Ids' \ Ids : signals'[t] = "NEW"
  BY <1>1, <1>2, LenProperties DEF Ids
<1>4. Len(signals) \in Nat /\ MaxSignals \in Nat
  BY <1>1, LenProperties
<1>5. Len(signals') <= MaxSignals
  BY <1>1, <1>2, <1>4
<1>6. TablesType'
  BY <1>1, <1>2, <1>3, <1>5 DEF TablesType
<1>7. Asked' /\ SettledForAReason' /\ ToldStands'
  BY <1>1, <1>2, <1>3, <1>6 DEF Asked, SettledForAReason, ToldStands, TablesType
<1>8. AgentInv'
  <2>1. AgentType'
    BY <1>1, <1>3 DEF IndInv, AgentInv, AgentType
  <2>2. InHand'
    BY <1>1, <1>2, <1>3 DEF IndInv, AgentInv, AgentType, InHand
  <2>3. Heard'
    <3>1. agent.pc # "poll" => agent.signal \in Ids
      BY DEF IndInv, AgentInv, InHand
    <3>2. QED
      BY <1>1, <1>2, <3>1 DEF IndInv, AgentInv, Heard
  <2>4. QED
    BY <2>1, <2>2, <2>3 DEF AgentInv
<1>9. QED
  BY <1>6, <1>7, <1>8 DEF IndInv, TablesInv

-----------------------------------------------------------------------------
(* The theorems *)

LEMMA StepKeepsInv == IndInv /\ [Next]_vars => IndInv'
<1> SUFFICES ASSUME IndInv, [Next]_vars PROVE IndInv'
  OBVIOUS
<1>1. CASE AgentStep
  BY <1>1, PollKeepsInv, TakeKeepsInv, PrepareKeepsInv, PrepareFailsKeepsInv, DecidedKeepsInv,
     TimeOutKeepsInv, SettleKeepsInv, NotifyKeepsInv, FailSignalKeepsInv DEF AgentStep
<1>2. CASE ServerStep
  BY <1>2, ServeDecideKeepsInv, ServeRequestKeepsInv, RefuseKeepsInv DEF ServerStep
<1>3. CASE Restart \/ Arrive
  BY <1>3, RestartKeepsInv, ArriveKeepsInv
<1>4. CASE UNCHANGED vars
  BY <1>4 DEF vars, server, IndInv, AgentInv, AgentType, InHand, Heard, TablesInv, TablesType,
              Asked, SettledForAReason, ToldStands, Ids
<1>5. QED
  BY <1>1, <1>2, <1>3, <1>4 DEF Next

LEMMA Inductive == Spec => []IndInv
<1>1. QED
  BY InitHolds, StepKeepsInv, PTL DEF Spec

\* Every reachable state of the agent worker is well typed.
THEOREM TypeCorrect == Spec => []TypeOK
<1>1. IndInv => TypeOK
  BY DEF IndInv, AgentInv, AgentType, TablesInv, TablesType, TypeOK
<1>2. QED
  BY <1>1, Inductive, PTL

\* However many calls fail, time out or are cut short by a restart, no decision
\* is asked for twice on one signal (handle_signal marks it before).
THEOREM AskedAtMostOnce == Spec => []AskedOnce
<1>1. IndInv => AskedOnce
  <2> SUFFICES ASSUME IndInv, NEW s \in 1..MaxSignals PROVE sends[s] <= 1
    BY DEF AskedOnce
  <2>1. sends[s] = 0 \/ sends[s] = 1
    BY DEF IndInv, TablesInv, Asked
  <2>2. QED
    BY <2>1
<1>2. QED
  BY <1>1, Inductive, PTL

\* A signal that awaits approval has its request, and one rejected or without
\* an approval has the decision that says so.
THEOREM ReasonForEach == Spec => []SettledForAReason
<1>1. IndInv => SettledForAReason
  BY DEF IndInv, TablesInv
<1>2. QED
  BY <1>1, Inductive, PTL

\* What the operator was told of a signal stays true.
THEOREM ToldIsTrue == Spec => []ToldStands
<1>1. IndInv => ToldStands
  BY DEF IndInv, TablesInv
<1>2. QED
  BY <1>1, Inductive, PTL

-----------------------------------------------------------------------------
(* A signal the worker has left *)

\* s was taken up, and the worker is not at it any more.
Left(s) == signals[s] # "NEW" /\ (agent.pc = "poll" \/ agent.signal # s)

\* s keeps its status, is asked for no more, and no message is sent of it.
LeftAlone(s) ==
    /\ signals'[s] = signals[s] /\ sends'[s] = sends[s] /\ (s \in told' <=> s \in told)
    /\ s \in Ids' /\ Left(s)'

LEMMA TurnAway ==
    ASSUME NEW todo, Turn(todo), NEW s, s \notin todo
    PROVE  agent'.pc = "poll" \/ agent'.signal # s
BY DEF Turn, Polling

\* Only the status of the signal in hand changes.
LEMMA OthersKept ==
    ASSUME TablesType, agent.signal \in Ids, NEW s \in Ids, s # agent.signal, NEW status \in Status,
           signals' \in {signals, [signals EXCEPT ![agent.signal] = status]}
    PROVE  signals'[s] = signals[s] /\ s \in Ids'
<1>1. CASE signals' = signals
  BY <1>1 DEF Ids
<1>2. CASE signals' = [signals EXCEPT ![agent.signal] = status]
  BY <1>2, MarkedSignals
<1>3. QED
  BY <1>1, <1>2

\* The worker never comes back to a signal it has left, however it left it: one
\* that was settled stays so, and one that a restart found at PROCESSING is
\* stuck there, with no decision asked for and no word to the operator
\* (new_signals, which looks for NEW).
THEOREM LeftForGood == Spec => [][\A s \in Ids : Left(s) => LeftAlone(s)]_vars
<1>1. ASSUME IndInv, [Next]_vars, NEW s \in Ids, Left(s)
      PROVE  LeftAlone(s)
  <2>0. /\ s \notin agent.todo /\ TablesType /\ s \in 1..MaxSignals
        /\ agent.pc # "poll" => agent.signal \in Ids /\ agent.signal # s
        /\ sends \in [1..MaxSignals -> 0..2]
    BY <1>1, IdsAreNumbers DEF IndInv, AgentInv, InHand, TablesInv, TablesType, Left
  <2>1. ASSUME UNCHANGED <<signals, told>>, sends'[s] = sends[s],
               agent'.pc = "poll" \/ agent'.signal # s
        PROVE  LeftAlone(s)
    BY <1>1, <2>1 DEF LeftAlone, Left, Ids
  <2>2. ASSUME agent' = agent \/ agent'.pc = "poll" \/ (agent.pc # "poll" /\ agent'.signal = agent.signal)
        PROVE  agent'.pc = "poll" \/ agent'.signal # s
    BY <1>1, <2>0, <2>2 DEF Left
  <2>3. \A pc : agent' = [agent EXCEPT !.pc = pc] => agent'.signal = agent.signal
    BY <1>1 DEF IndInv, AgentInv, AgentType, Agent
  <2>4. CASE UNCHANGED vars
    BY <2>1, <2>2, <2>4 DEF vars
  <2>5. CASE Poll
    <3>1. s \notin Oldest
      BY <1>1 DEF Oldest, New, Left
    <3>2. QED
      BY <2>1, <2>5, <3>1, TurnAway DEF Poll
  <2>6. CASE Take
    <3>1. /\ agent.pc # "poll" /\ UNCHANGED <<told, sends>>
          /\ signals' \in {signals, [signals EXCEPT ![agent.signal] = "PROCESSING"]}
          /\ agent'.signal = agent.signal
      BY <2>3, <2>6 DEF Take, Mark, Raise, server
    <3>2. signals'[s] = signals[s] /\ s \in Ids'
      BY <2>0, <3>1, OthersKept DEF Status
    <3>3. QED
      BY <1>1, <2>0, <3>1, <3>2 DEF LeftAlone, Left
  <2>7. CASE Settle
    <3>1. /\ agent.pc # "poll" /\ UNCHANGED <<told, sends>>
          /\ signals' \in {signals, [signals EXCEPT ![agent.signal] = agent.target]}
          /\ NextSignal \/ agent'.signal = agent.signal
      BY <2>3, <2>7 DEF Settle, Mark, Raise, server
    <3>2. agent.target \in Status
      BY <1>1, <2>7 DEF Settle, IndInv, AgentInv, Heard, Status, Settled
    <3>3. signals'[s] = signals[s] /\ s \in Ids'
      BY <2>0, <3>1, <3>2, OthersKept
    <3>4. agent'.pc = "poll" \/ agent'.signal # s
      BY <2>0, <3>1, TurnAway DEF NextSignal
    <3>5. QED
      BY <1>1, <3>1, <3>3, <3>4 DEF LeftAlone, Left
  <2>8. CASE FailSignal
    <3>1. /\ agent.pc # "poll" /\ UNCHANGED <<told, sends>> /\ NextSignal
          /\ signals' \in {signals, [signals EXCEPT ![agent.signal] = "AGENT_FAILED"]}
      BY <2>8 DEF FailSignal, server
    <3>2. signals'[s] = signals[s] /\ s \in Ids'
      BY <2>0, <3>1, OthersKept DEF Status, Settled
    <3>3. agent'.pc = "poll" \/ agent'.signal # s
      BY <2>0, <3>1, TurnAway DEF NextSignal
    <3>4. QED
      BY <1>1, <3>1, <3>2, <3>3 DEF LeftAlone, Left
  <2>9. CASE Notify
    <3>1. /\ agent.pc # "poll" /\ UNCHANGED <<signals, sends>> /\ NextSignal
          /\ told' \in {told, told \cup {agent.signal}}
      BY <2>9 DEF Notify, server
    <3>2. agent'.pc = "poll" \/ agent'.signal # s
      BY <2>0, <3>1, TurnAway DEF NextSignal
    <3>3. QED
      BY <1>1, <2>0, <3>1, <3>2 DEF LeftAlone, Left, Ids
  <2>10. CASE Prepare
    <3>1. agent'.signal = agent.signal /\ agent.pc # "poll" /\ UNCHANGED <<signals, told>>
      BY <2>3, <2>10 DEF Prepare
    <3>2. sends'[s] = sends[s]
      BY <2>0, <2>10, <3>1 DEF Prepare
    <3>3. QED
      BY <2>1, <2>2, <3>1, <3>2
  <2>11. CASE PrepareFails \/ Decided \/ TimeOut \/ ServerStep
    <3>1. agent.pc # "poll" /\ CallFails => agent'.signal = agent.signal
      BY <1>1, <2>3 DEF CallFails, Raise, IndInv, AgentInv, AgentType, Agent
    <3>2. CASE PrepareFails \/ TimeOut
      <4>1. agent'.signal = agent.signal /\ agent.pc # "poll"
        BY <2>3, <3>1, <3>2 DEF PrepareFails, TimeOut, Raise, CallFails
      <4>2. QED
        BY <2>1, <2>2, <3>2, <4>1 DEF PrepareFails, TimeOut
    <3>3. CASE Decided
      <4>1. agent'.signal = agent.signal /\ agent.pc # "poll"
        BY <1>1, <2>3, <3>3 DEF Decided, IndInv, AgentInv, AgentType, Agent
      <4>2. QED
        BY <2>1, <2>2, <3>3, <4>1 DEF Decided
    <3>4. CASE ServerStep
      <4>1. UNCHANGED <<signals, told, sends>>
        BY <3>4 DEF ServerStep, ServeDecide, ServeRequest, Refuse
      <4>2. agent' = agent \/ (agent.pc # "poll" /\ agent'.signal = agent.signal)
        <5>1. agent \in Agent
          BY <1>1 DEF IndInv, AgentInv, AgentType
        <5>2. ASSUME NEW a \in Ids, NEW risk, NEW valid, ServeDecide(a, risk, valid)
              PROVE  agent' = agent \/ (agent.pc # "poll" /\ agent'.signal = agent.signal)
          BY <5>1, <5>2 DEF ServeDecide, Hear, Waits, Agent
        <5>3. ASSUME NEW a \in Ids, ServeRequest(a)
              PROVE  agent' = agent \/ (agent.pc # "poll" /\ agent'.signal = agent.signal)
          BY <5>1, <5>3 DEF ServeRequest, Hear, Waits, Agent
        <5>4. ASSUME NEW call \in inflight, Refuse(call)
              PROVE  agent' = agent \/ (agent.pc # "poll" /\ agent'.signal = agent.signal)
          <6>1. CallFails => agent.pc # "poll"
            BY DEF CallFails
          <6>2. QED
            BY <3>1, <5>4, <6>1 DEF Refuse, Hear
        <5>5. QED
          BY <3>4, <5>2, <5>3, <5>4 DEF ServerStep
      <4>3. QED
        BY <2>1, <2>2, <4>1, <4>2
    <3>5. QED
      BY <2>11, <3>2, <3>3, <3>4
  <2>12. CASE Restart
    BY <2>1, <2>12 DEF Restart, Polling
  <2>13. CASE Arrive
    <3>1. signals' = Append(signals, "NEW") /\ UNCHANGED <<agent, told, sends>>
      BY <2>13 DEF Arrive
    <3>2. signals'[s] = signals[s] /\ s \in Ids'
      BY <1>1, <2>0, <3>1 DEF TablesType, Ids
    <3>3. QED
      BY <1>1, <3>1, <3>2 DEF LeftAlone, Left
  <2>14. QED
    BY <1>1, <2>4, <2>5, <2>6, <2>7, <2>8, <2>9, <2>10, <2>11, <2>12, <2>13 DEF Next, AgentStep
<1>2. IndInv /\ [Next]_vars => [\A s \in Ids : Left(s) => LeftAlone(s)]_vars
  BY <1>1
<1>3. QED
  BY <1>2, Inductive, PTL DEF Spec
=============================================================================
