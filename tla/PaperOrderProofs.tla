-------------------------- MODULE PaperOrderProofs --------------------------
(***************************************************************************)
(* Proofs about the order service, for every set of decisions, approvals,  *)
(* orders, keys and concurrent place requests and every limit; and about   *)
(* the paper broker that calls it.                                         *)
(***************************************************************************)
EXTENDS PaperBroker, FiniteSetTheorems, SequenceTheorems, TLAPS

USE ObservingAssumption, LimitsAssumption, NoneAssumption, SnapshotsAssumption

-----------------------------------------------------------------------------
(* Type correctness *)

\* A place request in flight carries a decision and a key and, past
\* ensureApproved, an approval given for that decision that was young when
\* the transaction began.
ValidPlace(r, gs) ==
    /\ r.pc # "idle" => r.decision \in Tradable /\ r.key \in Keys
    /\ r.pc \in {"existing", "count", "account", "insert"} =>
         \E g \in gs : /\ g.approval = r.approval
                      /\ g.decision = r.decision
                      /\ r.begun < g.at + MaxActiveAge

PlacesOK == \A c \in PlaceCalls : ValidPlace(places[c], grants)

IndType == TypeOK /\ PlacesOK

\* Only one slot changes, to a valid request.
LEMMA PlacesType ==
    ASSUME IndType, NEW c \in PlaceCalls, NEW r \in Place, ValidPlace(r, grants),
           places' = [places EXCEPT ![c] = r], grants' = grants
    PROVE  places' \in [PlaceCalls -> Place] /\ PlacesOK'
<1>1. places' \in [PlaceCalls -> Place]
  BY DEF IndType, TypeOK
<1>2. \A k \in PlaceCalls : places'[k] = IF k = c THEN r ELSE places[k]
  BY DEF IndType, TypeOK
<1>3. \A k \in PlaceCalls : ValidPlace(places'[k], grants')
  BY <1>2 DEF IndType, PlacesOK
<1>4. QED
  BY <1>1, <1>3 DEF PlacesOK, ValidPlace

LEMMA FinishType ==
    ASSUME IndType, NEW c \in PlaceCalls,
           NEW a \in {"ALREADY_FILLED", "REJECTED", "ERROR"}, Finish(c, a)
    PROVE  IndType'
<1>1. IdlePlace(a) \in Place /\ ValidPlace(IdlePlace(a), grants)
  BY DEF IdlePlace, Place, ValidPlace
<1>2. places' \in [PlaceCalls -> Place] /\ PlacesOK'
  BY <1>1, PlacesType DEF Finish, gateVars
<1>3. QED
  BY <1>2 DEF IndType, TypeOK, Finish, Placed, tables, gateVars

LEMMA AdvanceType ==
    ASSUME IndType, NEW c \in PlaceCalls, NEW pc \in {"approval", "count", "insert"},
           Advance(c, pc),
           places[c].pc # "idle",
           pc # "approval" => places[c].pc \in {"existing", "account"}
    PROVE  IndType'
<1> DEFINE r == [places[c] EXCEPT !.pc = pc]
<1>1. places[c] \in Place /\ ValidPlace(places[c], grants)
  BY DEF IndType, TypeOK, PlacesOK
<1>2. r \in Place /\ ValidPlace(r, grants)
  BY <1>1 DEF Place, ValidPlace
<1>3. places' = [places EXCEPT ![c] = r] /\ grants' = grants
  BY DEF Advance, gateVars
<1>4. places' \in [PlaceCalls -> Place] /\ PlacesOK'
  BY <1>2, <1>3, PlacesType
<1>5. QED
  BY <1>4 DEF IndType, TypeOK, Advance, Placed, tables, gateVars

LEMMA InitType == Init => IndType
<1> SUFFICES ASSUME Init PROVE IndType
  OBVIOUS
<1>1. now \in Nat /\ open \in [Tradable -> SUBSET ApprovalIds] /\ grants \subseteq Gate!Grants
  BY DEF Init, Gate!Init
<1>2. places \in [PlaceCalls -> Place] /\ PlacesOK
  BY DEF Init, IdlePlace, Place, PlacesOK, ValidPlace
<1>3. Placed = {} /\ tasks = {} /\ account \in Account
  BY DEF Init, Placed
<1>4. orders \in [Placed -> Order] /\ positions \in [Placed -> Position]
  BY <1>3 DEF Init
<1>5. QED
  BY <1>1, <1>2, <1>3, <1>4 DEF IndType, TypeOK

LEMMA NextType == IndType /\ [Next]_vars => IndType'
<1> SUFFICES ASSUME IndType, [Next]_vars PROVE IndType'
  OBVIOUS
<1> USE DEF tables, gateVars
<1>1. ASSUME NEW c \in PlaceCalls, NEW d \in Tradable, NEW key \in Keys, Begin(c, d, key)
      PROVE  IndType'
  <2> DEFINE r == [pc |-> "lock", decision |-> d, key |-> key, begun |-> now,
                   approval |-> None, full |-> FALSE, answer |-> "none"]
  <2>1. r \in Place /\ ValidPlace(r, grants)
    BY DEF Place, IndType, TypeOK, ValidPlace
  <2>2. places' \in [PlaceCalls -> Place] /\ PlacesOK'
    BY <1>1, <2>1, PlacesType DEF Begin
  <2>3. QED
    BY <1>1, <2>2 DEF Begin, IndType, TypeOK, Placed
<1>2. ASSUME NEW c \in PlaceCalls, TakeLock(c)
      PROVE  IndType'
  BY <1>2, AdvanceType DEF TakeLock
<1>3. ASSUME NEW c \in PlaceCalls, EnsureApproved(c)
      PROVE  IndType'
  <2>1. PICK g \in Newest(Fresh(places[c].decision, places[c].begun)) :
          places' = [places EXCEPT ![c].pc = "existing", ![c].approval = g.approval]
    BY <1>3 DEF EnsureApproved
  <2>2. /\ g \in grants /\ g.approval \in ApprovalIds /\ g.at \in Nat
        /\ g.decision = places[c].decision /\ g.at + MaxActiveAge > places[c].begun
    BY DEF Newest, Fresh, IndType, TypeOK, Gate!Grants
  <2> DEFINE r == [places[c] EXCEPT !.pc = "existing", !.approval = g.approval]
  <2>3. places[c] \in Place /\ ValidPlace(places[c], grants) /\ places[c].pc # "idle"
    BY <1>3 DEF EnsureApproved, IndType, TypeOK, PlacesOK
  <2>4. r \in Place
    BY <2>2, <2>3 DEF Place
  <2>5. /\ r.pc = "existing" /\ r.approval = g.approval /\ r.decision = places[c].decision
        /\ r.key = places[c].key /\ r.begun = places[c].begun /\ r.begun \in Nat
    BY <2>3 DEF Place
  <2>6. ValidPlace(r, grants)
    BY <2>2, <2>3, <2>5 DEF ValidPlace
  <2>7. places' = [places EXCEPT ![c] = r]
    BY <2>1
  <2>8. places' \in [PlaceCalls -> Place] /\ PlacesOK'
    BY <1>3, <2>4, <2>6, <2>7, PlacesType DEF EnsureApproved
  <2>9. QED
    BY <1>3, <2>8 DEF EnsureApproved, IndType, TypeOK, Placed
<1>4. ASSUME NEW c \in PlaceCalls, NotApproved(c)
      PROVE  IndType'
  BY <1>4, FinishType DEF NotApproved
<1>5. ASSUME NEW c \in PlaceCalls, FindExisting(c)
      PROVE  IndType'
  BY <1>5, FinishType DEF FindExisting
<1>6. ASSUME NEW c \in PlaceCalls, FindNoOrder(c)
      PROVE  IndType'
  BY <1>6, AdvanceType DEF FindNoOrder
<1>7. ASSUME NEW c \in PlaceCalls, CountOpen(c)
      PROVE  IndType'
  <2> DEFINE f == Cardinality(OpenPositions) >= MaxOpenPositions
             r == [places[c] EXCEPT !.pc = "account", !.full = f]
  <2>1. places[c] \in Place /\ ValidPlace(places[c], grants) /\ places[c].pc = "count"
    BY <1>7 DEF CountOpen, IndType, TypeOK, PlacesOK
  <2>2. f \in BOOLEAN
    OBVIOUS
  <2>3. r \in Place /\ ValidPlace(r, grants)
    BY <2>1, <2>2 DEF Place, ValidPlace
  <2>4. places' = [places EXCEPT ![c] = r]
    BY <1>7 DEF CountOpen
  <2>5. places' \in [PlaceCalls -> Place] /\ PlacesOK'
    BY <1>7, <2>3, <2>4, PlacesType DEF CountOpen
  <2>6. QED
    BY <1>7, <2>5 DEF CountOpen, IndType, TypeOK, Placed
<1>8. ASSUME NEW c \in PlaceCalls, PassSecondCheck(c)
      PROVE  IndType'
  BY <1>8, AdvanceType DEF PassSecondCheck
<1>9. ASSUME NEW c \in PlaceCalls, NEW bad \in BOOLEAN, FailSecondCheck(c, bad)
      PROVE  IndType'
  BY <1>9, FinishType DEF FailSecondCheck
<1>10. ASSUME NEW c \in PlaceCalls, NEW o \in OrderIds, Insert(c, o)
       PROVE  IndType'
  <2> DEFINE d == places[c].decision
             row == [decision |-> d, approval |-> places[c].approval,
                     key |-> places[c].key, begun |-> places[c].begun]
  <2>1. places[c] \in Place /\ d \in Tradable /\ places[c].key \in Keys
    BY <1>10 DEF Insert, IndType, TypeOK, PlacesOK, ValidPlace
  <2>2. places[c].approval \in ApprovalIds
    BY <1>10 DEF Insert, IndType, TypeOK, PlacesOK, ValidPlace, Gate!Grants
  <2>3. row \in Order
    BY <2>1, <2>2 DEF Order, Place
  <2>4. Placed' = Placed \cup {o}
    BY <1>10 DEF Insert, Placed
  <2>5. orders' \in [Placed' -> Order]
    BY <1>10, <2>3, <2>4 DEF Insert, IndType, TypeOK
  <2>6. positions' \in [Placed' -> Position]
    BY <1>10, <2>1, <2>4 DEF Insert, IndType, TypeOK, Position
  <2>7. tasks' \subseteq [order : Placed', decision : Tradable, window : Windows]
    BY <1>10, <2>1, <2>4 DEF Insert, IndType, TypeOK
  <2>8. IdlePlace("PAPER_FILLED") \in Place /\ ValidPlace(IdlePlace("PAPER_FILLED"), grants)
    BY DEF IdlePlace, Place, ValidPlace
  <2>9. places' \in [PlaceCalls -> Place] /\ PlacesOK'
    BY <1>10, <2>8, PlacesType DEF Insert
  <2>10. QED
    BY <1>10, <2>4, <2>5, <2>6, <2>7, <2>9 DEF Insert, IndType, TypeOK
<1>11. ASSUME NEW c \in PlaceCalls, DuplicateKey(c) \/ Fail(c)
       PROVE  IndType'
  BY <1>11, FinishType DEF DuplicateKey, Fail
<1>12. CASE GateStep
  <2>1. /\ now' \in Nat /\ open' \in [Tradable -> SUBSET ApprovalIds]
        /\ grants' \subseteq Gate!Grants /\ grants \subseteq grants'
    BY <1>12 DEF GateStep, Gate!Offer, Gate!GrantOffer, Gate!Grants, IndType, TypeOK
  <2>2. PlacesOK'
    BY <1>12, <2>1 DEF GateStep, IndType, PlacesOK, ValidPlace
  <2>3. QED
    BY <1>12, <2>1, <2>2 DEF GateStep, IndType, TypeOK, Placed
<1>13. ASSUME NEW o \in OrderIds, ClosePosition(o)
       PROVE  IndType'
  BY <1>13 DEF ClosePosition, IndType, TypeOK, PlacesOK, ValidPlace, Placed, Position, OpenPositions
<1>14. CASE NewSnapshot
  BY <1>14 DEF NewSnapshot, IndType, TypeOK, PlacesOK, ValidPlace, Placed
<1>15. CASE Tick
  BY <1>15 DEF Tick, IndType, TypeOK, PlacesOK, ValidPlace, Placed
<1>16. CASE UNCHANGED vars
  BY <1>16 DEF vars, IndType, TypeOK, PlacesOK, ValidPlace, Placed
<1>17. QED
  BY <1>1, <1>2, <1>3, <1>4, <1>5, <1>6, <1>7, <1>8, <1>9, <1>10, <1>11, <1>12, <1>13, <1>14,
     <1>15, <1>16 DEF Next, PlaceStep, Work

\* Every reachable state is well typed.
THEOREM TypeCorrect == Spec => []TypeOK
<1>1. Spec => []IndType
  BY InitType, NextType, PTL DEF Spec
<1>2. IndType => TypeOK
  BY DEF IndType
<1>3. QED
  BY <1>1, <1>2, PTL
-----------------------------------------------------------------------------
(* At most one order per decision *)

Inside(c) == places[c].pc \notin {"idle", "lock"}

\* The advisory lock: one request at a time is past it for a decision.
LockIsExclusive ==
    \A c, k \in PlaceCalls :
        Inside(c) /\ Inside(k) /\ places[c].decision = places[k].decision => c = k

\* What a request found under the lock still holds when it inserts.
NoOrderYet ==
    \A c \in PlaceCalls : places[c].pc \in {"count", "account", "insert"} =>
        OrdersOf(places[c].decision) = {}

OnceInv == LockIsExclusive /\ NoOrderYet /\ OneOrderPerDecision

\* Orders are only inserted, and an insert adds one row.
LEMMA NextOrders ==
    ASSUME IndType, [Next]_vars
    PROVE  \/ orders' = orders
           \/ \E c \in PlaceCalls, o \in OrderIds : Insert(c, o)
BY DEF Next, vars, tables, Begin, PlaceStep, Work, TakeLock, EnsureApproved, NotApproved,
       FindExisting, FindNoOrder, CountOpen, PassSecondCheck, FailSecondCheck, DuplicateKey,
       Fail, Finish, Advance, GateStep, ClosePosition, NewSnapshot, Tick

LEMMA InsertRows ==
    ASSUME IndType, NEW c \in PlaceCalls, NEW o \in OrderIds, Insert(c, o)
    PROVE  /\ o \notin Placed
           /\ Placed' = Placed \cup {o}
           /\ orders'[o] = [decision |-> places[c].decision, approval |-> places[c].approval,
                            key |-> places[c].key, begun |-> places[c].begun]
           /\ \A p \in Placed : orders'[p] = orders[p]
BY DEF Insert, Placed

\* Steps that insert nothing and move one request, never into the stretch
\* past FindNoOrder from outside it.
LEMMA QuietPlace ==
    ASSUME OnceInv, NEW c \in PlaceCalls,
           orders' = orders,
           \A k \in PlaceCalls \ {c} : places'[k] = places[k],
           \/ places'[c].pc \in {"idle", "lock"}
           \/ /\ Inside(c)
              /\ places'[c].decision = places[c].decision
              /\ \/ places'[c].pc \notin {"count", "account", "insert"}
                 \/ OrdersOf(places[c].decision) = {}
    PROVE  OnceInv'
<1>1. Placed' = Placed /\ \A d \in {places[k].decision : k \in PlaceCalls} : OrdersOf(d)' = OrdersOf(d)
  BY DEF Placed, OrdersOf
<1>2. ASSUME NEW k \in PlaceCalls, Inside(k)'
      PROVE  Inside(k) /\ places'[k].decision = places[k].decision
  BY <1>2 DEF Inside
<1>3. LockIsExclusive'
  BY <1>2 DEF OnceInv, LockIsExclusive
<1>4. NoOrderYet'
  <2> SUFFICES ASSUME NEW k \in PlaceCalls, places'[k].pc \in {"count", "account", "insert"}
               PROVE  OrdersOf(places[k].decision)' = {}
    BY DEF NoOrderYet
  <2>1. Inside(k)'
    BY DEF Inside
  <2>2. places'[k].decision = places[k].decision
    BY <1>2, <2>1
  <2>3. OrdersOf(places[k].decision) = {}
    BY DEF OnceInv, NoOrderYet, Inside
  <2>4. QED
    BY <2>2, <2>3 DEF OrdersOf, Placed
<1>5. OneOrderPerDecision'
  BY <1>1 DEF OnceInv, OneOrderPerDecision
<1>6. QED
  BY <1>3, <1>4, <1>5 DEF OnceInv
LEMMA OnceInductive == IndType /\ OnceInv /\ [Next]_vars => OnceInv'
<1> SUFFICES ASSUME IndType, OnceInv, [Next]_vars PROVE OnceInv'
  OBVIOUS
<1>0. places \in [PlaceCalls -> Place]
  BY DEF IndType, TypeOK
<1>1. ASSUME NEW c \in PlaceCalls, NEW a \in {"ALREADY_FILLED", "REJECTED", "ERROR"}, Finish(c, a)
      PROVE  OnceInv'
  BY <1>0, <1>1, QuietPlace DEF Finish, IdlePlace, tables
<1>2. ASSUME NEW c \in PlaceCalls, NEW d \in Tradable, NEW key \in Keys, Begin(c, d, key)
      PROVE  OnceInv'
  BY <1>0, <1>2, QuietPlace DEF Begin, tables
<1>3. ASSUME NEW c \in PlaceCalls, TakeLock(c)
      PROVE  OnceInv'
  <2>1. /\ places[c] \in Place /\ orders' = orders
        /\ places'[c] = [places[c] EXCEPT !.pc = "approval"]
        /\ \A k \in PlaceCalls \ {c} : places'[k] = places[k]
    BY <1>0, <1>3 DEF TakeLock, Advance, tables
  <2>2. places'[c].pc = "approval" /\ places'[c].decision = places[c].decision
    BY <2>1 DEF Place
  <2>3. \A k \in PlaceCalls \ {c} : Inside(k) => places[k].decision # places[c].decision
    BY <1>3 DEF TakeLock, Locked, Inside
  <2>4. LockIsExclusive'
    <3> SUFFICES ASSUME NEW j \in PlaceCalls, NEW k \in PlaceCalls, Inside(j)', Inside(k)',
                        places'[j].decision = places'[k].decision
                 PROVE  j = k
      BY DEF LockIsExclusive
    <3>1. CASE j # c /\ k # c
      BY <2>1, <3>1 DEF OnceInv, LockIsExclusive, Inside
    <3>2. CASE j = c /\ k # c
      BY <2>1, <2>2, <2>3, <3>2 DEF Inside
    <3>3. CASE j # c /\ k = c
      BY <2>1, <2>2, <2>3, <3>3 DEF Inside
    <3>4. QED
      BY <3>1, <3>2, <3>3
  <2>5. NoOrderYet'
    <3> SUFFICES ASSUME NEW k \in PlaceCalls, places'[k].pc \in {"count", "account", "insert"}
                 PROVE  OrdersOf(places[k].decision)' = {}
      BY DEF NoOrderYet
    <3>1. places'[k] = places[k]
      BY <2>1, <2>2
    <3>2. OrdersOf(places[k].decision) = {}
      BY <3>1 DEF OnceInv, NoOrderYet
    <3>3. QED
      BY <2>1, <3>1, <3>2 DEF OrdersOf, Placed
  <2>6. QED
    BY <2>1, <2>4, <2>5 DEF OnceInv, OneOrderPerDecision, Placed
<1>4. ASSUME NEW c \in PlaceCalls, EnsureApproved(c)
      PROVE  OnceInv'
  <2>1. PICK g \in Newest(Fresh(places[c].decision, places[c].begun)) :
          places' = [places EXCEPT ![c].pc = "existing", ![c].approval = g.approval]
    BY <1>4 DEF EnsureApproved
  <2>2. places[c] \in Place /\ places'[c] = [places[c] EXCEPT !.pc = "existing", !.approval = g.approval]
    BY <1>0, <2>1
  <2>3. places'[c].pc = "existing" /\ places'[c].decision = places[c].decision
    BY <2>2 DEF Place
  <2>4. Inside(c) /\ orders' = orders /\ \A k \in PlaceCalls \ {c} : places'[k] = places[k]
    BY <1>0, <1>4, <2>1 DEF EnsureApproved, Inside, tables
  <2>5. QED
    BY <2>3, <2>4, QuietPlace
<1>5. ASSUME NEW c \in PlaceCalls, FindNoOrder(c)
      PROVE  OnceInv'
  <2>1. PICK pc \in {"count", "insert"} : Advance(c, pc)
    BY <1>5 DEF FindNoOrder
  <2>2. places[c] \in Place /\ places'[c] = [places[c] EXCEPT !.pc = pc]
    BY <1>0, <2>1 DEF Advance
  <2>3. places'[c].decision = places[c].decision
    BY <2>2 DEF Place
  <2>4. Inside(c) /\ orders' = orders /\ \A k \in PlaceCalls \ {c} : places'[k] = places[k]
    BY <1>0, <1>5, <2>1 DEF FindNoOrder, Advance, Inside, tables
  <2>5. OrdersOf(places[c].decision) = {}
    BY <1>5 DEF FindNoOrder
  <2>6. QED
    BY <2>3, <2>4, <2>5, QuietPlace
<1>6. ASSUME NEW c \in PlaceCalls, CountOpen(c) \/ PassSecondCheck(c)
      PROVE  OnceInv'
  <2>1. places[c].pc \in {"count", "account"} /\ orders' = orders
    BY <1>6 DEF CountOpen, PassSecondCheck, Advance, tables
  <2>2. places[c] \in Place /\ places'[c].decision = places[c].decision
    BY <1>0, <1>6 DEF CountOpen, PassSecondCheck, Advance, Place
  <2>3. \A k \in PlaceCalls \ {c} : places'[k] = places[k]
    BY <1>0, <1>6 DEF CountOpen, PassSecondCheck, Advance
  <2>4. Inside(c) /\ OrdersOf(places[c].decision) = {}
    BY <2>1 DEF Inside, OnceInv, NoOrderYet
  <2>5. QED
    BY <2>1, <2>2, <2>3, <2>4, QuietPlace
<1>7. ASSUME NEW c \in PlaceCalls, NEW o \in OrderIds, Insert(c, o)
      PROVE  OnceInv'
  <2> DEFINE d == places[c].decision
  <2>0. orders'[o] = [decision |-> d, approval |-> places[c].approval,
                     key |-> places[c].key, begun |-> places[c].begun]
    BY <1>7, InsertRows
  <2>1. /\ Placed' = Placed \cup {o}
        /\ orders'[o].decision = d
        /\ \A p \in Placed : orders'[p] = orders[p]
    BY <1>7, <2>0, InsertRows
  <2>2. OrdersOf(d) = {} /\ Inside(c)
    BY <1>7 DEF Insert, Inside, OnceInv, NoOrderYet
  <2>3. places'[c].pc = "idle" /\ \A k \in PlaceCalls \ {c} : places'[k] = places[k]
    BY <1>0, <1>7 DEF Insert, IdlePlace
  <2>4. LockIsExclusive'
    BY <2>3 DEF OnceInv, LockIsExclusive, Inside
  <2>5. NoOrderYet'
    <3> SUFFICES ASSUME NEW k \in PlaceCalls, places'[k].pc \in {"count", "account", "insert"}
                 PROVE  OrdersOf(places[k].decision)' = {}
      BY DEF NoOrderYet
    <3>1. k # c /\ places'[k] = places[k] /\ Inside(k)
      BY <2>3 DEF Inside
    <3>2. places[k].decision # d
      BY <2>2, <3>1 DEF OnceInv, LockIsExclusive
    <3>3. OrdersOf(places[k].decision) = {}
      BY <3>1 DEF OnceInv, NoOrderYet
    <3>4. QED
      BY <2>1, <3>1, <3>2, <3>3 DEF OrdersOf
  <2>6. OneOrderPerDecision'
    <3>1. \A p \in Placed : orders[p].decision # d
      BY <2>2 DEF OrdersOf
    <3>2. QED
      BY <2>1, <3>1 DEF OnceInv, OneOrderPerDecision
  <2>7. QED
    BY <2>4, <2>5, <2>6 DEF OnceInv
<1>8. CASE UNCHANGED <<orders, places>>
  BY <1>8 DEF OnceInv, LockIsExclusive, NoOrderYet, OneOrderPerDecision, Inside, OrdersOf, Placed
<1>9. QED
  BY <1>1, <1>2, <1>3, <1>4, <1>5, <1>6, <1>7, <1>8
     DEF Next, PlaceStep, Work, NotApproved, FindExisting, FailSecondCheck, DuplicateKey, Fail,
         GateStep, ClosePosition, NewSnapshot, Tick, vars, tables

LEMMA OnceInit == Init => OnceInv
BY DEF Init, OnceInv, LockIsExclusive, NoOrderYet, OneOrderPerDecision, Inside, IdlePlace, Placed

\* However requests interleave, a decision has at most one order.
THEOREM OneOrder == Spec => []OneOrderPerDecision
<1>1. OnceInv => OneOrderPerDecision
  BY DEF OnceInv
<1>2. QED
  BY <1>1, OnceInit, OnceInductive, InitType, NextType, PTL DEF Spec
-----------------------------------------------------------------------------
(* Every order was approved *)

\* Approvals are given for good.
LEMMA GrantsGrow == ASSUME IndType, [Next]_vars PROVE grants \subseteq grants'
BY DEF Next, vars, gateVars, Begin, PlaceStep, Work, TakeLock, EnsureApproved, NotApproved,
       FindExisting, FindNoOrder, CountOpen, PassSecondCheck, FailSecondCheck, Insert,
       DuplicateKey, Fail, Finish, Advance, GateStep, Gate!Offer, Gate!GrantOffer,
       ClosePosition, NewSnapshot, Tick

\* Every order rests on an approval of its own decision that was young when
\* the order's transaction began.
THEOREM Approved == Spec => []OrderWasApproved
<1>1. Init => OrderWasApproved
  BY DEF Init, OrderWasApproved, Placed
<1>2. IndType /\ OrderWasApproved /\ [Next]_vars => OrderWasApproved'
  <2> SUFFICES ASSUME IndType, OrderWasApproved, [Next]_vars PROVE OrderWasApproved'
    OBVIOUS
  <2>1. CASE orders' = orders
    BY <2>1, GrantsGrow DEF OrderWasApproved, Placed
  <2>2. ASSUME NEW c \in PlaceCalls, NEW o \in OrderIds, Insert(c, o)
        PROVE  OrderWasApproved'
    <3>1. PICK g \in grants : /\ g.approval = places[c].approval
                              /\ g.decision = places[c].decision
                              /\ places[c].begun < g.at + MaxActiveAge
      BY <2>2 DEF Insert, IndType, PlacesOK, ValidPlace
    <3>2. orders'[o] = [decision |-> places[c].decision, approval |-> places[c].approval,
                        key |-> places[c].key, begun |-> places[c].begun]
      BY <2>2, InsertRows
    <3>3. /\ orders'[o].approval = g.approval /\ orders'[o].decision = g.decision
          /\ orders'[o].begun < g.at + MaxActiveAge
      BY <3>1, <3>2
    <3>4. Placed' = Placed \cup {o} /\ \A p \in Placed : orders'[p] = orders[p]
      BY <2>2, InsertRows
    <3>5. QED
      BY <3>3, <3>4, GrantsGrow DEF OrderWasApproved
  <2>3. QED
    BY <2>1, <2>2, NextOrders
<1>3. QED
  BY <1>1, <1>2, InitType, NextType, PTL DEF Spec
-----------------------------------------------------------------------------
(* The service executes each approved decision once *)

\* Approvals are given one at a time, and only by the gate.
LEMMA NextGrants ==
    ASSUME IndType, [Next]_vars
    PROVE  \/ grants' = grants
           \/ \E d \in Tradable, id \in ApprovalIds, op \in PermittedOperators :
                 Gate!GrantOffer(d, id, op) /\ orders' = orders
BY DEF Next, vars, gateVars, tables, Begin, PlaceStep, Work, TakeLock, EnsureApproved,
       NotApproved, FindExisting, FindNoOrder, CountOpen, PassSecondCheck, FailSecondCheck,
       Insert, DuplicateKey, Fail, Finish, Advance, GateStep, Gate!Offer, Gate!GrantOffer,
       ClosePosition, NewSnapshot, Tick

\* The order service implements the promise to execute once: every step gives
\* one approval, executes one approved decision for the first time, or shows
\* the operator nothing.
THEOREM ImplementsOnce == Spec => OnceSpec
<1>1. Init => Once!Init
  BY DEF Init, Once!Init, Gate!Init, Given, Fills, Placed
<1>2. IndType /\ OnceInv /\ [Next]_vars => [Once!Next]_<<Given, Fills>>
  <2> SUFFICES ASSUME IndType, OnceInv, [Next]_vars PROVE [Once!Next]_<<Given, Fills>>
    OBVIOUS
  <2>1. orders' = orders => Fills' = Fills
    BY DEF Fills, Placed
  <2>2. grants' = grants => Given' = Given
    BY DEF Given
  <2>3. ASSUME NEW c \in PlaceCalls, NEW o \in OrderIds, Insert(c, o)
        PROVE  Once!Next
    <3> DEFINE a == places[c].approval
               d == places[c].decision
    <3>1. PICK g \in grants : g.approval = a /\ g.decision = d
      BY <2>3 DEF Insert, IndType, PlacesOK, ValidPlace
    <3>2. a \in ApprovalIds /\ d \in Tradable /\ <<a, d>> \in Given
      BY <3>1 DEF Given, IndType, TypeOK, Gate!Grants
    <3>3. \A f \in Fills : f[3] # d
      BY <2>3 DEF Insert, OnceInv, NoOrderYet, OrdersOf, Fills
    <3>4. /\ orders'[o] = [decision |-> d, approval |-> a, key |-> places[c].key,
                           begun |-> places[c].begun]
          /\ Placed' = Placed \cup {o} /\ \A p \in Placed : orders'[p] = orders[p]
      BY <2>3, InsertRows
    <3>5. orders'[o].approval = a /\ orders'[o].decision = d
      BY <3>4
    <3>6. Fills' = Fills \cup {<<o, a, d>>}
      BY <3>4, <3>5 DEF Fills
    <3>7. Given' = Given
      BY <2>2, <2>3 DEF Insert, gateVars
    <3>8. Once!Fill(o, a, d)
      BY <3>2, <3>3, <3>6, <3>7 DEF Once!Fill
    <3>9. QED
      BY <3>2, <3>8 DEF Once!Next
  <2>4. ASSUME NEW d \in Tradable, NEW id \in ApprovalIds, NEW op \in PermittedOperators,
               Gate!GrantOffer(d, id, op), orders' = orders
        PROVE  Once!Next
    <3> DEFINE g == [approval |-> id, decision |-> d, at |-> now, by |-> op]
    <3>1. grants' = grants \cup {g} /\ g.approval = id /\ g.decision = d
      BY <2>4 DEF Gate!GrantOffer
    <3>2. Given' = Given \cup {<<id, d>>}
      BY <3>1 DEF Given
    <3>3. QED
      BY <2>1, <2>4, <3>2 DEF Once!Give, Once!Next
  <2>5. QED
    BY <2>1, <2>2, <2>3, <2>4, NextOrders, NextGrants
<1>3. QED
  BY <1>1, <1>2, InitType, NextType, OnceInit, OnceInductive, PTL
     DEF Spec, OnceSpec, Once!Spec

-----------------------------------------------------------------------------
(* The limit on open positions *)

\* Open positions that trade, and the calls that may still open one: they
\* counted, or passed the whole check, before those were open.
OpenTrading == {o \in OpenPositions : positions[o].decision \notin Observing}

Coming == {c \in PlaceCalls : /\ places[c].decision \notin Observing
                              /\ \/ places[c].pc = "account" /\ ~places[c].full
                                 \/ places[c].pc = "insert"}

Overbooked == MaxOpenPositions + Cardinality(PlaceCalls) - 1

Bounded ==
    /\ IsFiniteSet(Placed)
    /\ Cardinality(OpenTrading) + Cardinality(Coming) <= Overbooked

LEMMA Counted ==
    ASSUME IsFiniteSet(Placed), IsFiniteSet(PlaceCalls)
    PROVE  /\ IsFiniteSet(OpenPositions) /\ IsFiniteSet(OpenTrading) /\ IsFiniteSet(Coming)
           /\ Cardinality(OpenPositions) \in Nat /\ Cardinality(OpenTrading) \in Nat
           /\ Cardinality(Coming) \in Nat /\ Cardinality(PlaceCalls) \in Nat
           /\ Cardinality(OpenTrading) <= Cardinality(OpenPositions)
           /\ Cardinality(Coming) <= Cardinality(PlaceCalls)
<1>1. OpenPositions \in SUBSET Placed /\ OpenTrading \in SUBSET OpenPositions
      /\ Coming \in SUBSET PlaceCalls
  BY DEF OpenPositions, OpenTrading, Coming
<1>2. IsFiniteSet(OpenPositions)
  BY <1>1, FS_Subset
<1>3. /\ IsFiniteSet(OpenTrading) /\ Cardinality(OpenTrading) <= Cardinality(OpenPositions)
      /\ IsFiniteSet(Coming) /\ Cardinality(Coming) <= Cardinality(PlaceCalls)
  BY <1>1, <1>2, FS_Subset
<1>4. QED
  BY <1>2, <1>3, FS_CardinalityType

\* Steps that neither open a position nor come to be counted.
LEMMA Fewer ==
    ASSUME IsFiniteSet(PlaceCalls), Bounded, Placed' = Placed,
           OpenTrading' \subseteq OpenTrading, Coming' \subseteq Coming
    PROVE  Bounded'
<1>1. /\ IsFiniteSet(OpenTrading) /\ IsFiniteSet(Coming)
      /\ Cardinality(OpenTrading) \in Nat /\ Cardinality(Coming) \in Nat
      /\ Cardinality(PlaceCalls) \in Nat
  BY Counted DEF Bounded
<1>2. OpenTrading' \in SUBSET OpenTrading /\ Coming' \in SUBSET Coming
  OBVIOUS
<1>3. /\ Cardinality(OpenTrading') <= Cardinality(OpenTrading)
      /\ Cardinality(Coming') <= Cardinality(Coming)
      /\ Cardinality(OpenTrading') \in Nat /\ Cardinality(Coming') \in Nat
  BY <1>1, <1>2, FS_Subset, FS_CardinalityType
<1>4. QED
  BY <1>1, <1>3 DEF Bounded, Overbooked

\* A call that changes nothing but itself, and does not come to be counted.
LEMMA CallLeaves ==
    ASSUME IsFiniteSet(PlaceCalls), IndType, Bounded, NEW c \in PlaceCalls, NEW new,
           UNCHANGED tables, places' = [places EXCEPT ![c] = new],
           /\ new.decision \notin Observing
           /\ (new.pc = "account" /\ ~new.full) \/ new.pc = "insert"
           => c \in Coming
    PROVE  Bounded'
<1>1. \A d \in PlaceCalls : places'[d] = IF d = c THEN new ELSE places[d]
  BY DEF IndType, TypeOK
<1>2. Coming' \subseteq Coming
  BY <1>1 DEF Coming
<1>3. Placed' = Placed /\ OpenTrading' = OpenTrading
  BY DEF tables, Placed, OpenTrading, OpenPositions
<1>4. QED
  BY <1>2, <1>3, Fewer

LEMMA BoundedNext ==
    ASSUME IsFiniteSet(PlaceCalls), PlaceCalls # {}
    PROVE  IndType /\ Bounded /\ [Next]_vars => Bounded'
<1> SUFFICES ASSUME IndType, Bounded, [Next]_vars PROVE Bounded'
  OBVIOUS
<1>0. /\ places \in [PlaceCalls -> Place] /\ IsFiniteSet(Placed)
      /\ orders \in [Placed -> Order] /\ positions \in [Placed -> Position]
  BY DEF IndType, TypeOK, Bounded
<1>1. ASSUME NEW c \in PlaceCalls, NEW d \in Tradable, NEW key \in Keys, Begin(c, d, key)
      PROVE  Bounded'
  <2> DEFINE new == [pc |-> "lock", decision |-> d, key |-> key, begun |-> now,
                     approval |-> None, full |-> FALSE, answer |-> "none"]
  <2>1. /\ UNCHANGED tables /\ places' = [places EXCEPT ![c] = new]
        /\ new.pc = "lock"
    BY <1>1 DEF Begin
  <2> HIDE DEF new
  <2>2. QED
    BY <2>1, CallLeaves
<1>2. ASSUME NEW c \in PlaceCalls, NEW answer, Finish(c, answer)
      PROVE  Bounded'
  <2>1. UNCHANGED tables /\ places' = [places EXCEPT ![c] = IdlePlace(answer)]
    BY <1>2 DEF Finish
  <2>2. IdlePlace(answer).pc = "idle"
    BY DEF IdlePlace
  <2>3. QED
    BY <2>1, <2>2, CallLeaves
<1>3. ASSUME NEW c \in PlaceCalls, NEW pc, Advance(c, pc),
             \/ pc \in {"approval", "count"}
             \/ pc = "insert" /\ (places[c].decision \in Observing \/ c \in Coming)
      PROVE  Bounded'
  <2> DEFINE new == [places[c] EXCEPT !.pc = pc]
  <2>1. /\ UNCHANGED tables /\ places' = [places EXCEPT ![c] = new]
        /\ new.pc = pc /\ new.decision = places[c].decision
    BY <1>0, <1>3 DEF Advance, Place
  <2> HIDE DEF new
  <2>2. QED
    BY <1>3, <2>1, CallLeaves
<1>4. ASSUME NEW c \in PlaceCalls, EnsureApproved(c)
      PROVE  Bounded'
  <2>1. PICK g : /\ UNCHANGED tables
                 /\ places' = [places EXCEPT ![c].pc = "existing", ![c].approval = g.approval]
    BY <1>4 DEF EnsureApproved
  <2> DEFINE new == [places[c] EXCEPT !.pc = "existing", !.approval = g.approval]
  <2>2. places' = [places EXCEPT ![c] = new] /\ new.pc = "existing"
    BY <1>0, <2>1 DEF Place
  <2> HIDE DEF new
  <2>3. QED
    BY <2>1, <2>2, CallLeaves
<1>5. ASSUME NEW c \in PlaceCalls, CountOpen(c)
      PROVE  Bounded'
  <2> DEFINE full == Cardinality(OpenPositions) >= MaxOpenPositions
             new == [places[c] EXCEPT !.pc = "account", !.full = full]
  <2>1. /\ UNCHANGED tables /\ places' = [places EXCEPT ![c] = new]
        /\ new.pc = "account" /\ new.full = full
    BY <1>0, <1>5 DEF CountOpen, Place
  <2> HIDE DEF new
  <2>2. CASE full
    BY <2>1, <2>2, CallLeaves
  <2>3. CASE ~full
    <3>1. /\ Cardinality(OpenPositions) + 1 <= MaxOpenPositions
          /\ Cardinality(OpenTrading) <= Cardinality(OpenPositions)
          /\ Cardinality(OpenPositions) \in Nat /\ Cardinality(OpenTrading) \in Nat
          /\ Cardinality(PlaceCalls) \in Nat
      BY <1>0, <2>3, Counted
    <3>2. Placed' = Placed /\ OpenTrading' = OpenTrading
      BY <2>1 DEF tables, Placed, OpenTrading, OpenPositions
    <3>3. Cardinality(Coming') <= Cardinality(PlaceCalls) /\ Cardinality(Coming') \in Nat
      <4>1. Coming' \in SUBSET PlaceCalls
        BY DEF Coming
      <4>2. QED
        BY <4>1, FS_Subset, FS_CardinalityType
    <3>4. QED
      BY <1>0, <3>1, <3>2, <3>3 DEF Bounded, Overbooked
  <2>4. QED
    BY <2>2, <2>3
<1>6. ASSUME NEW c \in PlaceCalls, NEW o \in OrderIds, Insert(c, o)
      PROVE  Bounded'
  <2> DEFINE d == places[c].decision
             position == [decision |-> d, status |-> "OPEN"]
  <2>1. /\ places' = [places EXCEPT ![c] = IdlePlace("PAPER_FILLED")] /\ places[c].pc = "insert"
        /\ Placed' = Placed \cup {o} /\ o \notin Placed
        /\ positions' = [p \in Placed \cup {o} |-> IF p = o THEN position ELSE positions[p]]
    BY <1>6 DEF Insert, Placed
  <2>2. IsFiniteSet(Placed')
    BY <1>0, <2>1, FS_AddElement
  <2>3. \A p \in Placed' : positions'[p] = IF p = o THEN position ELSE positions[p]
    BY <2>1
  <2>4. IdlePlace("PAPER_FILLED").pc = "idle"
    BY DEF IdlePlace
  <2>5. Coming' = Coming \ {c}
    BY <1>0, <2>1, <2>4 DEF Coming
  <2>6. /\ IsFiniteSet(OpenTrading) /\ IsFiniteSet(Coming)
        /\ Cardinality(OpenTrading) \in Nat /\ Cardinality(Coming) \in Nat
        /\ Cardinality(PlaceCalls) \in Nat
    BY <1>0, Counted
  <2>7. CASE d \in Observing
    <3>1. OpenTrading' = OpenTrading
      BY <2>1, <2>3, <2>7 DEF OpenTrading, OpenPositions
    <3>2. c \notin Coming
      BY <2>7 DEF Coming
    <3>3. QED
      BY <2>2, <2>5, <3>1, <3>2 DEF Bounded
  <2>8. CASE d \notin Observing
    <3>1. OpenTrading' = OpenTrading \cup {o} /\ o \notin OpenTrading
      BY <2>1, <2>3, <2>8 DEF OpenTrading, OpenPositions
    <3>2. c \in Coming
      BY <2>1, <2>8 DEF Coming
    <3>3. /\ Cardinality(OpenTrading') = Cardinality(OpenTrading) + 1
          /\ Cardinality(Coming') = Cardinality(Coming) - 1
      BY <2>5, <2>6, <3>1, <3>2, FS_AddElement, FS_RemoveElement
    <3>4. QED
      BY <2>2, <2>6, <3>3 DEF Bounded, Overbooked
  <2>9. QED
    BY <2>7, <2>8
<1>7. ASSUME NEW o \in OrderIds, ClosePosition(o)
      PROVE  Bounded'
  <2>1. /\ UNCHANGED <<orders, places>> /\ o \in OpenPositions
        /\ positions' = [positions EXCEPT ![o].status = "CLOSED"]
    BY <1>7 DEF ClosePosition
  <2>2. \A p \in Placed : positions'[p] = IF p = o THEN [positions[o] EXCEPT !.status = "CLOSED"]
                                          ELSE positions[p]
    BY <1>0, <2>1
  <2>3. [positions[o] EXCEPT !.status = "CLOSED"].status = "CLOSED"
    BY <1>0, <2>1 DEF OpenPositions, Position
  <2>4. Placed' = Placed /\ OpenTrading' \subseteq OpenTrading /\ Coming' = Coming
    BY <2>1, <2>2, <2>3 DEF Placed, OpenTrading, OpenPositions, Coming
  <2>5. QED
    BY <2>4, Fewer
<1>8. CASE UNCHANGED <<tables, places>>
  <2>1. Placed' = Placed /\ OpenTrading' = OpenTrading /\ Coming' = Coming
    BY <1>8 DEF tables, Placed, OpenTrading, OpenPositions, Coming
  <2>2. QED
    BY <2>1, Fewer
<1>9. ASSUME NEW c \in PlaceCalls, PlaceStep(c)
      PROVE  Bounded'
  <2>1. CASE TakeLock(c)
    BY <1>3, <2>1 DEF TakeLock
  <2>2. CASE FindNoOrder(c)
    BY <1>3, <2>2 DEF FindNoOrder
  <2>3. CASE PassSecondCheck(c)
    <3>1. places[c].decision \in Observing \/ c \in Coming
      BY <2>3 DEF PassSecondCheck, Coming
    <3>2. QED
      BY <1>3, <2>3, <3>1 DEF PassSecondCheck
  <2>4. CASE \/ NotApproved(c) \/ FindExisting(c) \/ DuplicateKey(c) \/ Fail(c)
             \/ \E bad \in BOOLEAN : FailSecondCheck(c, bad)
    BY <1>2, <2>4 DEF NotApproved, FindExisting, DuplicateKey, Fail, FailSecondCheck
  <2>5. QED
    BY <1>4, <1>5, <1>6, <1>9, <2>1, <2>2, <2>3, <2>4 DEF PlaceStep, Work
<1>10. QED
  BY <1>1, <1>7, <1>8, <1>9 DEF Next, GateStep, NewSnapshot, Tick, vars, tables

LEMMA BoundedInit ==
    ASSUME IsFiniteSet(PlaceCalls), PlaceCalls # {}
    PROVE  Init => Bounded
<1> SUFFICES ASSUME Init PROVE Bounded
  OBVIOUS
<1>1. Placed = {} /\ OpenTrading = {}
  BY DEF Init, Placed, OpenTrading, OpenPositions
<1>2. Coming = {}
  BY DEF Init, Coming, IdlePlace
<1>3. Cardinality(PlaceCalls) \in Nat \ {0}
  BY FS_CardinalityType, FS_EmptySet
<1>4. QED
  BY <1>1, <1>2, <1>3, FS_EmptySet DEF Bounded, Overbooked

\* Concurrent calls open at most one position for each call beyond the first
\* above maxOpenPositions, however they interleave: the count of
\* RiskService.check is no transaction with the insert.
THEOREM OverbookedByCalls ==
    ASSUME IsFiniteSet(PlaceCalls), PlaceCalls # {}
    PROVE  Spec => [](Cardinality(OpenTrading) <= MaxOpenPositions + Cardinality(PlaceCalls) - 1)
<1>1. Bounded => Cardinality(OpenTrading) <= MaxOpenPositions + Cardinality(PlaceCalls) - 1
  BY Counted DEF Bounded, Overbooked
<1>2. QED
  BY <1>1, InitType, NextType, BoundedInit, BoundedNext, PTL DEF Spec

-----------------------------------------------------------------------------
(* The paper broker uses the order service as PaperOrder allows: what is   *)
(* proved of every use holds of the broker's, with its polling, timeouts   *)
(* and restarts.                                                           *)

USE BrokerAssumption

-----------------------------------------------------------------------------
(* Type correctness *)

LEMMA TailNotEmpty ==
    ASSUME NEW S, NEW s \in Seq(S), s # <<>>, Len(s) # 1
    PROVE  Tail(s) \in Seq(S) /\ Tail(s) # <<>>
<1>1. Len(s) \in Nat /\ Len(s) # 0
  OBVIOUS
<1>2. \A n \in Nat : n # 0 /\ n # 1 => n - 1 # 0
  OBVIOUS
<1>3. Tail(s) \in Seq(S) /\ Len(Tail(s)) = Len(s) - 1
  BY HeadTailProperties
<1>4. Len(Tail(s)) # 0
  BY ONLY <1>1, <1>2, <1>3, Len(s) # 1
<1>5. QED
  BY <1>3, <1>4, EmptySeq

\* There is a decision to send or to await, and the query's rows are finitely
\* many.
BrokerInv ==
    /\ BrokerTypeOK
    /\ broker.pc # "poll" => broker.queue # <<>>
    /\ broker = [pc |-> broker.pc, queue |-> broker.queue, call |-> broker.call]
    /\ IsFiniteSet(grants)

LEMMA AnswersType ==
    ASSUME IndType, IsFiniteSet(grants), NEW queue \in Answers
    PROVE  queue \in Seq(Tradable)
<1>1. PICK rows \in Sorted : queue = [i \in 1..Count(rows) |-> rows[i].decision]
  BY DEF Answers
<1>2. IsFiniteSet(Waiting) /\ Waiting \subseteq grants
  BY FS_Subset DEF Waiting
<1>3. Cardinality(Waiting) \in Nat /\ rows \in [1..Cardinality(Waiting) -> Waiting]
  BY <1>2, FS_CardinalityType DEF Sorted, SetToSeqs
<1>4. Len(rows) = Cardinality(Waiting) /\ Count(rows) \in Nat /\ Count(rows) <= Cardinality(Waiting)
  <2>1. rows \in Seq(Waiting)
    BY <1>3
  <2>2. QED
    BY <1>3, <2>1 DEF Count
<1>5. \A g \in Waiting : g.decision \in Tradable
  BY <1>2 DEF IndType, TypeOK, Gate!Grants
<1>6. queue \in [1..Count(rows) -> Tradable]
  BY <1>1, <1>3, <1>4, <1>5
<1>7. QED
  BY <1>4, <1>6

LEMMA FiniteGrants ==
    ASSUME IndType, IsFiniteSet(grants), [Next]_vars
    PROVE  IsFiniteSet(grants')
<1>1. CASE grants' = grants
  BY <1>1
<1>2. ASSUME NEW d \in Tradable, NEW id \in ApprovalIds, NEW op \in PermittedOperators,
             Gate!GrantOffer(d, id, op)
      PROVE  IsFiniteSet(grants')
  <2> DEFINE grant == [approval |-> id, decision |-> d, at |-> now, by |-> op]
  <2>1. grants' = grants \cup {grant}
    BY <1>2 DEF Gate!GrantOffer
  <2> HIDE DEF grant
  <2>2. QED
    BY <2>1, FS_AddElement
<1>3. \/ grants' = grants
      \/ \E d \in Tradable, id \in ApprovalIds, op \in PermittedOperators : Gate!GrantOffer(d, id, op)
  BY NextGrants
<1>4. QED
  BY <1>1, <1>2, <1>3

\* Every step of the broker's world is a step of the order service's.
LEMMA StepIsOrderStep == BrokerInv /\ [BrokerNext]_brokerVars => [Next]_vars
<1> SUFFICES ASSUME BrokerInv, [BrokerNext]_brokerVars PROVE [Next]_vars
  OBVIOUS
<1>1. ASSUME NEW c \in PlaceCalls, Send(c)
      PROVE  Next
  <2>1. broker.queue \in Seq(Tradable) /\ broker.queue # <<>>
    BY <1>1 DEF Send, BrokerInv, BrokerTypeOK
  <2>2. Head(broker.queue) \in Tradable /\ DefaultKey(Head(broker.queue)) \in Keys
    BY <2>1 DEF Keys
  <2>3. QED
    BY <1>1, <2>2 DEF Send, Next
<1>2. CASE World
  BY <1>2 DEF World, Next
<1>3. CASE Poll \/ Answered \/ TimeOut \/ Restart \/ UNCHANGED brokerVars
  BY <1>3 DEF Poll, Answered, TimeOut, NextDecision, Restart, brokerVars
<1>4. QED
  BY <1>1, <1>2, <1>3 DEF BrokerNext, BrokerStep

LEMMA BrokerInitInv == BrokerInit => BrokerInv
<1> SUFFICES ASSUME BrokerInit PROVE BrokerInv
  OBVIOUS
<1>1. /\ broker.pc = "poll" /\ broker.queue = <<>> /\ broker.call = None
      /\ broker = [pc |-> broker.pc, queue |-> broker.queue, call |-> broker.call]
  BY DEF BrokerInit, Polling
<1>2. grants = {} /\ IsFiniteSet(grants)
  BY FS_EmptySet DEF BrokerInit, Init, Gate!Init
<1>3. QED
  BY <1>1, <1>2 DEF BrokerInit, BrokerInv, BrokerTypeOK

LEMMA BrokerInductive ==
    IndType /\ BrokerInv /\ [BrokerNext]_brokerVars => BrokerInv'
<1> SUFFICES ASSUME IndType, BrokerInv, [BrokerNext]_brokerVars PROVE BrokerInv'
  OBVIOUS
<1> USE DEF BrokerInv, BrokerTypeOK
<1>0. IsFiniteSet(grants')
  BY FiniteGrants, StepIsOrderStep
<1>1. CASE Poll
  <2>1. PICK queue \in Answers : /\ queue # <<>>
                                 /\ broker' = [broker EXCEPT !.pc = "send", !.queue = queue]
    BY <1>1 DEF Poll
  <2>2. queue \in Seq(Tradable)
    BY AnswersType
  <2>3. /\ broker'.pc = "send" /\ broker'.queue = queue /\ broker'.call = broker.call
        /\ broker' = [pc |-> "send", queue |-> queue, call |-> broker.call]
    BY <2>1
  <2>4. QED
    BY <1>0, <1>1, <2>1, <2>2, <2>3 DEF Poll
<1>2. ASSUME NEW c \in PlaceCalls, Send(c)
      PROVE  BrokerInv'
  <2>1. /\ broker'.pc = "await" /\ broker'.queue = broker.queue /\ broker'.call = c
        /\ broker' = [pc |-> "await", queue |-> broker.queue, call |-> c]
    BY <1>2 DEF Send
  <2>2. QED
    BY <1>0, <1>2, <2>1 DEF Send
<1>3. ASSUME broker' = Polling, restarts' \in 0..MaxRestarts
      PROVE  BrokerInv'
  <2>1. /\ broker'.pc = "poll" /\ broker'.queue = <<>> /\ broker'.call = None
        /\ broker' = [pc |-> "poll", queue |-> <<>>, call |-> None]
    BY <1>3 DEF Polling
  <2>2. QED
    BY <1>0, <1>3, <2>1
<1>4. CASE Answered \/ TimeOut
  <2>1. broker.queue \in Seq(Tradable) /\ broker.queue # <<>> /\ NextDecision
    BY <1>4 DEF Answered, TimeOut
  <2>2. CASE Len(broker.queue) = 1
    BY <1>3, <2>1, <2>2 DEF NextDecision
  <2>3. CASE Len(broker.queue) # 1
    <3>1. Tail(broker.queue) \in Seq(Tradable) /\ Tail(broker.queue) # <<>>
      BY <2>1, <2>3, TailNotEmpty
    <3>2. /\ broker'.pc = "send" /\ broker'.queue = Tail(broker.queue) /\ broker'.call = None
          /\ broker' = [pc |-> "send", queue |-> Tail(broker.queue), call |-> None]
      BY <2>1, <2>3 DEF NextDecision
    <3>3. QED
      BY <1>0, <2>1, <3>1, <3>2 DEF NextDecision
  <2>4. QED
    BY <2>2, <2>3
<1>5. CASE Restart
  BY <1>3, <1>5 DEF Restart
<1>6. CASE World \/ UNCHANGED brokerVars
  BY <1>0, <1>6 DEF World, brokerVars
<1>7. QED
  BY <1>1, <1>2, <1>4, <1>5, <1>6 DEF BrokerNext, BrokerStep

\* The broker's own state is well typed in every reachable state.
THEOREM BrokerTypeCorrect == BrokerSpec => []BrokerTypeOK
<1>1. BrokerInit => Init
  BY DEF BrokerInit
<1>2. BrokerInit => IndType
  BY <1>1, InitType
<1>3. IndType /\ BrokerInv /\ [BrokerNext]_brokerVars => IndType' /\ BrokerInv'
  BY StepIsOrderStep, NextType, BrokerInductive
<1>4. BrokerInv => BrokerTypeOK
  BY DEF BrokerInv
<1>5. QED
  BY <1>2, <1>3, <1>4, BrokerInitInv, PTL DEF BrokerSpec

\* The broker's use of the order service, with its polling, timeouts and
\* restarts, is one PaperOrder allows.
THEOREM UsesOrders == BrokerSpec => Spec
<1>1. BrokerInit => Init
  BY DEF BrokerInit
<1>2. BrokerInit => IndType
  BY <1>1, InitType
<1>3. IndType /\ BrokerInv /\ [BrokerNext]_brokerVars => IndType' /\ BrokerInv'
  BY StepIsOrderStep, NextType, BrokerInductive
<1>4. QED
  BY <1>1, <1>2, <1>3, BrokerInitInv, StepIsOrderStep, PTL DEF BrokerSpec, Spec

\* However often the broker asks again for a decision whose request it gave up
\* or forgot, the decision is executed at most once, on an approval of its own.
THEOREM RetriesExecuteOnce == BrokerSpec => OnceSpec
BY UsesOrders, ImplementsOnce, PTL

\* The limit the broker's use of the service does keep: a place it gave up after
\* 20 seconds may run beside the next, and each such call may open one position
\* above maxOpenPositions; its repeated asking, its rounds and its restarts add
\* nothing to that.
THEOREM BrokerOverbooks ==
    ASSUME IsFiniteSet(PlaceCalls), PlaceCalls # {}
    PROVE  BrokerSpec => [](Cardinality(OpenTrading) <= MaxOpenPositions + Cardinality(PlaceCalls) - 1)
BY UsesOrders, OverbookedByCalls, PTL
=============================================================================
