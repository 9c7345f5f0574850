---------------------- MODULE OrderStateMachineProofs ----------------------
(***************************************************************************)
(* Proofs about OrderStateMachine, for any sets of orders, broker ids,     *)
(* quantities and prices.  The inductive invariant IInv is the conjunction *)
(* of the type invariant, the invariants the run oms_small checks, and     *)
(* NotionalTracksFills, which says when the history variable is defined.   *)
(***************************************************************************)
EXTENDS OrderStateMachine, TLAPS

\* The history sum is zero before the first execution, and while it is
\* defined an order with executions has an average.
NotionalTracksFills ==
  \A c \in ClientOrderIds : notional[c] # None =>
    \/ ~Registered(c) /\ notional[c] = 0
    \/ Registered(c) /\ states[c].filled_quantity = 0 /\ notional[c] = 0
    \/ Registered(c) /\ states[c].filled_quantity # 0

IInv ==
  /\ TypeOK
  /\ FillsWithinOrder
  /\ AcknowledgedOrdersCorrelated
  /\ CorrelationImpliesAcknowledged
  /\ NotionalTracksFills
  /\ AverageIsVolumeWeighted
-----------------------------------------------------------------------------
\* The type invariant: every reachable state of the OMS is well typed.
LEMMA InitTypeOK == Init => TypeOK
  BY OMSAssumption DEF Init, TypeOK

LEMMA WeightedType ==
  ASSUME NEW a \in Fractions, NEW f \in Int, NEW p \in Int, NEW q \in Int
  PROVE  Weighted(a, f, p, q) \in Fractions
  BY DEF Weighted, Fractions

LEMMA AverageAfterType ==
  ASSUME NEW order \in OrderState, NEW report \in ExecutionReport
  PROVE  AverageAfter(order, report) \in Fractions \cup {None}
<1> USE OMSAssumption
<1>1. /\ order.average_execution_price \in Fractions \cup {None}
      /\ order.filled_quantity \in Int
      /\ report.filled_quantity \in Int
      /\ Priced(report) => report.execution_price \in Int
  BY DEF OrderState, ExecutionReport, Priced
<1>2. Priced(report) => [num |-> report.execution_price, den |-> 1] \in Fractions
  BY <1>1 DEF Fractions
<1> QED
  BY <1>1, <1>2, WeightedType DEF AverageAfter

LEMMA ExecuteType ==
  ASSUME NEW order \in OrderState, NEW report \in ExecutionReport
  PROVE  Execute(order, report) \in OrderState
<1>1. AverageAfter(order, report) \in Fractions \cup {None}
  BY AverageAfterType
<1>2. order.filled_quantity + report.filled_quantity \in Int
  BY OMSAssumption DEF OrderState, ExecutionReport
<1>3. report.status \in Statuses
  BY DEF ExecutionReport
<1> QED
  BY <1>1, <1>2, <1>3 DEF Execute, OrderState

LEMMA ExecuteFields ==
  ASSUME NEW order \in OrderState, NEW report \in ExecutionReport
  PROVE  LET new == Execute(order, report)
         IN  /\ new.status = report.status
             /\ new.broker_order_id = order.broker_order_id
             /\ new.order_quantity = order.order_quantity
             /\ new.filled_quantity = order.filled_quantity + report.filled_quantity
             /\ new.broker_order_command = order.broker_order_command
             /\ new.average_execution_price = AverageAfter(order, report)
  BY DEF Execute, OrderState

LEMMA AcknowledgeFields ==
  ASSUME NEW order \in OrderState, NEW event \in OrderAckEvent
  PROVE  LET new == Acknowledge(order, event)
         IN  /\ new \in OrderState
             /\ new.status \in {"ACKED", "REJECTED"}
             /\ new.status = "ACKED" => event.accepted
             /\ new.broker_order_id = event.broker_order_id
             /\ new.order_quantity = order.order_quantity
             /\ new.filled_quantity = order.filled_quantity
             /\ new.broker_order_command = order.broker_order_command
             /\ new.average_execution_price = order.average_execution_price
<1>1. Acknowledge(order, event) \in OrderState
  BY DEF OrderState, Statuses, Acknowledge, OrderAckEvent
<1> QED
  BY <1>1 DEF Acknowledge, OrderState

LEMMA NextTypeOK == TypeOK /\ [Next]_vars => TypeOK'
<1> SUFFICES ASSUME TypeOK, [Next]_vars PROVE TypeOK'
  OBVIOUS
<1> USE OMSAssumption
<1>1. ASSUME NEW c \in ClientOrderIds, NEW q \in Quantities, ApplyIntent(c, q)
      PROVE  TypeOK'
  <2>1. NewOrder(q) \in OrderState
    BY DEF NewOrder, OrderState, Statuses
  <2> QED
    BY <1>1, <2>1 DEF ApplyIntent, TypeOK
<1>2. ASSUME NEW command \in Commands, RegisterBrokerOrderCommand(command)
      PROVE  TypeOK'
  <2> DEFINE c == command.client_order_id
  <2>1. c \in ClientOrderIds /\ states[c] \in OrderState
    BY <1>2 DEF RegisterBrokerOrderCommand, CommandAdmitted, TypeOK
  <2>2. [states[c] EXCEPT !.broker_order_command = command] \in OrderState
    BY <2>1 DEF OrderState
  <2> QED
    BY <1>2, <2>1, <2>2 DEF RegisterBrokerOrderCommand, TypeOK
<1>3. ASSUME NEW event \in OrderAckEvent, ApplyAck(event)
      PROVE  TypeOK'
  <2> DEFINE c == event.client_order_id
  <2>1. c \in ClientOrderIds /\ states[c] \in OrderState
    BY <1>3 DEF ApplyAck, AckAdmitted, TypeOK, OrderAckEvent
  <2>2. Acknowledge(states[c], event) \in OrderState
    BY <2>1 DEF OrderState, Statuses, Acknowledge, OrderAckEvent
  <2>3. states' \in [ClientOrderIds -> OrderState \cup {None}]
    BY <1>3, <2>1, <2>2 DEF ApplyAck, TypeOK
  <2>4. broker_to_client' \in [BrokerOrderIds -> ClientOrderIds \cup {None}]
    BY <1>3, <2>1 DEF ApplyAck, TypeOK
  <2> QED
    BY <1>3, <2>3, <2>4 DEF ApplyAck, TypeOK
<1>4. ASSUME NEW report \in ExecutionReport, ApplyExecution(report)
      PROVE  TypeOK'
  <2> DEFINE c == report.client_order_id
  <2>1. c \in ClientOrderIds /\ states[c] \in OrderState
    BY <1>4 DEF ApplyExecution, ExecutionAdmitted, TypeOK, ExecutionReport
  <2>2. Execute(states[c], report) \in OrderState
    BY <2>1, ExecuteType
  <2>3. NotionalAfter(notional[c], report) \in Int \cup {None}
    <3>1. notional[c] \in Int \cup {None}
      BY <2>1 DEF TypeOK
    <3>2. /\ report.filled_quantity \in Int
          /\ Priced(report) => report.execution_price \in Int
      BY DEF ExecutionReport, Priced
    <3> QED
      BY <3>1, <3>2 DEF NotionalAfter
  <2> QED
    BY <1>4, <2>1, <2>2, <2>3 DEF ApplyExecution, TypeOK
<1>5. CASE UNCHANGED vars
  BY <1>5 DEF vars, TypeOK
<1> QED
  BY <1>1, <1>2, <1>3, <1>4, <1>5 DEF Next

\* Every reachable state of the OMS is well typed, whatever the callers send.
THEOREM TypeCorrect == Spec => []TypeOK
  BY InitTypeOK, NextTypeOK, PTL DEF Spec
-----------------------------------------------------------------------------
\* The volume-weighted step: if num / den is the average of `filled` units
\* worth `sum`, Weighted is the average after `quantity` more at `price`.
LEMMA WeightedCorrect ==
  ASSUME NEW num \in Int, NEW den \in Int, NEW filled \in Int, NEW sum \in Int,
         NEW price \in Int, NEW quantity \in Int,
         num * filled = sum * den
  PROVE  (num * filled + price * den * quantity) * (filled + quantity)
           = (sum + price * quantity) * (den * (filled + quantity))
<1> DEFINE total == filled + quantity
<1>1. num * filled + price * den * quantity = sum * den + price * den * quantity
  OBVIOUS
<1>2. sum * den + price * den * quantity = (sum + price * quantity) * den
  OBVIOUS
<1>3. \A x, y, t \in Int : x = y => x * t = y * t
  OBVIOUS
<1>4. \A x, d, t \in Int : (x * d) * t = x * (d * t)
  OBVIOUS
<1>5. num * filled + price * den * quantity = (sum + price * quantity) * den
  BY <1>1, <1>2
<1> DEFINE L == num * filled + price * den * quantity
<1> DEFINE S == sum + price * quantity
<1>6. L \in Int /\ S \in Int /\ S * den \in Int /\ total \in Int
  OBVIOUS
<1>7. L = S * den
  BY <1>5
<1> HIDE DEF L, S, total
<1>8. L * total = (S * den) * total
  BY <1>3, <1>6, <1>7
<1>9. (S * den) * total = S * (den * total)
  BY <1>4, <1>6
<1>10. L * total = S * (den * total)
  BY <1>8, <1>9
<1> QED
  BY <1>10 DEF L, S, total
-----------------------------------------------------------------------------
\* The inductive step, one lemma per operation.

LEMMA InitIInv == Init => IInv
<1> SUFFICES ASSUME Init PROVE IInv
  OBVIOUS
<1>1. \A c \in ClientOrderIds : ~Registered(c) /\ notional[c] = 0
  BY DEF Init, Registered
<1>2. \A b \in BrokerOrderIds : broker_to_client[b] = None
  BY DEF Init
<1> QED
  BY <1>1, <1>2, InitTypeOK
  DEF IInv, FillsWithinOrder, AcknowledgedOrdersCorrelated,
      CorrelationImpliesAcknowledged, NotionalTracksFills, AverageIsVolumeWeighted

LEMMA IntentStep ==
  ASSUME IInv, TypeOK', NEW c \in ClientOrderIds, NEW q \in Quantities, ApplyIntent(c, q)
  PROVE  IInv'
<1> USE OMSAssumption
<1>1. /\ q \in Int /\ q > 0 /\ ~Registered(c)
      /\ UNCHANGED <<broker_to_client, notional>>
      /\ \A d \in ClientOrderIds : d # c => states'[d] = states[d]
  BY DEF ApplyIntent, IntentAdmitted, IInv, TypeOK
<1>2. /\ states'[c].status = "SUBMITTED"
      /\ states'[c].order_quantity = q
      /\ states'[c].filled_quantity = 0
      /\ states'[c] # None
  <2>1. states'[c] = NewOrder(q)
    BY DEF ApplyIntent, IInv, TypeOK
  <2>2. NewOrder(q) \in OrderState
    BY <2>1 DEF NewOrder, OrderState, Statuses
  <2> QED
    BY <2>1, <2>2 DEF NewOrder
<1>3. FillsWithinOrder'
  BY <1>1, <1>2 DEF IInv, FillsWithinOrder, Registered
<1>4. AcknowledgedOrdersCorrelated'
  BY <1>1, <1>2 DEF IInv, AcknowledgedOrdersCorrelated, Registered, Acknowledged
<1>5. CorrelationImpliesAcknowledged'
  BY <1>1, <1>2 DEF IInv, CorrelationImpliesAcknowledged, Registered, TypeOK
<1>6. NotionalTracksFills'
  BY <1>1, <1>2 DEF IInv, NotionalTracksFills, Registered
<1>7. AverageIsVolumeWeighted'
  BY <1>1, <1>2 DEF IInv, AverageIsVolumeWeighted, Registered
<1> QED
  BY <1>3, <1>4, <1>5, <1>6, <1>7 DEF IInv

\* register_broker_order_command changes no field the invariants read.
LEMMA CommandStep ==
  ASSUME IInv, TypeOK', NEW command \in Commands, RegisterBrokerOrderCommand(command)
  PROVE  IInv'
<1> USE OMSAssumption
<1> DEFINE c == command.client_order_id
<1>1. /\ c \in ClientOrderIds /\ states[c] \in OrderState
      /\ UNCHANGED <<broker_to_client, notional>>
      /\ states' = [states EXCEPT ![c].broker_order_command = command]
  BY DEF RegisterBrokerOrderCommand, CommandAdmitted, IInv, TypeOK
<1>2. \A d \in ClientOrderIds :
        /\ Registered(d)' <=> Registered(d)
        /\ Registered(d) =>
             /\ states'[d].status = states[d].status
             /\ states'[d].broker_order_id = states[d].broker_order_id
             /\ states'[d].order_quantity = states[d].order_quantity
             /\ states'[d].filled_quantity = states[d].filled_quantity
             /\ states'[d].average_execution_price = states[d].average_execution_price
  <2>1. [states[c] EXCEPT !.broker_order_command = command] \in OrderState
    BY <1>1 DEF OrderState
  <2> QED
    BY <1>1, <2>1 DEF IInv, TypeOK, OrderState, Registered
<1>3. FillsWithinOrder'
  BY <1>2 DEF IInv, FillsWithinOrder
<1>4. AcknowledgedOrdersCorrelated'
  BY <1>1, <1>2 DEF IInv, AcknowledgedOrdersCorrelated
<1>5. CorrelationImpliesAcknowledged'
  BY <1>1, <1>2 DEF IInv, CorrelationImpliesAcknowledged, TypeOK
<1>6. NotionalTracksFills'
  BY <1>1, <1>2 DEF IInv, NotionalTracksFills
<1>7. AverageIsVolumeWeighted'
  BY <1>1, <1>2 DEF IInv, AverageIsVolumeWeighted
<1> QED
  BY <1>3, <1>4, <1>5, <1>6, <1>7 DEF IInv

LEMMA AckStep ==
  ASSUME IInv, TypeOK', NEW event \in OrderAckEvent, ApplyAck(event)
  PROVE  IInv'
<1> USE OMSAssumption
<1> DEFINE c == event.client_order_id
           b == event.broker_order_id
<1>1. /\ c \in ClientOrderIds /\ states[c] \in OrderState
      /\ Registered(c)
      /\ states[c].status \in {"SUBMITTED", "ACKED"}
      /\ event.accepted => b \in BrokerOrderIds /\ broker_to_client[b] \in {None, c}
      /\ UNCHANGED notional
  BY DEF ApplyAck, AckAdmitted, IInv, TypeOK, OrderAckEvent, Registered
<1>2. /\ \A d \in ClientOrderIds : d # c => states'[d] = states[d]
      /\ states'[c].status \in {"ACKED", "REJECTED"}
      /\ states'[c].status = "ACKED" => event.accepted
      /\ states'[c].broker_order_id = b
      /\ states'[c].order_quantity = states[c].order_quantity
      /\ states'[c].filled_quantity = states[c].filled_quantity
      /\ states'[c].average_execution_price = states[c].average_execution_price
      /\ Registered(c)'
  <2>1. \A d \in ClientOrderIds : d # c => states'[d] = states[d]
    BY <1>1 DEF ApplyAck, IInv, TypeOK
  <2>2. states'[c] = Acknowledge(states[c], event)
    BY <1>1 DEF ApplyAck, IInv, TypeOK
  <2>3. states'[c] # None
    BY <1>1, <2>2, AcknowledgeFields
  <2>4. /\ states'[c].status \in {"ACKED", "REJECTED"}
        /\ states'[c].status = "ACKED" => event.accepted
        /\ states'[c].broker_order_id = b
        /\ states'[c].order_quantity = states[c].order_quantity
        /\ states'[c].filled_quantity = states[c].filled_quantity
        /\ states'[c].average_execution_price = states[c].average_execution_price
    BY <1>1, <2>2, AcknowledgeFields
  <2>5. Registered(c)'
    BY <2>3 DEF Registered
  <2> QED
    BY <2>1, <2>4, <2>5
<1>3. /\ event.accepted => broker_to_client'[b] = c
      /\ \A e \in BrokerOrderIds :
           broker_to_client'[e] = broker_to_client[e] \/ (event.accepted /\ e = b)
  BY <1>1 DEF ApplyAck, IInv, TypeOK
<1>4. FillsWithinOrder'
  <2>1. states[c].filled_quantity \in 0 .. states[c].order_quantity
    BY <1>1 DEF IInv, FillsWithinOrder
  <2>2. ~(states[c].filled_quantity > 0)
    BY <1>1 DEF IInv, FillsWithinOrder
  <2> QED
    BY <1>1, <1>2, <2>1, <2>2 DEF IInv, FillsWithinOrder, Registered
<1>5. AcknowledgedOrdersCorrelated'
  <2> SUFFICES ASSUME NEW d \in ClientOrderIds,
                      Registered(d)', states'[d].status \in Acknowledged
               PROVE  /\ states'[d].broker_order_id # None
                      /\ broker_to_client'[states'[d].broker_order_id] = d
    BY DEF AcknowledgedOrdersCorrelated, Acknowledged
  <2>1. CASE d = c
    BY <2>1, <1>1, <1>2, <1>3 DEF Acknowledged
  <2>2. CASE d # c
    <3>1. /\ states[d].broker_order_id # None
          /\ broker_to_client[states[d].broker_order_id] = d
          /\ states'[d].broker_order_id = states[d].broker_order_id
          /\ states[d].broker_order_id \in BrokerOrderIds
      BY <2>2, <1>2 DEF IInv, AcknowledgedOrdersCorrelated, Registered, TypeOK, OrderState
    <3> QED
      BY <2>2, <3>1, <1>1, <1>3
  <2> QED
    BY <2>1, <2>2
<1>6. CorrelationImpliesAcknowledged'
  <2> SUFFICES ASSUME NEW e \in BrokerOrderIds, broker_to_client'[e] # None
               PROVE  /\ Registered(broker_to_client[e])'
                      /\ states'[broker_to_client'[e]].status # "SUBMITTED"
    BY DEF CorrelationImpliesAcknowledged
  <2>1. CASE event.accepted /\ e = b
    BY <2>1, <1>2, <1>3
  <2>2. CASE broker_to_client'[e] = broker_to_client[e]
    BY <2>2, <1>1, <1>2 DEF IInv, CorrelationImpliesAcknowledged, Registered, TypeOK
  <2> QED
    BY <2>1, <2>2, <1>3
<1>7. NotionalTracksFills'
  BY <1>1, <1>2 DEF IInv, NotionalTracksFills, Registered
<1>8. AverageIsVolumeWeighted'
  BY <1>1, <1>2 DEF IInv, AverageIsVolumeWeighted, Registered
<1> QED
  BY <1>4, <1>5, <1>6, <1>7, <1>8 DEF IInv

LEMMA ExecutionStep ==
  ASSUME IInv, TypeOK', NEW report \in ExecutionReport, ApplyExecution(report)
  PROVE  IInv'
<1> USE OMSAssumption
<1> DEFINE c == report.client_order_id
           q == report.filled_quantity
           order == states[c]
           filled == order.filled_quantity
<1>1. /\ c \in ClientOrderIds /\ order \in OrderState /\ Registered(c)
      /\ q \in Int /\ filled \in Int /\ order.order_quantity \in Int
      /\ q > 0
      /\ filled + q <= order.order_quantity
      /\ order.status \in {"ACKED", "PARTIALLY_FILLED"}
      /\ report.status \in {"PARTIALLY_FILLED", "FILLED"}
      /\ UNCHANGED broker_to_client
  BY DEF ApplyExecution, ExecutionAdmitted, IInv, TypeOK, OrderState, ExecutionReport, Registered
<1>2. /\ \A d \in ClientOrderIds : d # c => states'[d] = states[d] /\ notional'[d] = notional[d]
      /\ states'[c].status = report.status
      /\ states'[c].broker_order_id = order.broker_order_id
      /\ states'[c].order_quantity = order.order_quantity
      /\ states'[c].filled_quantity = filled + q
      /\ states'[c].average_execution_price = AverageAfter(order, report)
      /\ notional'[c] = NotionalAfter(notional[c], report)
      /\ Registered(c)'
  <2>1. Execute(order, report) # None
    BY <1>1, ExecuteType
  <2>2. /\ states'[c] = Execute(order, report)
        /\ notional'[c] = NotionalAfter(notional[c], report)
        /\ \A d \in ClientOrderIds : d # c => states'[d] = states[d] /\ notional'[d] = notional[d]
    BY <1>1 DEF ApplyExecution, IInv, TypeOK
  <2> QED
    BY <1>1, <2>1, <2>2, ExecuteFields DEF Registered
<1>3. FillsWithinOrder'
  <2>1. filled \in 0 .. order.order_quantity
    BY <1>1 DEF IInv, FillsWithinOrder
  <2> QED
    BY <1>1, <1>2, <2>1 DEF IInv, FillsWithinOrder, Registered
<1>4. AcknowledgedOrdersCorrelated'
  BY <1>1, <1>2 DEF IInv, AcknowledgedOrdersCorrelated, Registered, Acknowledged
<1>5. CorrelationImpliesAcknowledged'
  BY <1>1, <1>2 DEF IInv, CorrelationImpliesAcknowledged, Registered, TypeOK
<1>6. NotionalTracksFills'
  <2>1. filled >= 0
    BY <1>1 DEF IInv, FillsWithinOrder
  <2> QED
    BY <1>1, <1>2, <2>1 DEF IInv, NotionalTracksFills, Registered
<1>7. AverageIsVolumeWeighted'
  <2> DEFINE p == report.execution_price
             average == order.average_execution_price
             sum == notional[c]
  <2> SUFFICES ASSUME notional'[c] # None
               PROVE  LET new == states'[c].average_execution_price
                      IN  /\ new # None
                          /\ new.num * (filled + q) = notional'[c] * new.den
    BY <1>1, <1>2 DEF IInv, AverageIsVolumeWeighted, Registered
  <2>1. /\ sum \in Int /\ sum # None /\ Priced(report) /\ p \in Int
        /\ notional'[c] = sum + p * q
    BY <1>1, <1>2 DEF NotionalAfter, Priced, IInv, TypeOK, ExecutionReport
  <2>2. filled >= 0
    BY <1>1 DEF IInv, FillsWithinOrder
  <2>3. CASE filled = 0
    <3>1. sum = 0
      BY <1>1, <2>1, <2>3 DEF IInv, NotionalTracksFills
    <3>2. states'[c].average_execution_price = [num |-> p, den |-> 1]
      BY <1>2, <2>1, <2>3 DEF AverageAfter
    <3>3. p * (filled + q) = (sum + p * q) * 1
      BY <1>1, <2>1, <2>3, <3>1
    <3>4. [num |-> p, den |-> 1] # None
      BY <2>1 DEF Fractions
    <3> QED
      BY <3>2, <3>3, <3>4, <2>1
  <2>4. CASE filled > 0
    <3>1. average # None /\ average.num * filled = sum * average.den
      BY <1>1, <2>1, <2>4 DEF IInv, AverageIsVolumeWeighted
    <3>2. average \in Fractions /\ average.num \in Int /\ average.den \in Int
      BY <1>1, <3>1 DEF OrderState, Fractions
    <3>3. states'[c].average_execution_price = Weighted(average, filled, p, q)
      BY <1>1, <1>2, <2>1, <2>4, <3>1 DEF AverageAfter
    <3> DEFINE n == average.num
               d == average.den
    <3>a. /\ n \in Int /\ d \in Int /\ filled \in Int /\ sum \in Int
          /\ p \in Int /\ q \in Int /\ n * filled = sum * d
          /\ average \in Fractions
      BY <1>1, <2>1, <3>1, <3>2
    <3> HIDE DEF n, d, filled, sum, p, q, average
    <3>4. (n * filled + p * d * q) * (filled + q) = (sum + p * q) * (d * (filled + q))
      BY <3>a, WeightedCorrect
    <3>5. Weighted(average, filled, p, q) # None
      BY <3>a, WeightedType
    <3> USE DEF n, d, filled, sum, p, q, average
    <3> QED
      BY <2>1, <3>3, <3>4, <3>5 DEF Weighted
  <2> QED
    BY <1>1, <2>2, <2>3, <2>4
<1> QED
  BY <1>3, <1>4, <1>5, <1>6, <1>7 DEF IInv

\* Apart from what the types bound, IInv reads only the three variables.
LEMMA StutterIInv == IInv /\ UNCHANGED vars => IInv'
  BY DEF vars, IInv, TypeOK, FillsWithinOrder, AcknowledgedOrdersCorrelated,
         CorrelationImpliesAcknowledged, NotionalTracksFills, AverageIsVolumeWeighted,
         Registered

LEMMA NextIInv == IInv /\ [Next]_vars => IInv'
<1> SUFFICES ASSUME IInv, [Next]_vars PROVE IInv'
  OBVIOUS
<1>1. TypeOK'
  BY NextTypeOK DEF IInv
<1> QED
  BY <1>1, IntentStep, CommandStep, AckStep, ExecutionStep, StutterIInv DEF Next

\* The invariants of the run oms_small, for every instance: fills stay within
\* the order, acknowledged orders and correlations agree, and averages are
\* volume weighted.
THEOREM OMSInvariant == Spec => []IInv
<1>1. IInv /\ [Next]_vars => IInv'
  BY NextIInv
<1> QED
  BY <1>1, InitIInv, PTL DEF Spec

\* No sequence of calls fills an order beyond its quantity.
THEOREM NeverOverfilled == Spec => []FillsWithinOrder
<1>1. IInv => FillsWithinOrder
  BY DEF IInv
<1> QED
  BY <1>1, OMSInvariant, PTL

\* An order the broker accepted can always be found again by the id it carries.
THEOREM AcknowledgedStayCorrelated == Spec => []AcknowledgedOrdersCorrelated
<1>1. IInv => AcknowledgedOrdersCorrelated
  BY DEF IInv
<1> QED
  BY <1>1, OMSInvariant, PTL

\* _broker_to_client never knows of an acknowledgement _states does not.
THEOREM CorrelationAgrees == Spec => []CorrelationImpliesAcknowledged
<1>1. IInv => CorrelationImpliesAcknowledged
  BY DEF IInv
<1> QED
  BY <1>1, OMSInvariant, PTL

\* The incremental average is the volume-weighted mean of the executions.
THEOREM AverageCorrect == Spec => []AverageIsVolumeWeighted
<1>1. IInv => AverageIsVolumeWeighted
  BY DEF IInv
<1> QED
  BY <1>1, OMSInvariant, PTL

\* Two orders that may execute never share a broker id.
THEOREM AcknowledgedIdsDistinct ==
  ASSUME IInv, NEW c \in ClientOrderIds, NEW d \in ClientOrderIds,
         Registered(c), Registered(d),
         states[c].status \in Acknowledged, states[d].status \in Acknowledged,
         states[c].broker_order_id = states[d].broker_order_id
  PROVE  c = d
  BY DEF IInv, AcknowledgedOrdersCorrelated
-----------------------------------------------------------------------------
\* The action properties.

LEMMA CorrelationStep ==
  ASSUME TypeOK, [Next]_vars, NEW b \in BrokerOrderIds, broker_to_client[b] # None
  PROVE  broker_to_client'[b] = broker_to_client[b]
<1>1. ASSUME NEW event \in OrderAckEvent, ApplyAck(event)
      PROVE  broker_to_client'[b] = broker_to_client[b]
  BY <1>1 DEF ApplyAck, AckAdmitted, TypeOK
<1>2. CASE UNCHANGED broker_to_client
  BY <1>2
<1> QED
  BY <1>1, <1>2 DEF Next, vars, ApplyIntent, RegisterBrokerOrderCommand, ApplyExecution

\* A broker id, once correlated, is never handed to another order; this holds
\* of the literal reading of the exported file too.
THEOREM CorrelationFixed == Spec => CorrelationIsWriteOnce
<1>1. TypeOK /\ [Next]_vars =>
        [\A b \in BrokerOrderIds :
           broker_to_client[b] # None => broker_to_client'[b] = broker_to_client[b]]_vars
  BY CorrelationStep
<1> QED
  BY <1>1, TypeCorrect, PTL DEF Spec, CorrelationIsWriteOnce

HistoryFixedFor(c) ==
  /\ states'[c] # None
  /\ states'[c].order_quantity = states[c].order_quantity
  /\ states'[c].filled_quantity >= states[c].filled_quantity
  /\ states[c].filled_quantity > 0 =>
       /\ states'[c].broker_order_command = states[c].broker_order_command
       /\ states'[c].broker_order_id = states[c].broker_order_id
  /\ states[c].status \in {"REJECTED", "FILLED"} => states'[c] = states[c]

LEMMA HistoryStep ==
  ASSUME IInv, TypeOK', [Next]_vars, NEW c \in ClientOrderIds, Registered(c)
  PROVE  HistoryFixedFor(c)
<1> USE OMSAssumption
<1>1. /\ states[c] \in OrderState
      /\ states[c].filled_quantity \in Int
      /\ states[c].status \in {"SUBMITTED", "ACKED"} => ~(states[c].filled_quantity > 0)
  BY DEF IInv, TypeOK, Registered, OrderState, FillsWithinOrder
<1>2. CASE states'[c] = states[c]
  BY <1>1, <1>2 DEF HistoryFixedFor, Registered
<1>3. ASSUME NEW d \in ClientOrderIds, NEW q \in Quantities, ApplyIntent(d, q)
      PROVE  HistoryFixedFor(c)
  BY <1>2, <1>3 DEF ApplyIntent, IntentAdmitted, IInv, TypeOK, Registered
<1>4. ASSUME NEW command \in Commands, RegisterBrokerOrderCommand(command)
      PROVE  HistoryFixedFor(c)
  <2>1. CASE command.client_order_id = c
    <3>1. states[c].status \in {"SUBMITTED", "ACKED"}
      BY <1>4, <2>1 DEF RegisterBrokerOrderCommand, CommandAdmitted
    <3>2. states'[c] = [states[c] EXCEPT !.broker_order_command = command]
      BY <1>4, <2>1 DEF RegisterBrokerOrderCommand, IInv, TypeOK
    <3>3. [states[c] EXCEPT !.broker_order_command = command] \in OrderState
      BY <1>1 DEF OrderState
    <3> QED
      BY <1>1, <3>1, <3>2, <3>3 DEF HistoryFixedFor, OrderState
  <2>2. CASE command.client_order_id # c
    BY <1>2, <1>4, <2>2 DEF RegisterBrokerOrderCommand, IInv, TypeOK
  <2> QED
    BY <2>1, <2>2
<1>5. ASSUME NEW event \in OrderAckEvent, ApplyAck(event)
      PROVE  HistoryFixedFor(c)
  <2>1. CASE event.client_order_id = c
    <3>1. states[c].status \in {"SUBMITTED", "ACKED"}
      BY <1>5, <2>1 DEF ApplyAck, AckAdmitted
    <3>2. states'[c] = Acknowledge(states[c], event)
      BY <1>5, <2>1 DEF ApplyAck, IInv, TypeOK
    <3>3. states'[c] # None
      BY <1>1, <3>2, AcknowledgeFields
    <3> QED
      BY <1>1, <3>1, <3>2, <3>3, AcknowledgeFields DEF HistoryFixedFor
  <2>2. CASE event.client_order_id # c
    BY <1>2, <1>5, <2>2 DEF ApplyAck, IInv, TypeOK
  <2> QED
    BY <2>1, <2>2
<1>6. ASSUME NEW report \in ExecutionReport, ApplyExecution(report)
      PROVE  HistoryFixedFor(c)
  <2>1. CASE report.client_order_id = c
    <3>1. /\ states[c].status \in {"ACKED", "PARTIALLY_FILLED"}
          /\ report.filled_quantity > 0 /\ report.filled_quantity \in Int
      BY <1>6, <2>1 DEF ApplyExecution, ExecutionAdmitted, ExecutionReport
    <3>2. states'[c] = Execute(states[c], report)
      BY <1>6, <2>1 DEF ApplyExecution, IInv, TypeOK
    <3>3. states'[c] # None
      BY <1>1, <3>2, ExecuteType
    <3> QED
      BY <1>1, <3>1, <3>2, <3>3, ExecuteFields DEF HistoryFixedFor
  <2>2. CASE report.client_order_id # c
    BY <1>2, <1>6, <2>2 DEF ApplyExecution, IInv, TypeOK
  <2> QED
    BY <2>1, <2>2
<1>7. CASE UNCHANGED vars
  BY <1>2, <1>7 DEF vars
<1> QED
  BY <1>3, <1>4, <1>5, <1>6, <1>7 DEF Next

\* What has been executed is settled for good: fills never shrink, and the
\* command and broker id they were booked under are never exchanged.
THEOREM HistoryFixed == Spec => ExecutedHistoryIsFixed
<1>1. IInv /\ TypeOK' /\ [Next]_vars =>
        [\A c \in ClientOrderIds : Registered(c) =>
           /\ states'[c] # None
           /\ states'[c].order_quantity = states[c].order_quantity
           /\ states'[c].filled_quantity >= states[c].filled_quantity
           /\ states[c].filled_quantity > 0 =>
                /\ states'[c].broker_order_command = states[c].broker_order_command
                /\ states'[c].broker_order_id = states[c].broker_order_id
           /\ states[c].status \in {"REJECTED", "FILLED"} => states'[c] = states[c]]_vars
  BY HistoryStep DEF HistoryFixedFor
<1> QED
  BY <1>1, OMSInvariant, TypeCorrect, PTL DEF Spec, ExecutedHistoryIsFixed
=============================================================================
