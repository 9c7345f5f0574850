------------------------- MODULE OrderStateMachine -------------------------
(***************************************************************************)
(* The OMS order state machine of core/oms/oms_fsm.py: the state of every  *)
(* order the system has sent, and the correlation from the broker's order  *)
(* numbers back to the client's.  An operation that raises                 *)
(* OrderStateTransitionError changes nothing, so it is an action that is   *)
(* not enabled.                                                            *)
(*                                                                         *)
(* The .py file is an export in which the lines that begin with a bare     *)
(* word carry a leading "# " (README, "Reading the exported sources").     *)
(* They are read as the code they comment, as the page core/oms.md has    *)
(* them; read literally, OrderState(...) would lack its first field.       *)
(***************************************************************************)
EXTENDS Integers

CONSTANTS
  ClientOrderIds,   \* identifiers the decision layer gives its orders
  BrokerOrderIds,   \* order numbers (ODNO) the broker may answer with
  Quantities,       \* the integers that occur as a quantity
  Prices,           \* the integers that occur as an execution price
  Commands,         \* the BrokerOrderCommands callers may register
  None              \* Python's None

VARIABLES
  states,            \* _states: the OrderState of each client order id
  broker_to_client,  \* _broker_to_client
  notional           \* history: sum of price * quantity of the executions
                     \* applied to an order, None once one had no price

vars == <<states, broker_to_client, notional>>

Statuses == {"SUBMITTED", "ACKED", "REJECTED", "PARTIALLY_FILLED", "FILLED"}

\* A Decimal average is kept exactly, as a fraction.
Fractions == [num : Int, den : Int]

OrderState ==
  [status                  : Statuses,
   broker_order_id         : BrokerOrderIds \cup {None},
   order_quantity          : Int,
   filled_quantity         : Int,
   broker_order_command    : Commands \cup {None},
   average_execution_price : Fractions \cup {None}]

OrderAckEvent ==
  [client_order_id : ClientOrderIds,
   accepted        : BOOLEAN,
   broker_order_id : BrokerOrderIds \cup {None}]

\* The fields of an ExecutionReport the OMS reads.
ExecutionReport ==
  [client_order_id    : ClientOrderIds,
   broker_order_id    : BrokerOrderIds \cup {None},
   status             : Statuses,
   filled_quantity    : Quantities,
   remaining_quantity : Quantities,
   execution_price    : Prices \cup {None}]

ASSUME OMSAssumption ==
  /\ Quantities \subseteq Int
  /\ Prices \subseteq Int
  /\ \A c \in Commands : /\ c.client_order_id \in ClientOrderIds
                         /\ c.quantity \in Int
  /\ None \notin ClientOrderIds \cup BrokerOrderIds \cup Commands \cup Int
  /\ None \notin OrderState \cup Fractions

Init ==
  /\ states = [c \in ClientOrderIds |-> None]
  /\ broker_to_client = [b \in BrokerOrderIds |-> None]
  /\ notional = [c \in ClientOrderIds |-> 0]

-----------------------------------------------------------------------------
(* The operations.  Each guard is an operator of its own; the definitions   *)
(* named ...Slip are wrong variants of the one that follows them, by which *)
(* the runs show that the properties notice (README, "Mutants").           *)

Registered(c) == states[c] # None

IntentAdmitted(c, quantity) == quantity > 0 /\ ~Registered(c)

NewOrder(quantity) ==
  [status                  |-> "SUBMITTED",
   broker_order_id         |-> None,
   order_quantity          |-> quantity,
   filled_quantity         |-> 0,
   broker_order_command    |-> None,
   average_execution_price |-> None]

ApplyIntent(c, quantity) ==
  /\ IntentAdmitted(c, quantity)
  /\ states' = [states EXCEPT ![c] = NewOrder(quantity)]
  /\ UNCHANGED <<broker_to_client, notional>>

\* Slip: a partially filled order still takes a new command.
CommandAdmittedSlip(order, command) ==
  /\ order # None
  /\ order.status \in {"SUBMITTED", "ACKED", "PARTIALLY_FILLED"}
  /\ command.quantity = order.order_quantity

CommandAdmitted(order, command) ==
  /\ order # None
  /\ order.status \in {"SUBMITTED", "ACKED"}
  /\ command.quantity = order.order_quantity
  /\ command.instrument_identity \in {None, command.instrument_id}

RegisterBrokerOrderCommand(command) ==
  /\ CommandAdmitted(states[command.client_order_id], command)
  /\ states' = [states EXCEPT ![command.client_order_id].broker_order_command = command]
  /\ UNCHANGED <<broker_to_client, notional>>

\* Slip: BROKER_ORDER_ID_ALREADY_CORRELATED is not checked.
AckAdmittedSlip(order, event) ==
  /\ order # None
  /\ order.status \in {"SUBMITTED", "ACKED"}
  /\ event.accepted => event.broker_order_id # None

AckAdmitted(order, event) ==
  /\ order # None
  /\ order.status \in {"SUBMITTED", "ACKED"}
  /\ event.accepted =>
       /\ event.broker_order_id # None
       /\ broker_to_client[event.broker_order_id] \in {None, event.client_order_id}

\* Slip: the status is written with the name of another enumeration.
AcknowledgeSlip(order, event) ==
  [order EXCEPT !.status = IF event.accepted THEN "ACCEPTED" ELSE "REJECTED",
                !.broker_order_id = event.broker_order_id]

Acknowledge(order, event) ==
  [order EXCEPT !.status = IF event.accepted THEN "ACKED" ELSE "REJECTED",
                !.broker_order_id = event.broker_order_id]

ApplyAck(event) ==
  /\ AckAdmitted(states[event.client_order_id], event)
  /\ broker_to_client' = IF event.accepted
                         THEN [broker_to_client EXCEPT
                                 ![event.broker_order_id] = event.client_order_id]
                         ELSE broker_to_client
  /\ states' = [states EXCEPT ![event.client_order_id] = Acknowledge(@, event)]
  /\ UNCHANGED notional

\* resolve_execution_correlation answers: the id has an order that executes.
Resolvable(b) ==
  /\ broker_to_client[b] # None
  /\ Registered(broker_to_client[b])
  /\ states[broker_to_client[b]].status \in {"ACKED", "PARTIALLY_FILLED"}

\* get_broker_order_command answers instead of raising.
CommandAvailable(b) ==
  /\ b # None
  /\ broker_to_client[b] # None
  /\ Registered(broker_to_client[b])
  /\ states[broker_to_client[b]].broker_order_command # None
  /\ states[broker_to_client[b]].broker_order_id = b

Priced(report) == report.execution_price # None /\ report.execution_price > 0

\* Slip: the new average is weighted by the quantity filled so far.
WeightedSlip(average, filled, price, quantity) ==
  [num |-> average.num * filled + price * average.den * filled,
   den |-> average.den * (filled + filled)]

\* (average * filled + price * quantity) / (filled + quantity)
Weighted(average, filled, price, quantity) ==
  [num |-> average.num * filled + price * average.den * quantity,
   den |-> average.den * (filled + quantity)]

AverageAfter(order, report) ==
  LET average == order.average_execution_price
      price   == report.execution_price
  IN  IF ~Priced(report) THEN average
      ELSE IF order.filled_quantity = 0 \/ average = None
           THEN [num |-> price, den |-> 1]
      ELSE Weighted(average, order.filled_quantity, price, report.filled_quantity)

\* Slip: the report is checked against the order's quantity on its own,
\* not added to what is filled already.
ExecutionAdmittedSlip(order, report) ==
  /\ order # None
  /\ order.status \in {"ACKED", "PARTIALLY_FILLED"}
  /\ report.status \in {"PARTIALLY_FILLED", "FILLED"}
  /\ report.filled_quantity \in 1 .. order.order_quantity
  /\ report.remaining_quantity = order.order_quantity - report.filled_quantity
  /\ report.broker_order_id \in {None, order.broker_order_id}

ExecutionAdmitted(order, report) ==
  /\ order # None
  /\ order.status \in {"ACKED", "PARTIALLY_FILLED"}
  /\ report.status \in {"PARTIALLY_FILLED", "FILLED"}
  /\ report.filled_quantity > 0
  /\ order.filled_quantity + report.filled_quantity <= order.order_quantity
  /\ report.remaining_quantity =
       order.order_quantity - (order.filled_quantity + report.filled_quantity)
  /\ report.broker_order_id \in {None, order.broker_order_id}

Execute(order, report) ==
  [order EXCEPT !.status = report.status,
                !.filled_quantity = @ + report.filled_quantity,
                !.average_execution_price = AverageAfter(order, report)]

NotionalAfter(sum, report) ==
  IF sum # None /\ Priced(report)
  THEN sum + report.execution_price * report.filled_quantity
  ELSE None

ApplyExecution(report) ==
  /\ ExecutionAdmitted(states[report.client_order_id], report)
  /\ states' = [states EXCEPT ![report.client_order_id] = Execute(@, report)]
  /\ notional' = [notional EXCEPT ![report.client_order_id] = NotionalAfter(@, report)]
  /\ UNCHANGED broker_to_client

Next ==
  \/ \E c \in ClientOrderIds, q \in Quantities : ApplyIntent(c, q)
  \/ \E command \in Commands : RegisterBrokerOrderCommand(command)
  \/ \E event \in OrderAckEvent : ApplyAck(event)
  \/ \E report \in ExecutionReport : ApplyExecution(report)

Spec == Init /\ [][Next]_vars

-----------------------------------------------------------------------------
(* Properties.                                                             *)

\* Every variable holds a value of its type.
TypeOK ==
  /\ states \in [ClientOrderIds -> OrderState \cup {None}]
  /\ broker_to_client \in [BrokerOrderIds -> ClientOrderIds \cup {None}]
  /\ notional \in [ClientOrderIds -> Int \cup {None}]

Acknowledged == {"ACKED", "PARTIALLY_FILLED", "FILLED"}

\* Whatever sequence of intents, commands, acknowledgements and reports the
\* callers send, an order is never filled beyond its quantity, and only an
\* order that reached an execution status carries fills ("Execution before
\* ACK ... overfill ... is rejected fail-closed", core/oms.md:1592).
FillsWithinOrder ==
  \A c \in ClientOrderIds : Registered(c) =>
    /\ states[c].filled_quantity \in 0 .. states[c].order_quantity
    /\ states[c].filled_quantity > 0 <=>
         states[c].status \in {"PARTIALLY_FILLED", "FILLED"}

\* An order the broker has accepted carries a broker id that resolves back to
\* that order, so an execution of it can never be booked on another one, even
\* after a second acknowledgement replaced the id.
AcknowledgedOrdersCorrelated ==
  \A c \in ClientOrderIds :
    Registered(c) /\ states[c].status \in Acknowledged =>
      /\ states[c].broker_order_id # None
      /\ broker_to_client[states[c].broker_order_id] = c

\* A broker id is correlated only to an order whose acknowledgement was also
\* recorded: _broker_to_client and _states never disagree about it.
CorrelationImpliesAcknowledged ==
  \A b \in BrokerOrderIds : broker_to_client[b] # None =>
    /\ Registered(broker_to_client[b])
    /\ states[broker_to_client[b]].status # "SUBMITTED"

\* While every execution applied to an order carried a price, its average is
\* exactly sum(price * quantity) / filled quantity.
AverageIsVolumeWeighted ==
  \A c \in ClientOrderIds :
    Registered(c) /\ notional[c] # None /\ states[c].filled_quantity > 0 =>
      LET average == states[c].average_execution_price
      IN  /\ average # None
          /\ average.num * states[c].filled_quantity = notional[c] * average.den

\* What has been executed is settled for good: no later call of any operation
\* lowers the fills of an order, changes its quantity, exchanges the command
\* or the broker id its fills were booked under, or revives an order that is
\* REJECTED or FILLED.
ExecutedHistoryIsFixed ==
  [][\A c \in ClientOrderIds : Registered(c) =>
       /\ states'[c] # None
       /\ states'[c].order_quantity = states[c].order_quantity
       /\ states'[c].filled_quantity >= states[c].filled_quantity
       /\ states[c].filled_quantity > 0 =>
            /\ states'[c].broker_order_command = states[c].broker_order_command
            /\ states'[c].broker_order_id = states[c].broker_order_id
       /\ states[c].status \in {"REJECTED", "FILLED"} => states'[c] = states[c]]_vars

\* A broker id, once correlated, is never handed to another order.
CorrelationIsWriteOnce ==
  [][\A b \in BrokerOrderIds :
       broker_to_client[b] # None => broker_to_client'[b] = broker_to_client[b]]_vars
=============================================================================
