------------------------ MODULE LiveSettlementProofs ------------------------
(***************************************************************************)
(* Settlement, for any orders, order numbers, quantities and faults.       *)
(*                                                                         *)
(* No second physical order: the reservation of identities is what holds it*)
(* up, because an order at the broker always belongs to an identity that is*)
(* reserved for good.  Order and position move together.  Settlement is a  *)
(* ledger: what is booked of an order and the units of its notices still to*)
(* be settled never pass what was executed of it.  And in behaviours in which*)
(* notices are sent again at most, they are all of it: nothing is forgotten.*)
(***************************************************************************)
EXTENDS LiveSettlement, FiniteSets, FiniteSetTheorems, TLAPS

OrdersTyped == orders \in [BrokerOrderIds -> BrokerOrder \cup {None}]

\* Whoever is at the broker is reserved, acknowledged or not.
PhysicalReserved ==
  \A b \in BrokerOrderIds :
    orders[b] # None => orders[b].client_order_id \in identities

SubmissionInv ==
  /\ OrdersTyped
  /\ PhysicalReserved
  /\ AtMostOnePhysicalOrder
-----------------------------------------------------------------------------
LEMMA InitSubmission == Init => SubmissionInv
  BY DEF Init, SubmissionInv, OrdersTyped, PhysicalReserved, AtMostOnePhysicalOrder

\* Reserving an identity without a new order at the broker, or neither.
LEMMA NoNewOrder ==
  ASSUME SubmissionInv, orders' = orders, identities \subseteq identities'
  PROVE  SubmissionInv'
  BY DEF SubmissionInv, OrdersTyped, PhysicalReserved, AtMostOnePhysicalOrder

\* The broker accepts an order whose identity was reserved just before.
LEMMA NewOrderOfNewIdentity ==
  ASSUME SubmissionInv, NEW command \in Commands, NEW b \in BrokerOrderIds,
         Reservable(command), Reserve(command), Accept(command, b)
  PROVE  SubmissionInv'
<1> DEFINE c == command.client_order_id
           new == [client_order_id |-> c, quantity |-> command.quantity, filled |-> 0]
<1>1. /\ c \notin identities
      /\ identities' = identities \cup {c}
      /\ orders' = [orders EXCEPT ![b] = new]
      /\ orders \in [BrokerOrderIds -> BrokerOrder \cup {None}]
  BY DEF Reservable, Reserve, Accept, SubmissionInv, OrdersTyped
<1>2. new \in BrokerOrder
  BY SettlementAssumption DEF BrokerOrder
<1>3. OrdersTyped'
  BY <1>1, <1>2 DEF OrdersTyped
<1>4. orders'[b] = new /\ new.client_order_id = c
  BY <1>1
<1>5. ASSUME NEW a \in BrokerOrderIds, a # b
      PROVE  /\ orders'[a] = orders[a]
             /\ orders[a] # None => orders[a].client_order_id \in identities
  BY <1>1, <1>5 DEF SubmissionInv, PhysicalReserved
<1> HIDE DEF new
<1>6. PhysicalReserved'
  BY <1>1, <1>4, <1>5 DEF PhysicalReserved
<1>7. AtMostOnePhysicalOrder'
  <2> SUFFICES ASSUME NEW d \in BrokerOrderIds, NEW e \in BrokerOrderIds,
                      orders'[d] # None, orders'[e] # None,
                      orders'[d].client_order_id = orders'[e].client_order_id
               PROVE  d = e
    BY DEF AtMostOnePhysicalOrder
  <2>1. CASE d = b
    BY <2>1, <1>1, <1>4, <1>5
  <2>2. CASE e = b
    BY <2>2, <1>1, <1>4, <1>5
  <2>3. CASE d # b /\ e # b
    BY <2>3, <1>5 DEF SubmissionInv, AtMostOnePhysicalOrder
  <2> QED
    BY <2>1, <2>2, <2>3
<1> QED
  BY <1>3, <1>6, <1>7 DEF SubmissionInv

LEMMA ExecutionKeepsOrder ==
  ASSUME SubmissionInv, NEW b \in BrokerOrderIds, NEW notice \in Notices,
         BrokerExecute(b, notice)
  PROVE  SubmissionInv'
<1> DEFINE new == [orders[b] EXCEPT !.filled = @ + notice.cntg_qty]
<1>1. /\ orders \in [BrokerOrderIds -> BrokerOrder \cup {None}]
      /\ orders[b] \in BrokerOrder
      /\ identities' = identities
      /\ orders' = [orders EXCEPT ![b] = new]
  BY DEF BrokerExecute, SubmissionInv, OrdersTyped
<1>2. notice.cntg_qty \in Int
  BY SettlementAssumption DEF Notices
<1>3. new \in BrokerOrder /\ new.client_order_id = orders[b].client_order_id
  BY <1>1, <1>2 DEF BrokerOrder
<1>4. orders[b] # None
  BY DEF BrokerExecute
<1> HIDE DEF new
<1>5. OrdersTyped'
  BY <1>1, <1>3 DEF OrdersTyped
<1>6. \A a \in BrokerOrderIds :
        orders'[a] # None =>
          /\ orders[a] # None
          /\ orders'[a].client_order_id = orders[a].client_order_id
  BY <1>1, <1>3, <1>4
<1> QED
  BY <1>1, <1>5, <1>6 DEF SubmissionInv, PhysicalReserved, AtMostOnePhysicalOrder

LEMMA RouteKeepsSubmission ==
  ASSUME SubmissionInv, NEW command \in Commands, Route(command)
  PROVE  SubmissionInv'
<1>1. CASE RouteUnregistered(command)
  BY <1>1, NoNewOrder DEF RouteUnregistered, broker
<1>2. CASE RouteBlocked(command)
  BY <1>2, NoNewOrder DEF RouteBlocked, Reserve, broker
<1>3. CASE \E b \in BrokerOrderIds : RouteAccepted(command, b)
  BY <1>3, NewOrderOfNewIdentity DEF RouteAccepted, Sending
<1>4. CASE RouteRejected(command)
  BY <1>4, NoNewOrder, NewOrderOfNewIdentity DEF RouteRejected, Sending, Reserve
<1>5. CASE RouteLost(command)
  BY <1>5, NoNewOrder, NewOrderOfNewIdentity DEF RouteLost, Sending, Reserve
<1> QED
  BY <1>1, <1>2, <1>3, <1>4, <1>5 DEF Route

LEMMA NextSubmission == SubmissionInv /\ [Next]_vars => SubmissionInv'
<1> SUFFICES ASSUME SubmissionInv, [Next]_vars PROVE SubmissionInv'
  OBVIOUS
<1>1. CASE \E command \in Commands : Route(command)
  BY <1>1, RouteKeepsSubmission
<1>2. CASE ReceiveExecutionOnce
  BY <1>2, NoNewOrder DEF ReceiveExecutionOnce
<1>3. CASE StartupReconcile \/ RecoverDone \/ StartExecution
  BY <1>3, NoNewOrder DEF StartupReconcile, RecoverDone, StartExecution, broker
<1>4. CASE \E report \in reports : RecoverReport(report)
  BY <1>4, NoNewOrder DEF RecoverReport, broker
<1>5. CASE Stop \/ Lose \/ \E notice \in log : SendAgain(notice)
  BY <1>5, NoNewOrder DEF Stop, Lose, SendAgain
<1>6. CASE \E b \in BrokerOrderIds, notice \in Notices : BrokerExecute(b, notice)
  BY <1>6, ExecutionKeepsOrder
<1>7. CASE UNCHANGED vars
  BY <1>7, NoNewOrder DEF vars, broker
<1> QED
  BY <1>1, <1>2, <1>3, <1>4, <1>5, <1>6, <1>7 DEF Next, Step

\* Lost answers, false rejections, restarts and retries in any number never put
\* two orders of one client order id at the broker.
THEOREM NoSecondPhysicalOrder == Spec => []AtMostOnePhysicalOrder
<1>1. SubmissionInv => AtMostOnePhysicalOrder
  BY DEF SubmissionInv
<1> QED
  BY <1>1, InitSubmission, NextSubmission, PTL DEF Spec

-----------------------------------------------------------------------------
(* What a step does to the books.                                          *)

\* The part of an order that settlement relies on: the command it was last
\* sent with is its own and for its whole quantity.
OrderOK(c) ==
  states[c] # None =>
    /\ states[c] \in OMS!OrderState
    /\ states[c].filled_quantity >= 0
    /\ states[c].broker_order_command # None =>
         /\ states[c].broker_order_command.client_order_id = c
         /\ states[c].broker_order_command.quantity = states[c].order_quantity

StatesOK ==
  /\ states = [c \in ClientOrderIds |-> states[c]]
  /\ \A c \in ClientOrderIds : OrderOK(c)

HeldOK(held) ==
  /\ held = [side |-> held.side, qty |-> held.qty, avg_price |-> held.avg_price]
  /\ held.side \in Aggregate!Sides \cup {None}
  /\ held.qty \in Int /\ held.qty >= 0
  /\ held.qty = 0 <=> held.side = None

\* A report names the order its number is correlated with.
ReportOK(report) ==
  /\ report.client_order_id \in ClientOrderIds
  /\ report.broker_order_id \in BrokerOrderIds
  /\ broker_to_client[report.broker_order_id] = report.client_order_id
  /\ report.filled_quantity \in Int
  /\ report.execution_price = ExecutionPrice

BooksInv ==
  /\ SubmissionInv
  /\ StatesOK
  /\ HeldOK(position)
  /\ broker_to_client \in [BrokerOrderIds -> ClientOrderIds \cup {None}]
  /\ \A report \in reports : ReportOK(report)
  /\ notices \in Seq(Notices) /\ log \subseteq Notices

BooksStand ==
  /\ \A c \in ClientOrderIds : Settled(c)' = Settled(c)
  /\ Aggregate!Signed(position') = Aggregate!Signed(position)

\* One order moves, the position with it, and an identity is used up.
BooksMove(c) ==
  /\ Settled(c)' > Settled(c)
  /\ \A d \in ClientOrderIds \ {c} : Settled(d)' = Settled(d)
  /\ Aggregate!Signed(position') =
       Aggregate!Signed(position) + DirectionOf(c) * (Settled(c)' - Settled(c))
  /\ \E id : id \notin seen /\ seen' = seen \cup {id}

Booking == BooksStand \/ \E c \in ClientOrderIds : BooksMove(c)

-----------------------------------------------------------------------------
LEMMA FillMovesSigned ==
  ASSUME NEW held, HeldOK(held), NEW side \in Aggregate!Sides,
         NEW quantity \in Int, quantity > 0, NEW price
  PROVE  /\ HeldOK(Aggregate!Fill(held, side, quantity, price))
         /\ Aggregate!Signed(Aggregate!Fill(held, side, quantity, price)) =
              Aggregate!Signed(held) + Aggregate!Sign(side) * quantity
<1> DEFINE after == Aggregate!Fill(held, side, quantity, price)
<1>1. /\ side # None
      /\ side \in {"BUY", "SELL"}
      /\ held.side \in {"BUY", "SELL"} \cup {None}
      /\ held.qty \in Int /\ held.qty >= 0
      /\ held.qty = 0 <=> held.side = None
  BY SettlementAssumption DEF HeldOK, Aggregate!Sides
<1>2. CASE held.side = None
  <2>1. after = Aggregate!Open(side, quantity, price)
    BY <1>2 DEF Aggregate!Fill
  <2> QED
    BY <1>1, <1>2, <2>1
    DEF HeldOK, Aggregate!Open, Aggregate!Signed, Aggregate!Sign, Aggregate!Sides
<1>3. CASE held.side # None /\ side = held.side
  <2>1. /\ after.side = side /\ after.qty = held.qty + quantity
        /\ after = [side |-> after.side, qty |-> after.qty, avg_price |-> after.avg_price]
    BY <1>1, <1>3 DEF Aggregate!Fill
  <2> HIDE DEF after
  <2>2. HeldOK(after)
    BY <1>1, <1>3, <2>1 DEF HeldOK, Aggregate!Sides
  <2>3. Aggregate!Signed(after) = Aggregate!Signed(held) + Aggregate!Sign(side) * quantity
    BY <1>1, <1>3, <2>1 DEF Aggregate!Signed, Aggregate!Sign
  <2> QED
    BY <2>2, <2>3 DEF after
<1>4. CASE held.side # None /\ side # held.side /\ quantity < held.qty
  <2>1. after = [held EXCEPT !.qty = @ - quantity]
    BY <1>1, <1>4 DEF Aggregate!Fill
  <2>2. /\ after.side = held.side /\ after.qty = held.qty - quantity
        /\ after = [side |-> after.side, qty |-> after.qty, avg_price |-> after.avg_price]
    BY <2>1 DEF HeldOK
  <2> HIDE DEF after
  <2>3. HeldOK(after)
    BY <1>1, <1>4, <2>2 DEF HeldOK, Aggregate!Sides
  <2>4. Aggregate!Signed(after) = Aggregate!Signed(held) + Aggregate!Sign(side) * quantity
    BY <1>1, <1>4, <2>2 DEF Aggregate!Signed, Aggregate!Sign
  <2> QED
    BY <2>3, <2>4 DEF after
<1>5. CASE held.side # None /\ side # held.side /\ quantity = held.qty
  <2>1. after = Aggregate!Flat
    BY <1>1, <1>5 DEF Aggregate!Fill
  <2> QED
    BY <1>1, <1>5, <2>1 DEF HeldOK, Aggregate!Flat, Aggregate!Signed, Aggregate!Sign
<1>6. CASE held.side # None /\ side # held.side /\ quantity > held.qty
  <2>1. after = Aggregate!Open(side, quantity - held.qty, price)
    BY <1>1, <1>6 DEF Aggregate!Fill, Aggregate!Flip
  <2> QED
    BY <1>1, <1>6, <2>1
    DEF HeldOK, Aggregate!Open, Aggregate!Signed, Aggregate!Sign, Aggregate!Sides
<1> QED
  BY <1>1, <1>2, <1>3, <1>4, <1>5, <1>6

\* An executed order is one: the report adds to what is filled.
LEMMA ExecutedOrder ==
  ASSUME NEW order \in OMS!OrderState, NEW report,
         report.status \in {"PARTIALLY_FILLED", "FILLED"},
         report.filled_quantity \in Int, report.execution_price = ExecutionPrice
  PROVE  LET after == OMS!Execute(order, report) IN
         /\ after \in OMS!OrderState
         /\ after.filled_quantity = order.filled_quantity + report.filled_quantity
         /\ after.order_quantity = order.order_quantity
         /\ after.broker_order_command = order.broker_order_command
<1> DEFINE average == OMS!AverageAfter(order, report)
<1>1. /\ order.filled_quantity \in Int
      /\ order.average_execution_price \in OMS!Fractions \cup {None}
      /\ ExecutionPrice \in Int
  BY SettlementAssumption DEF OMS!OrderState
<1>2. average \in OMS!Fractions \cup {None}
  <2>1. [num |-> ExecutionPrice, den |-> 1] \in OMS!Fractions
    BY <1>1 DEF OMS!Fractions
  <2>2. ASSUME NEW a \in OMS!Fractions
        PROVE  OMS!Weighted(a, order.filled_quantity, ExecutionPrice, report.filled_quantity)
                 \in OMS!Fractions
    BY <1>1 DEF OMS!Weighted, OMS!Fractions
  <2> QED
    BY <1>1, <2>1, <2>2 DEF OMS!AverageAfter
<1> HIDE DEF average
<1>3. OMS!Execute(order, report) =
        [order EXCEPT !.status = report.status,
                      !.filled_quantity = order.filled_quantity + report.filled_quantity,
                      !.average_execution_price = average]
  BY DEF OMS!Execute, average
<1>4. order.filled_quantity + report.filled_quantity \in Int
  BY <1>1
<1> QED
  BY <1>2, <1>3, <1>4 DEF OMS!OrderState, OMS!Statuses

\* The direction of an order is that of any command that names it.
LEMMA DirectionOfCommand ==
  ASSUME NEW command \in Commands
  PROVE  DirectionOf(command.client_order_id) =
           IF command.instrument_id = Instrument THEN Aggregate!Sign(command.side) ELSE 0
<1>1. \A m \in Commands : m.client_order_id = command.client_order_id => m = command
  BY SettlementAssumption
<1>2. CASE command.instrument_id = Instrument /\ command.side = "BUY"
  BY <1>2 DEF DirectionOf, Aggregate!Sign
<1>3. CASE command.instrument_id = Instrument /\ command.side # "BUY"
  BY <1>1, <1>3 DEF DirectionOf, Aggregate!Sign
<1>4. CASE command.instrument_id # Instrument
  BY <1>1, <1>4 DEF DirectionOf
<1> QED
  BY <1>2, <1>3, <1>4

\* settle books a report in the order and in the position, or in neither.
LEMMA SettleBooks ==
  ASSUME StatesOK, HeldOK(position), NEW report, ReportOK(report),
         Settle(report)
  PROVE  StatesOK' /\ HeldOK(position)' /\ Booking
<1> DEFINE c == report.client_order_id
           command == CommandOf(report)
           q == report.filled_quantity
<1>1. CASE Known(report) \/ ~Settleable(report)
  <2>1. UNCHANGED <<seen, states, position>>
    BY <1>1 DEF Settle
  <2> QED
    BY <2>1 DEF StatesOK, OrderOK, HeldOK, Booking, BooksStand, Settled
<1>2. CASE ~Known(report) /\ Settleable(report)
  <2>1. /\ seen' = seen \cup {report.execution_id}
        /\ report.execution_id \notin seen
        /\ states' = [states EXCEPT ![c] = OMS!Execute(states[c], report)]
    BY <1>2 DEF Settle, Known
  <2>2. /\ c \in ClientOrderIds
        /\ states[c] # None
        /\ states[c] \in OMS!OrderState
        /\ states[c].filled_quantity >= 0
        /\ states[c].filled_quantity \in Int
        /\ command # None /\ command = states[c].broker_order_command
    <3>1. c \in ClientOrderIds /\ states[c] # None /\ command # None
      BY <1>2 DEF Settleable, OMS!CommandAvailable, OMS!ExecutionAdmitted, ReportOK, CommandOf
    <3>2. states[c] \in OMS!OrderState /\ states[c].filled_quantity >= 0
      BY <3>1 DEF StatesOK, OrderOK
    <3> QED
      BY <3>1, <3>2 DEF OMS!OrderState, CommandOf
  <2>3. /\ command \in Commands
        /\ command.client_order_id = c
        /\ command.quantity = states[c].order_quantity
    <3>1. command \in Commands
      BY <2>2 DEF OMS!OrderState
    <3> QED
      BY <2>2, <3>1 DEF StatesOK, OrderOK
  <2>4. /\ q \in Int /\ q > 0
        /\ states[c].filled_quantity + q <= states[c].order_quantity
        /\ report.status \in {"PARTIALLY_FILLED", "FILLED"}
        /\ report.execution_price = ExecutionPrice
    BY <1>2 DEF Settleable, OMS!ExecutionAdmitted, ReportOK
  <2>5. FillAccepted(command, report) <=> command.instrument_id = Instrument
    BY <2>2, <2>3, <2>4 DEF FillAccepted, OMS!OrderState
  <2>6. /\ states'[c] = OMS!Execute(states[c], report)
        /\ \A d \in ClientOrderIds \ {c} : states'[d] = states[d]
        /\ states' = [d \in ClientOrderIds |-> states'[d]]
    BY <2>1, <2>2 DEF StatesOK
  <2>7. /\ states'[c] \in OMS!OrderState
        /\ states'[c] # None
        /\ states'[c].filled_quantity = states[c].filled_quantity + q
        /\ states'[c].order_quantity = states[c].order_quantity
        /\ states'[c].broker_order_command = command
    <3>1. /\ states'[c] \in OMS!OrderState
          /\ states'[c].filled_quantity = states[c].filled_quantity + q
          /\ states'[c].order_quantity = states[c].order_quantity
          /\ states'[c].broker_order_command = states[c].broker_order_command
      BY <2>2, <2>4, <2>6, ExecutedOrder
    <3> QED
      BY <2>2, <3>1, SettlementAssumption
  <2> HIDE DEF c, command, q
  <2>8. StatesOK'
    <3>1. ASSUME NEW d \in ClientOrderIds PROVE OrderOK(d)'
      <4>1. CASE d = c
        BY <2>2, <2>3, <2>4, <2>7, <4>1 DEF OrderOK
      <4>2. CASE d # c
        BY <2>6, <4>2 DEF OrderOK, StatesOK
      <4> QED
        BY <4>1, <4>2
    <3> QED
      BY <2>6, <3>1 DEF StatesOK
  <2>9. /\ Settled(c)' = Settled(c) + q
        /\ \A d \in ClientOrderIds \ {c} : Settled(d)' = Settled(d)
        /\ Settled(c) \in Int
    BY <2>2, <2>6, <2>7 DEF Settled
  <2>10. /\ HeldOK(position')
         /\ Aggregate!Signed(position') = Aggregate!Signed(position) + DirectionOf(c) * q
    <3>1. command.side \in Aggregate!Sides
      BY <2>3, SettlementAssumption
    <3>2. CASE command.instrument_id = Instrument
      <4>1. position' = Aggregate!Fill(position, command.side, q, ExecutionPrice)
        BY <1>2, <2>4, <2>5, <3>2 DEF Settle, FilledPosition, command, q
      <4>2. DirectionOf(c) = Aggregate!Sign(command.side)
        BY <2>3, <3>2, DirectionOfCommand
      <4> QED
        BY <2>4, <3>1, <4>1, <4>2, FillMovesSigned
    <3>3. CASE command.instrument_id # Instrument
      <4>1. position' = position
        BY <1>2, <2>5, <3>3 DEF Settle, command
      <4>2. DirectionOf(c) = 0
        BY <2>3, <3>3, DirectionOfCommand
      <4>3. Aggregate!Signed(position) \in Int
        BY DEF HeldOK, Aggregate!Signed, Aggregate!Sign
      <4> QED
        BY <2>4, <4>1, <4>2, <4>3
    <3> QED
      BY <3>2, <3>3
  <2>11. BooksMove(c)
    <3>1. Settled(c)' - Settled(c) = q /\ Settled(c)' > Settled(c)
      BY <2>4, <2>9
    <3> QED
      BY <2>1, <2>9, <2>10, <3>1 DEF BooksMove
  <2> QED
    BY <2>2, <2>8, <2>10, <2>11 DEF Booking, HeldOK
<1> QED
  BY <1>1, <1>2

\* Sending an order: a command is kept with its order, and nothing is booked.
LEMMA KeptOrder ==
  ASSUME StatesOK, NEW command \in Commands, NEW order \in OMS!OrderState,
         order.filled_quantity = OrderFor(command).filled_quantity,
         order.filled_quantity >= 0,
         order.broker_order_command # None =>
            /\ order.broker_order_command.client_order_id = command.client_order_id
            /\ order.broker_order_command.quantity = order.order_quantity,
         Keep(command, order), UNCHANGED position
  PROVE  StatesOK' /\ BooksStand
<1> DEFINE c == command.client_order_id
<1>1. /\ c \in ClientOrderIds /\ order # None
      /\ states' = [states EXCEPT ![c] = order]
  BY SettlementAssumption DEF Keep
<1>2. /\ states'[c] = order
      /\ \A d \in ClientOrderIds \ {c} : states'[d] = states[d]
      /\ states' = [d \in ClientOrderIds |-> states'[d]]
  BY <1>1 DEF StatesOK
<1>3. order.filled_quantity = Settled(c)
  BY <1>1 DEF OrderFor, OMS!NewOrder, Settled
<1> HIDE DEF c
<1>4. ASSUME NEW d \in ClientOrderIds PROVE OrderOK(d)' /\ Settled(d)' = Settled(d)
  <2>1. CASE d = c
    BY <1>1, <1>2, <1>3, <2>1 DEF OrderOK, Settled, c
  <2>2. CASE d # c
    BY <1>2, <2>2 DEF OrderOK, Settled, StatesOK
  <2> QED
    BY <2>1, <2>2
<1> QED
  BY <1>2, <1>4 DEF StatesOK, BooksStand

\* The order a command is for, and the same with the command in it.
LEMMA OrderForCommand ==
  ASSUME StatesOK, NEW command \in Commands, Routable(command)
  PROVE  /\ OrderFor(command) \in OMS!OrderState
         /\ OrderFor(command).filled_quantity >= 0
         /\ OrderFor(command).broker_order_command # None =>
              /\ OrderFor(command).broker_order_command.client_order_id
                   = command.client_order_id
              /\ OrderFor(command).broker_order_command.quantity
                   = OrderFor(command).order_quantity
<1>1. command.client_order_id \in ClientOrderIds /\ command.quantity \in Int
  BY SettlementAssumption
<1>2. CASE states[command.client_order_id] = None
  <2>1. OrderFor(command) = OMS!NewOrder(command.quantity)
    BY <1>2 DEF OrderFor
  <2> QED
    BY <1>1, <2>1 DEF OMS!NewOrder, OMS!OrderState, OMS!Statuses
<1>3. CASE states[command.client_order_id] # None
  BY <1>1, <1>3 DEF OrderFor, StatesOK, OrderOK
<1> QED
  BY <1>2, <1>3

LEMMA CommandedOrder ==
  ASSUME StatesOK, NEW command \in Commands, Routable(command),
         OMS!CommandAdmitted(OrderFor(command), command)
  PROVE  LET order == WithCommand(command) IN
         /\ order \in OMS!OrderState
         /\ order.filled_quantity = OrderFor(command).filled_quantity
         /\ order.filled_quantity >= 0
         /\ order.order_quantity = command.quantity
         /\ order.broker_order_command = command
  BY OrderForCommand DEF WithCommand, OMS!CommandAdmitted, OMS!OrderState

LEMMA AcknowledgedOrder ==
  ASSUME NEW order \in OMS!OrderState, NEW event,
         event.broker_order_id \in BrokerOrderIds \cup {None}
  PROVE  LET after == OMS!Acknowledge(order, event) IN
         /\ after \in OMS!OrderState
         /\ after.filled_quantity = order.filled_quantity
         /\ after.order_quantity = order.order_quantity
         /\ after.broker_order_command = order.broker_order_command
<1> DEFINE status == IF event.accepted THEN "ACKED" ELSE "REJECTED"
<1>1. status \in OMS!Statuses
  BY DEF OMS!Statuses
<1>2. OMS!Acknowledge(order, event) =
        [order EXCEPT !.status = status, !.broker_order_id = event.broker_order_id]
  BY DEF OMS!Acknowledge
<1> HIDE DEF status
<1> QED
  BY <1>1, <1>2 DEF OMS!OrderState

LEMMA RouteBooks ==
  ASSUME BooksInv, NEW command \in Commands, Route(command)
  PROVE  /\ StatesOK' /\ BooksStand
         /\ UNCHANGED <<position, reports, notices, log>>
         /\ broker_to_client' \in [BrokerOrderIds -> ClientOrderIds \cup {None}]
         /\ \A b \in BrokerOrderIds :
              broker_to_client[b] # None => broker_to_client'[b] = broker_to_client[b]
<1>1. StatesOK /\ broker_to_client \in [BrokerOrderIds -> ClientOrderIds \cup {None}]
  BY DEF BooksInv
<1>2. command.client_order_id \in ClientOrderIds
  BY SettlementAssumption
<1>3. CASE RouteUnregistered(command)
  <2>1. StatesOK' /\ BooksStand
    BY <1>1, <1>3, OrderForCommand, KeptOrder DEF RouteUnregistered
  <2> QED
    BY <1>1, <1>3, <2>1 DEF RouteUnregistered, broker
<1>4. CASE RouteBlocked(command)
  <2>1. StatesOK' /\ BooksStand
    BY <1>1, <1>4, CommandedOrder, KeptOrder DEF RouteBlocked
  <2> QED
    BY <1>1, <1>4, <2>1 DEF RouteBlocked, broker
<1>5. ASSUME NEW b \in BrokerOrderIds, RouteAccepted(command, b)
      PROVE  /\ StatesOK' /\ BooksStand
             /\ UNCHANGED <<position, reports, notices, log>>
             /\ broker_to_client' \in [BrokerOrderIds -> ClientOrderIds \cup {None}]
             /\ \A a \in BrokerOrderIds :
                  broker_to_client[a] # None => broker_to_client'[a] = broker_to_client[a]
  <2> DEFINE event == Ack(command, TRUE, b)
             order == OMS!Acknowledge(WithCommand(command), event)
  <2>1. /\ event.broker_order_id = b /\ event.accepted = TRUE
        /\ event.client_order_id = command.client_order_id
    BY DEF Ack
  <2>2. /\ order \in OMS!OrderState
        /\ order.filled_quantity = OrderFor(command).filled_quantity
        /\ order.filled_quantity >= 0
        /\ order.order_quantity = command.quantity
        /\ order.broker_order_command = command
    <3>1. Routable(command) /\ OMS!CommandAdmitted(OrderFor(command), command)
      BY <1>5 DEF RouteAccepted, Sending
    <3> HIDE DEF event
    <3> QED
      BY <1>1, <2>1, <3>1, CommandedOrder, AcknowledgedOrder
  <2>3. Keep(command, order) /\ UNCHANGED <<position, reports, notices, log>>
    BY <1>5 DEF RouteAccepted, Sending
  <2>4. broker_to_client[b] \in {None, command.client_order_id}
    BY <1>5, <2>1 DEF RouteAccepted, OMS!AckAdmitted
  <2>5. broker_to_client' = [broker_to_client EXCEPT ![b] = command.client_order_id]
    BY <1>5 DEF RouteAccepted
  <2> HIDE DEF order, event
  <2> QED
    BY <1>1, <1>2, <2>2, <2>3, <2>4, <2>5, KeptOrder
<1>6. CASE RouteRejected(command)
  <2> DEFINE event == Ack(command, FALSE, None)
             order == OMS!Acknowledge(WithCommand(command), event)
  <2>1. /\ order \in OMS!OrderState
        /\ order.filled_quantity = OrderFor(command).filled_quantity
        /\ order.filled_quantity >= 0
        /\ order.order_quantity = command.quantity
        /\ order.broker_order_command = command
    <3>1. event.broker_order_id = None
      BY DEF Ack
    <3>2. Routable(command) /\ OMS!CommandAdmitted(OrderFor(command), command)
      BY <1>6 DEF RouteRejected, Sending
    <3> HIDE DEF event
    <3> QED
      BY <1>1, <3>1, <3>2, CommandedOrder, AcknowledgedOrder
  <2>2. /\ Keep(command, order)
        /\ UNCHANGED <<position, reports, notices, log, broker_to_client>>
    BY <1>6 DEF RouteRejected, Sending
  <2> HIDE DEF order
  <2> QED
    BY <1>1, <2>1, <2>2, KeptOrder
<1>7. CASE RouteLost(command)
  <2>1. StatesOK' /\ BooksStand
    BY <1>1, <1>7, CommandedOrder, KeptOrder DEF RouteLost, Sending
  <2> QED
    BY <1>1, <1>7, <2>1 DEF RouteLost, Sending
<1> QED
  BY <1>3, <1>4, <1>5, <1>6, <1>7 DEF Route

\* The two adapters build reports of correlated orders.
LEMMA ReportOfNumber ==
  ASSUME BooksInv, NEW b \in BrokerOrderIds, OMS!Resolvable(b), NEW q \in Int, NEW id
  PROVE  ReportOK(Report(b, q, id))
  BY DEF Report, ReportOK, OMS!Resolvable, BooksInv

LEMMA InitBooks == Init => BooksInv
<1> SUFFICES ASSUME Init PROVE BooksInv
  OBVIOUS
<1>1. StatesOK
  BY DEF Init, StatesOK, OrderOK
<1>2. HeldOK(position)
  BY DEF Init, HeldOK, Aggregate!Flat
<1>3. notices \in Seq(Notices) /\ log \subseteq Notices
  BY DEF Init
<1> QED
  BY <1>1, <1>2, <1>3, InitSubmission DEF Init, BooksInv

\* What books nothing keeps the books.
LEMMA NothingBooked ==
  ASSUME BooksInv, UNCHANGED <<states, position>>
  PROVE  StatesOK' /\ HeldOK(position)' /\ BooksStand
  BY DEF BooksInv, StatesOK, OrderOK, HeldOK, BooksStand, Settled

LEMMA StepBooks ==
  ASSUME BooksInv, [Next]_vars
  PROVE  BooksInv' /\ Booking
<1> DEFINE Frame ==
      /\ \A report \in reports' : ReportOK(report)'
      /\ broker_to_client' \in [BrokerOrderIds -> ClientOrderIds \cup {None}]
      /\ notices' \in Seq(Notices) /\ log' \subseteq Notices
<1>1. SubmissionInv'
  BY NextSubmission DEF BooksInv
<1>2. (StatesOK' /\ HeldOK(position)' /\ Frame) => BooksInv'
  BY <1>1 DEF BooksInv
<1>3. /\ notices \in Seq(Notices) /\ log \subseteq Notices
      /\ broker_to_client \in [BrokerOrderIds -> ClientOrderIds \cup {None}]
      /\ StatesOK /\ HeldOK(position)
      /\ \A report \in reports : ReportOK(report)
  BY DEF BooksInv
<1>4. /\ notices # <<>> => Head(notices) \in Notices /\ Tail(notices) \in Seq(Notices)
      /\ \A notice \in Notices : Append(notices, notice) \in Seq(Notices)
      /\ <<>> \in Seq(Notices)
  BY <1>3
<1>5. ASSUME UNCHANGED broker_to_client, reports' \subseteq reports
      PROVE  /\ \A report \in reports' : ReportOK(report)'
             /\ broker_to_client' \in [BrokerOrderIds -> ClientOrderIds \cup {None}]
  BY <1>3, <1>5 DEF ReportOK
<1>6. CASE \E command \in Commands : Route(command)
  <2>1. PICK command \in Commands : Route(command)
    BY <1>6
  <2>2. /\ StatesOK' /\ BooksStand
        /\ UNCHANGED <<position, reports, notices, log>>
        /\ broker_to_client' \in [BrokerOrderIds -> ClientOrderIds \cup {None}]
        /\ \A b \in BrokerOrderIds :
             broker_to_client[b] # None => broker_to_client'[b] = broker_to_client[b]
    BY <2>1, RouteBooks
  <2>3. ASSUME NEW report \in reports PROVE ReportOK(report)'
    BY <1>3, <2>2, <2>3, SettlementAssumption DEF ReportOK
  <2> QED
    BY <1>2, <1>3, <2>2, <2>3 DEF Booking, HeldOK
<1>7. CASE ReceiveExecutionOnce
  <2> DEFINE notice == Head(notices)
  <2>1. /\ notice \in Notices /\ notices' = Tail(notices)
        /\ UNCHANGED <<broker_to_client, reports, log>>
    BY <1>4, <1>7 DEF ReceiveExecutionOnce
  <2>2. notice.odno \in BrokerOrderIds /\ notice.cntg_qty \in Int
    BY <2>1, SettlementAssumption DEF Notices
  <2>3. StatesOK' /\ HeldOK(position)' /\ Booking
    <3>1. CASE NoticeReportable(notice)
      <4>1. Settle(Report(notice.odno, notice.cntg_qty, notice))
        BY <1>7, <3>1 DEF ReceiveExecutionOnce
      <4>2. ReportOK(Report(notice.odno, notice.cntg_qty, notice))
        BY <2>2, <3>1, ReportOfNumber DEF NoticeReportable
      <4> QED
        BY <1>3, <4>1, <4>2, SettleBooks
    <3>2. CASE ~NoticeReportable(notice)
      BY <1>7, <3>2, NothingBooked DEF ReceiveExecutionOnce, Booking
    <3> QED
      BY <3>1, <3>2
  <2> HIDE DEF notice
  <2> QED
    BY <1>2, <1>3, <1>4, <1>5, <1>7, <2>1, <2>3 DEF ReceiveExecutionOnce
<1>8. CASE StartupReconcile
  <2>1. UNCHANGED <<states, position, broker_to_client, notices, log>>
    BY <1>8 DEF StartupReconcile, oms, broker
  <2>2. ASSUME NEW b \in Rows PROVE ReportOK(RowReport(b))
    <3>1. b \in BrokerOrderIds /\ OMS!Resolvable(b)
      BY <1>8 DEF StartupReconcile, RowNormalizes, Rows
    <3>2. orders[b].filled \in Int
      BY DEF Rows, BooksInv, SubmissionInv, OrdersTyped, BrokerOrder
    <3>3. states[broker_to_client[b]].filled_quantity \in Int
      BY <1>3, <3>1 DEF OMS!Resolvable, OMS!Registered, StatesOK, OrderOK, OMS!OrderState
    <3>4. Delta(b) \in Int
      BY <3>2, <3>3 DEF Delta
    <3> QED
      BY <3>1, <3>4, ReportOfNumber DEF RowReport
  <2>3. \A report \in reports' : ReportOK(report)
    BY <1>8, <2>2 DEF StartupReconcile
  <2>4. \A report \in reports' : ReportOK(report)'
    BY <2>1, <2>3 DEF ReportOK
  <2> QED
    BY <1>2, <1>3, <2>1, <2>4, NothingBooked DEF Booking
<1>9. CASE \E report \in reports : RecoverReport(report)
  <2>1. PICK report \in reports : RecoverReport(report)
    BY <1>9
  <2>2. /\ Settle(report) /\ reports' \subseteq reports
        /\ UNCHANGED <<broker_to_client, notices, log>>
    BY <2>1 DEF RecoverReport, broker
  <2>3. StatesOK' /\ HeldOK(position)' /\ Booking
    BY <1>3, <2>2, SettleBooks
  <2> QED
    BY <1>2, <1>3, <1>5, <2>2, <2>3
<1>10. CASE RecoverDone \/ StartExecution
  <2>1. UNCHANGED <<states, position, broker_to_client, reports, notices, log>>
    BY <1>10 DEF RecoverDone, StartExecution, oms, broker
  <2> QED
    BY <1>2, <1>3, <1>5, <2>1, NothingBooked DEF Booking
<1>11. CASE Stop \/ Lose \/ \E notice \in log : SendAgain(notice)
  <2>1. UNCHANGED <<states, position, broker_to_client, reports, log>>
    BY <1>11 DEF Stop, Lose, SendAgain, oms
  <2>2. notices' \in Seq(Notices)
    BY <1>3, <1>4, <1>11 DEF Stop, Lose, SendAgain
  <2> QED
    BY <1>2, <1>3, <1>5, <2>1, <2>2, NothingBooked DEF Booking
<1>12. CASE \E b \in BrokerOrderIds, notice \in Notices : BrokerExecute(b, notice)
  <2>1. UNCHANGED <<states, position, broker_to_client, reports>>
    BY <1>12 DEF BrokerExecute, oms
  <2>2. notices' \in Seq(Notices) /\ log' \subseteq Notices
    <3>1. PICK b \in BrokerOrderIds, notice \in Notices : BrokerExecute(b, notice)
      BY <1>12
    <3>2. log' = log \cup {notice} /\ notices' \in {notices, Append(notices, notice)}
      BY <3>1 DEF BrokerExecute
    <3> QED
      BY <1>3, <1>4, <3>2
  <2> QED
    BY <1>2, <1>3, <1>5, <2>1, <2>2, NothingBooked DEF Booking
<1>13. CASE UNCHANGED vars
  <2>1. UNCHANGED <<states, position, broker_to_client, reports, notices, log>>
    BY <1>13 DEF vars, oms, broker
  <2> QED
    BY <1>2, <1>3, <1>5, <2>1, NothingBooked DEF Booking
<1> QED
  BY <1>6, <1>7, <1>8, <1>9, <1>10, <1>11, <1>12, <1>13 DEF Next, Step

\* Whatever the source of an execution, and whatever is refused, redelivered or
\* cut short, order and position move in one step by the same amount, and each
\* time by an identity that had never been used: no order for any instrument,
\* side or quantity leaves the two books apart.
THEOREM BooksMoveTogether == Spec => [][Booking]_vars
<1>1. BooksInv /\ [Next]_vars => BooksInv' /\ [Booking]_vars
  BY StepBooks
<1> QED
  BY <1>1, InitBooks, PTL DEF Spec

-----------------------------------------------------------------------------
(* Types: an open position has an average price, and a report its fields.  *)

\* An open position has an average price.
Priced == position.side # None => position.avg_price \in Aggregate!Fractions

TypedInv == BooksInv /\ TypeOK /\ Priced

LEMMA FillTyped ==
  ASSUME NEW held \in Aggregate!Positions, HeldOK(held),
         held.side # None => held.avg_price \in Aggregate!Fractions,
         NEW side \in Aggregate!Sides, NEW quantity \in Int
  PROVE  LET after == Aggregate!Fill(held, side, quantity, ExecutionPrice) IN
         /\ after \in Aggregate!Positions
         /\ after.side # None => after.avg_price \in Aggregate!Fractions
<1> DEFINE after == Aggregate!Fill(held, side, quantity, ExecutionPrice)
<1>1. /\ ExecutionPrice \in Int
      /\ held.qty \in Int /\ held.side \in Aggregate!Sides \cup {None}
      /\ quantity - held.qty \in Int
  BY SettlementAssumption DEF Aggregate!Positions
<1>2. Aggregate!Price(ExecutionPrice) \in Aggregate!Fractions
  BY <1>1 DEF Aggregate!Price, Aggregate!Fractions
<1>3. \A q \in Int : LET opened == Aggregate!Open(side, q, ExecutionPrice) IN
        opened \in Aggregate!Positions /\ opened.avg_price \in Aggregate!Fractions
  BY <1>2 DEF Aggregate!Open, Aggregate!Positions
<1>4. CASE held.qty = 0 \/ held.side = None
  <2>1. after = Aggregate!Open(side, quantity, ExecutionPrice)
    BY <1>4 DEF Aggregate!Fill
  <2> QED
    BY <1>3, <2>1
<1>5. CASE held.qty # 0 /\ held.side # None /\ side = held.side
  <2> DEFINE average == Aggregate!Average(held, quantity, ExecutionPrice)
  <2>1. average \in Aggregate!Fractions
    <3>1. held.avg_price.num \in Int /\ held.avg_price.den \in Int
      BY <1>5 DEF Aggregate!Fractions
    <3> DEFINE num == held.avg_price.num
               den == held.avg_price.den
               qty == held.qty
    <3>2. average = [num |-> num * qty + ExecutionPrice * den * quantity,
                     den |-> den * (qty + quantity)]
      BY DEF Aggregate!Average
    <3>3. num \in Int /\ den \in Int /\ qty \in Int /\ ExecutionPrice \in Int /\ quantity \in Int
      BY <1>1, <3>1
    <3> HIDE DEF num, den, qty, average
    <3>4. /\ num * qty \in Int /\ den * (qty + quantity) \in Int
          /\ ExecutionPrice * den * quantity \in Int
      BY <3>3
    <3>5. num * qty + ExecutionPrice * den * quantity \in Int
      BY <3>4
    <3> QED
      BY <3>2, <3>4, <3>5 DEF Aggregate!Fractions
  <2>2. after = [side |-> side, qty |-> held.qty + quantity, avg_price |-> average]
    BY <1>5 DEF Aggregate!Fill
  <2> HIDE DEF average
  <2>3. held.qty + quantity \in Int
    BY <1>1
  <2> QED
    BY <2>1, <2>2, <2>3 DEF Aggregate!Positions
<1>6. CASE held.qty # 0 /\ held.side # None /\ side # held.side /\ quantity < held.qty
  <2>1. after = [held EXCEPT !.qty = held.qty - quantity]
    BY <1>6 DEF Aggregate!Fill
  <2>2. held.qty - quantity \in Int
    BY <1>1
  <2> QED
    BY <1>6, <2>1, <2>2 DEF Aggregate!Positions
<1>7. CASE held.qty # 0 /\ held.side # None /\ side # held.side /\ quantity = held.qty
  <2>1. after = Aggregate!Flat
    BY <1>7 DEF Aggregate!Fill
  <2> QED
    BY <2>1 DEF Aggregate!Positions, Aggregate!Flat
<1>8. CASE held.qty # 0 /\ held.side # None /\ side # held.side /\ quantity > held.qty
  <2>1. after = Aggregate!Open(side, quantity - held.qty, ExecutionPrice)
    BY <1>1, <1>8 DEF Aggregate!Fill, Aggregate!Flip
  <2> QED
    BY <1>1, <1>3, <2>1
<1> QED
  BY <1>1, <1>4, <1>5, <1>6, <1>7, <1>8

\* What settle does to what it knows and to what it has booked.
SettleMoves(report) ==
  \/ UNCHANGED <<seen, states, position>>
  \/ LET c == report.client_order_id IN
     /\ report.execution_id \notin seen
     /\ seen' = seen \cup {report.execution_id}
     /\ states[c] # None
     /\ states' = [states EXCEPT ![c] = OMS!Execute(states[c], report)]
     /\ OMS!ExecutionAdmitted(states[c], report)
     /\ report.filled_quantity > 0
     /\ Settled(c)' = Settled(c) + report.filled_quantity
     /\ \A d \in ClientOrderIds \ {c} : Settled(d)' = Settled(d)

LEMMA SettleMovesBooks ==
  ASSUME StatesOK, NEW report, ReportOK(report), Settle(report)
  PROVE  SettleMoves(report)
<1> DEFINE c == report.client_order_id
           q == report.filled_quantity
<1>1. CASE Known(report) \/ ~Settleable(report)
  BY <1>1 DEF Settle, SettleMoves
<1>2. CASE ~Known(report) /\ Settleable(report)
  <2>1. /\ seen' = seen \cup {report.execution_id}
        /\ report.execution_id \notin seen
        /\ states' = [states EXCEPT ![c] = OMS!Execute(states[c], report)]
        /\ OMS!ExecutionAdmitted(states[c], report)
    BY <1>2 DEF Settle, Known, Settleable
  <2>2. /\ c \in ClientOrderIds /\ states[c] # None /\ q \in Int /\ q > 0
        /\ report.status \in {"PARTIALLY_FILLED", "FILLED"}
    BY <2>1 DEF OMS!ExecutionAdmitted, ReportOK
  <2>3. states[c] \in OMS!OrderState
    BY <2>2 DEF StatesOK, OrderOK
  <2>4. /\ states'[c] = OMS!Execute(states[c], report)
        /\ \A d \in ClientOrderIds \ {c} : states'[d] = states[d]
    BY <2>1, <2>2 DEF StatesOK
  <2>5. /\ states'[c] \in OMS!OrderState
        /\ states'[c].filled_quantity = states[c].filled_quantity + q
    BY <2>2, <2>3, <2>4, ExecutedOrder DEF ReportOK
  <2>6. states'[c] # None
    BY <2>5, SettlementAssumption
  <2>7. Settled(c)' = Settled(c) + q
    BY <2>2, <2>5, <2>6 DEF Settled
  <2>8. \A d \in ClientOrderIds \ {c} : Settled(d)' = Settled(d)
    BY <2>4 DEF Settled
  <2> QED
    BY <2>1, <2>2, <2>7, <2>8 DEF SettleMoves
<1> QED
  BY <1>1, <1>2

LEMMA SettleTyped ==
  ASSUME TypedInv, NEW report, ReportOK(report), Settle(report),
         report.execution_id \in Notices \cup [odno : BrokerOrderIds, cumulative : Int]
  PROVE  /\ seen' \subseteq Notices \cup [odno : BrokerOrderIds, cumulative : Int]
         /\ position' \in Aggregate!Positions
         /\ Priced'
<1> DEFINE command == CommandOf(report)
           c == report.client_order_id
<1>1. /\ seen \subseteq Notices \cup [odno : BrokerOrderIds, cumulative : Int]
      /\ position \in Aggregate!Positions /\ Priced
      /\ StatesOK /\ HeldOK(position)
  BY DEF TypedInv, TypeOK, BooksInv
<1>2. seen' = seen \/ seen' = seen \cup {report.execution_id}
  BY DEF Settle
<1>3. position' \in Aggregate!Positions /\ Priced'
  <2>1. CASE position' = position
    BY <1>1, <2>1 DEF Priced
  <2>2. CASE /\ Settleable(report) /\ FillAccepted(command, report)
             /\ position' = FilledPosition(command, report)
    <3>1. c \in ClientOrderIds /\ states[c] # None /\ command # None
      BY <2>2 DEF Settleable, OMS!CommandAvailable, OMS!ExecutionAdmitted, ReportOK, CommandOf
    <3>2. states[c] \in OMS!OrderState
      BY <1>1, <3>1 DEF StatesOK, OrderOK
    <3>3. command \in Commands
      BY <3>1, <3>2 DEF OMS!OrderState, CommandOf
    <3>4. command.side \in Aggregate!Sides /\ report.filled_quantity \in Int
      BY <3>3, SettlementAssumption DEF ReportOK
    <3>5. position' = Aggregate!Fill(position, command.side, report.filled_quantity, ExecutionPrice)
      BY <2>2 DEF FilledPosition, ReportOK
    <3>6. position.side # None => position.avg_price \in Aggregate!Fractions
      BY <1>1 DEF Priced
    <3> HIDE DEF command
    <3>7. /\ position' \in Aggregate!Positions
          /\ position'.side # None => position'.avg_price \in Aggregate!Fractions
      BY <1>1, <3>4, <3>5, <3>6, FillTyped
    <3> QED
      BY <3>7 DEF Priced
  <2> QED
    BY <2>1, <2>2 DEF Settle
<1> QED
  BY <1>1, <1>2, <1>3

\* What BooksInv leaves of the types.
RestTyped ==
  /\ identities \subseteq ClientOrderIds
  /\ phase \in {"down", "recovering", "recovered", "up"}
  /\ reports \subseteq ReportType
  /\ seen \subseteq Notices \cup [odno : BrokerOrderIds, cumulative : Int]
  /\ position \in Aggregate!Positions
  /\ Priced
  /\ executed \in [ClientOrderIds -> Nat]
  /\ sent \subseteq log
  /\ faults \in FaultSets

LEMMA TypedParts == TypedInv <=> BooksInv /\ RestTyped
<1>1. StatesOK => states \in [ClientOrderIds -> OMS!OrderState \cup {None}]
  BY DEF StatesOK, OrderOK
<1>2. BooksInv => /\ StatesOK /\ OrdersTyped
                  /\ broker_to_client \in [BrokerOrderIds -> ClientOrderIds \cup {None}]
                  /\ notices \in Seq(Notices) /\ log \subseteq Notices
  BY DEF BooksInv, SubmissionInv
<1> QED
  BY <1>1, <1>2 DEF TypedInv, TypeOK, RestTyped, OrdersTyped

LEMMA TypedPartsNext == (TypedInv <=> BooksInv /\ RestTyped)'
  BY TypedParts, PTL

LEMMA InitTyped == Init => TypedInv
<1> SUFFICES ASSUME Init PROVE RestTyped
  BY InitBooks, TypedParts
<1>1. Aggregate!Flat \in Aggregate!Positions /\ Aggregate!Flat.side = None
  BY DEF Aggregate!Flat, Aggregate!Positions
<1> QED
  BY <1>1 DEF Init, RestTyped, Priced

LEMMA ReportTyped ==
  ASSUME BooksInv, NEW b \in BrokerOrderIds, OMS!Resolvable(b), NEW q \in Int,
         NEW id \in [odno : BrokerOrderIds, cumulative : Int]
  PROVE  Report(b, q, id) \in ReportType
<1> DEFINE c == broker_to_client[b]
<1>1. c \in ClientOrderIds /\ states[c] # None
  BY DEF OMS!Resolvable, OMS!Registered, BooksInv
<1>2. states[c].filled_quantity \in Int /\ states[c].order_quantity \in Int
  BY <1>1 DEF BooksInv, StatesOK, OrderOK, OMS!OrderState
<1> DEFINE filled == states[c].filled_quantity
           quantity == states[c].order_quantity
<1>3. quantity - (filled + q) \in Int
  BY <1>2
<1> HIDE DEF filled, quantity, c
<1> QED
  BY <1>1, <1>3 DEF Report, ReportType, filled, quantity, c

LEMMA NextTyped == TypedInv /\ [Next]_vars => TypedInv'
<1> SUFFICES ASSUME TypedInv, [Next]_vars PROVE RestTyped'
  BY StepBooks, TypedPartsNext DEF TypedInv
<1>1. BooksInv /\ RestTyped /\ BooksInv'
  BY StepBooks, TypedParts DEF TypedInv
<1>2. /\ notices \in Seq(Notices) /\ log \subseteq Notices
      /\ notices # <<>> => Head(notices) \in Notices
  BY <1>1 DEF BooksInv
<1>3. CASE \E command \in Commands : Route(command)
  <2>1. PICK command \in Commands : Route(command)
    BY <1>3
  <2>2. UNCHANGED <<phase, reports, seen, position, executed, log, sent, faults>>
    <3>1. UNCHANGED faults
      BY <2>1 DEF Next, vars
    <3>2. UNCHANGED <<phase, reports, seen, position, executed, log, sent>>
      BY <2>1 DEF Route, RouteUnregistered, RouteBlocked, RouteAccepted, RouteRejected,
                  RouteLost, Sending, broker
    <3> QED
      BY <3>1, <3>2
  <2>3. identities' = identities \/ identities' = identities \cup {command.client_order_id}
    BY <2>1 DEF Route, RouteUnregistered, RouteBlocked, RouteAccepted, RouteRejected,
                RouteLost, Sending, Reserve
  <2> QED
    BY <1>1, <2>2, <2>3, SettlementAssumption DEF RestTyped, Priced
<1>4. CASE ReceiveExecutionOnce
  <2> DEFINE notice == Head(notices)
             report == Report(notice.odno, notice.cntg_qty, notice)
  <2>1. /\ UNCHANGED <<identities, phase, reports, executed, log, sent, faults>>
        /\ notice \in Notices
    BY <1>2, <1>4 DEF ReceiveExecutionOnce, Next, vars, broker, oms
  <2>2. CASE NoticeReportable(notice)
    <3>1. notice.odno \in BrokerOrderIds /\ notice.cntg_qty \in Int
      BY <2>1, SettlementAssumption DEF Notices
    <3>2. ReportOK(report)
      BY <1>1, <2>2, <3>1, ReportOfNumber DEF NoticeReportable
    <3>3. Settle(report) /\ report.execution_id = notice
      BY <1>4, <2>2 DEF ReceiveExecutionOnce, Report
    <3> HIDE DEF report, notice
    <3> QED
      BY <1>1, <2>1, <3>2, <3>3, SettleTyped DEF RestTyped
  <2>3. CASE ~NoticeReportable(notice)
    <3>1. UNCHANGED <<seen, position>>
      BY <1>4, <2>3 DEF ReceiveExecutionOnce
    <3> HIDE DEF notice, report
    <3> QED
      BY <1>1, <2>1, <3>1 DEF RestTyped, Priced
  <2> QED
    BY <2>2, <2>3
<1>5. CASE StartupReconcile
  <2>1. UNCHANGED <<identities, seen, position, executed, log, sent, faults>>
    BY <1>5 DEF StartupReconcile, oms, broker, Next, vars
  <2>2. phase' = "recovering"
    BY <1>5 DEF StartupReconcile
  <2>3. ASSUME NEW b \in Rows PROVE RowReport(b) \in ReportType
    <3>1. b \in BrokerOrderIds /\ OMS!Resolvable(b)
      BY <1>5 DEF StartupReconcile, RowNormalizes, Rows
    <3>2. orders[b].filled \in Int
      BY <1>1 DEF Rows, BooksInv, SubmissionInv, OrdersTyped, BrokerOrder
    <3>3. states[broker_to_client[b]].filled_quantity \in Int
      BY <1>1, <3>1
      DEF OMS!Resolvable, OMS!Registered, BooksInv, StatesOK, OrderOK, OMS!OrderState
    <3>4. Delta(b) \in Int
      BY <3>2, <3>3 DEF Delta
    <3>5. [odno |-> b, cumulative |-> orders[b].filled] \in [odno : BrokerOrderIds, cumulative : Int]
      BY <3>1, <3>2
    <3> QED
      BY <1>1, <3>1, <3>4, <3>5, ReportTyped DEF RowReport
  <2>4. reports' \subseteq ReportType
    BY <1>5, <2>3 DEF StartupReconcile
  <2> QED
    BY <1>1, <2>1, <2>2, <2>4 DEF RestTyped, Priced
<1>6. CASE \E report \in reports : RecoverReport(report)
  <2>1. PICK report \in reports : RecoverReport(report)
    BY <1>6
  <2>2. /\ UNCHANGED <<identities, executed, log, sent, faults>>
        /\ reports' \subseteq reports /\ phase' \in {phase, "down"}
        /\ Settle(report)
    BY <2>1 DEF RecoverReport, broker, Next, vars, oms
  <2>3. ReportOK(report) /\ report.execution_id \in [odno : BrokerOrderIds, cumulative : Int]
    BY <1>1, <2>1 DEF BooksInv, RestTyped, ReportType
  <2> QED
    BY <1>1, <2>2, <2>3, SettleTyped DEF RestTyped
<1>7. CASE RecoverDone \/ StartExecution \/ Stop \/ Lose
  <2>1. UNCHANGED <<identities, seen, position, executed, log, faults>>
    BY <1>7 DEF RecoverDone, StartExecution, Stop, Lose, oms, broker, Next, vars
  <2>2. /\ sent' \subseteq sent /\ reports' = reports
        /\ phase' \in {phase, "down", "recovered", "up"}
    BY <1>7 DEF RecoverDone, StartExecution, Stop, Lose, oms, broker
  <2> QED
    BY <1>1, <2>1, <2>2 DEF RestTyped, Priced
<1>8. CASE \E notice \in log : SendAgain(notice)
  <2>1. UNCHANGED <<identities, seen, position, executed, log, faults, reports, phase>>
    BY <1>8 DEF SendAgain, oms, broker, Next, vars
  <2>2. sent' \subseteq log
    BY <1>1, <1>8 DEF SendAgain, RestTyped
  <2> QED
    BY <1>1, <2>1, <2>2 DEF RestTyped, Priced
<1>9. CASE \E b \in BrokerOrderIds, notice \in Notices : BrokerExecute(b, notice)
  <2>1. PICK b \in BrokerOrderIds, notice \in Notices : BrokerExecute(b, notice)
    BY <1>9
  <2>2. UNCHANGED <<identities, seen, position, reports, phase, faults>>
    BY <2>1 DEF BrokerExecute, oms, Next, vars
  <2>3. sent' \subseteq log'
    BY <1>1, <2>1 DEF BrokerExecute, RestTyped
  <2>4. executed' \in [ClientOrderIds -> Nat]
    <3> DEFINE c == orders[b].client_order_id
    <3>1. orders[b] \in BrokerOrder
      BY <1>1, <2>1 DEF BrokerExecute, BooksInv, SubmissionInv, OrdersTyped
    <3>2. c \in ClientOrderIds /\ orders[b].quantity - orders[b].filled \in Int
      BY <3>1 DEF BrokerOrder
    <3>3. executed[c] \in Nat /\ executed \in [ClientOrderIds -> Nat]
      BY <1>1, <3>2 DEF RestTyped
    <3>4. notice.cntg_qty \in Nat
      <4> DEFINE k == orders[b].quantity - orders[b].filled
      <4>1. notice.cntg_qty \in 1 .. k
        BY <2>1 DEF BrokerExecute
      <4>2. k \in Int
        BY <3>2
      <4> HIDE DEF k
      <4> QED
        BY <4>1, <4>2
    <3>5. executed[c] + notice.cntg_qty \in Nat
      BY <3>3, <3>4
    <3>6. executed' = [executed EXCEPT ![c] = executed[c] + notice.cntg_qty]
      BY <2>1 DEF BrokerExecute
    <3> HIDE DEF c
    <3> QED
      BY <3>3, <3>5, <3>6
  <2> QED
    BY <1>1, <2>2, <2>3, <2>4 DEF RestTyped, Priced
<1>10. CASE UNCHANGED vars
  BY <1>1, <1>10 DEF vars, oms, broker, RestTyped, Priced
<1> QED
  BY <1>3, <1>4, <1>5, <1>6, <1>7, <1>8, <1>9, <1>10 DEF Next, Step

\* Every variable keeps its type, whatever the broker and the network do.
THEOREM SettlementTyped == Spec => []TypeOK
<1>1. TypedInv => TypeOK
  BY DEF TypedInv
<1> QED
  BY <1>1, InitTyped, NextTyped, PTL DEF Spec

-----------------------------------------------------------------------------
(* The units a set of notices stands for, counted as the elements of a set.*)

\* The executed units a set of notices stands for.
UnitsOf(S) == {u \in S \X Nat : u[2] \in 1 .. u[1].cntg_qty}

LEMMA UnitsOfNone == IsFiniteSet(UnitsOf({})) /\ Cardinality(UnitsOf({})) = 0
<1>1. UnitsOf({}) = {}
  BY DEF UnitsOf
<1> QED
  BY <1>1, FS_EmptySet

LEMMA UnitsOfOne ==
  ASSUME NEW n, n.cntg_qty \in Nat
  PROVE  IsFiniteSet(UnitsOf({n})) /\ Cardinality(UnitsOf({n})) = n.cntg_qty
<1> DEFINE q == n.cntg_qty
           f == [i \in 1 .. q |-> <<n, i>>]
<1>1. q \in Nat
  OBVIOUS
<1>2. \A i \in 1 .. q : i \in Nat /\ f[i] = <<n, i>>
  BY <1>1
<1>3. \A u \in UnitsOf({n}) : u[2] \in 1 .. q /\ u = <<n, u[2]>>
  BY DEF UnitsOf
<1>4. \A i \in 1 .. q : f[i] \in UnitsOf({n})
  BY <1>2 DEF UnitsOf
<1>5. f \in [1 .. q -> UnitsOf({n})]
  BY <1>4
<1>6. f \in Bijection(1 .. q, UnitsOf({n}))
  <2> HIDE DEF f, q
  <2>1. \A i, j \in 1 .. q : f[i] = f[j] => i = j
    BY <1>2
  <2>2. \A u \in UnitsOf({n}) : \E i \in 1 .. q : f[i] = u
    BY <1>2, <1>3
  <2> QED
    BY <1>5, <2>1, <2>2 DEF Bijection, Injection, Surjection, IsInjective
<1>7. IsFiniteSet(1 .. q) /\ Cardinality(1 .. q) = q
  <2> HIDE DEF q
  <2>1. 0 \in Int /\ 1 \in Int /\ q \in Int
    BY <1>1
  <2>2. IsFiniteSet(1 .. q) /\ Cardinality(1 .. q) = IF 1 > q THEN 0 ELSE q - 1 + 1
    BY <2>1, FS_Interval
  <2> QED
    BY <1>1, <2>2
<1>8. ExistsBijection(1 .. q, UnitsOf({n}))
  BY <1>6 DEF ExistsBijection
<1> HIDE DEF f, q
<1> QED
  BY <1>7, <1>8, FS_Bijection DEF q

LEMMA UnitsOfMore ==
  ASSUME NEW S, IsFiniteSet(UnitsOf(S)), NEW n, n \notin S, n.cntg_qty \in Nat
  PROVE  /\ IsFiniteSet(UnitsOf(S \cup {n}))
         /\ Cardinality(UnitsOf(S \cup {n})) = Cardinality(UnitsOf(S)) + n.cntg_qty
<1>1. UnitsOf(S \cup {n}) = UnitsOf(S) \cup UnitsOf({n})
  BY DEF UnitsOf
<1>2. UnitsOf(S) \cap UnitsOf({n}) = {}
  BY DEF UnitsOf
<1>3. IsFiniteSet(UnitsOf({n})) /\ Cardinality(UnitsOf({n})) = n.cntg_qty
  BY UnitsOfOne
<1>4. /\ IsFiniteSet(UnitsOf(S) \cup UnitsOf({n}))
      /\ Cardinality(UnitsOf(S) \cup UnitsOf({n})) =
           Cardinality(UnitsOf(S)) + Cardinality(UnitsOf({n}))
             - Cardinality(UnitsOf(S) \cap UnitsOf({n}))
  BY <1>3, FS_Union
<1>5. Cardinality(UnitsOf(S)) \in Nat /\ Cardinality({}) = 0
  BY FS_CardinalityType, FS_EmptySet
<1> DEFINE k == Cardinality(UnitsOf(S))
<1>6. Cardinality(UnitsOf(S \cup {n})) = k + n.cntg_qty - 0
  BY <1>1, <1>2, <1>3, <1>4, <1>5
<1>7. k \in Nat
  BY <1>5
<1> HIDE DEF k
<1>8. Cardinality(UnitsOf(S \cup {n})) = k + n.cntg_qty
  BY <1>6, <1>7
<1> QED
  BY <1>1, <1>4, <1>8 DEF k

LEMMA UnitsOfFewer ==
  ASSUME NEW S, IsFiniteSet(UnitsOf(S)), NEW n \in S, n.cntg_qty \in Nat
  PROVE  /\ IsFiniteSet(UnitsOf(S \ {n}))
         /\ Cardinality(UnitsOf(S)) = Cardinality(UnitsOf(S \ {n})) + n.cntg_qty
<1>1. UnitsOf(S \ {n}) \in SUBSET UnitsOf(S)
  BY DEF UnitsOf
<1>2. IsFiniteSet(UnitsOf(S \ {n}))
  BY <1>1, FS_Subset
<1>3. n \notin S \ {n} /\ (S \ {n}) \cup {n} = S
  OBVIOUS
<1> DEFINE R == S \ {n}
<1>4. n \notin R /\ IsFiniteSet(UnitsOf(R)) /\ R \cup {n} = S
  BY <1>2, <1>3
<1> HIDE DEF R
<1>5. Cardinality(UnitsOf(R \cup {n})) = Cardinality(UnitsOf(R)) + n.cntg_qty
  BY <1>4, UnitsOfMore
<1> QED
  BY <1>2, <1>4, <1>5 DEF R

LEMMA UnitsCount ==
  ASSUME NEW S, IsFiniteSet(UnitsOf(S))
  PROVE  Cardinality(UnitsOf(S)) \in Nat
  BY FS_CardinalityType

-----------------------------------------------------------------------------
(* The ledger: what is booked and what is under way was executed.          *)

UnbookedOf(b) == {n \in sent \ seen : n.odno = b}

\* The units of an order that are under way to settlement.
Unbooked(b) == Cardinality(UnitsOf(UnbookedOf(b)))

\* A subscription carries only what was executed, and the reports of a start
\* are settled before it.
ChannelsFit ==
  /\ phase # "up" => sent = {} /\ notices = <<>>
  /\ phase # "recovering" => reports = {}
  /\ \A i \in DOMAIN notices : notices[i] \in sent
  /\ \A n \in log : orders[n.odno] # None /\ n.cntg_qty > 0

\* What the exchange has executed is what its orders are filled by.
ExchangeFits ==
  /\ \A b \in BrokerOrderIds :
       orders[b] # None => executed[orders[b].client_order_id] = orders[b].filled
  /\ \A c \in ClientOrderIds :
       (\A b \in BrokerOrderIds : orders[b] # None => orders[b].client_order_id # c)
         => executed[c] = 0

\* The OMS correlates an order number only with the order that has it at the
\* broker, and books nothing for an order without one.
CorrelationFits ==
  /\ \A b \in BrokerOrderIds :
       broker_to_client[b] # None =>
         /\ orders[b] # None
         /\ orders[b].client_order_id = broker_to_client[b]
  /\ \A c \in ClientOrderIds :
       (\A b \in BrokerOrderIds : broker_to_client[b] # c) => Settled(c) = 0

\* What is booked, and what is still to be booked on this subscription or by
\* this start, was executed.
BookedFits(b) ==
  broker_to_client[b] # None =>
    /\ IsFiniteSet(UnitsOf(UnbookedOf(b)))
    /\ Settled(broker_to_client[b]) + Unbooked(b) <= orders[b].filled

ReportFits(report) ==
  Settled(report.client_order_id) + report.filled_quantity
    <= orders[report.broker_order_id].filled

LedgerInv ==
  /\ ChannelsFit
  /\ ExchangeFits
  /\ CorrelationFits
  /\ \A b \in BrokerOrderIds : BookedFits(b)
  /\ \A report \in reports : ReportFits(report)
  /\ \A r, s \in reports : r.broker_order_id = s.broker_order_id => r = s

LedgerParts == TypedInv /\ LedgerInv

LEMMA UnbookedCount ==
  ASSUME NEW b, IsFiniteSet(UnitsOf(UnbookedOf(b)))
  PROVE  Unbooked(b) \in Nat
  BY UnitsCount DEF Unbooked

LEMMA NothingUnbooked ==
  ASSUME NEW b, UnbookedOf(b) = {}
  PROVE  IsFiniteSet(UnitsOf(UnbookedOf(b))) /\ Unbooked(b) = 0
  BY UnitsOfNone DEF Unbooked

LEMMA NothingUnbookedNext ==
  ASSUME NEW b, UnbookedOf(b)' = {}
  PROVE  (IsFiniteSet(UnitsOf(UnbookedOf(b))) /\ Unbooked(b) = 0)'
  BY UnitsOfNone DEF Unbooked

LEMMA SettledInteger ==
  ASSUME StatesOK, NEW c \in ClientOrderIds
  PROVE  Settled(c) \in Int /\ Settled(c) >= 0
  BY DEF StatesOK, OrderOK, Settled, OMS!OrderState

LEMMA FilledInteger ==
  ASSUME OrdersTyped, NEW b \in BrokerOrderIds, orders[b] # None
  PROVE  /\ orders[b].filled \in Int /\ orders[b].quantity \in Int
         /\ orders[b].client_order_id \in ClientOrderIds
  BY DEF OrdersTyped, BrokerOrder

\* Two order numbers are not correlated with one order.
LEMMA CorrelatedOnce ==
  ASSUME TypedInv, CorrelationFits, NEW a \in BrokerOrderIds, NEW b \in BrokerOrderIds,
         broker_to_client[a] # None, broker_to_client[a] = broker_to_client[b]
  PROVE  a = b
  BY DEF TypedInv, BooksInv, SubmissionInv, AtMostOnePhysicalOrder, CorrelationFits

\* The OMS never shows more than was executed.
LEMMA LedgerBounds ==
  ASSUME LedgerParts
  PROVE  NeverOverSettled
<1> SUFFICES ASSUME NEW c \in ClientOrderIds PROVE Settled(c) <= executed[c]
  BY DEF NeverOverSettled
<1>1. StatesOK /\ OrdersTyped /\ executed[c] \in Nat
  BY DEF LedgerParts, TypedInv, TypeOK, BooksInv, SubmissionInv
<1>2. CASE \A b \in BrokerOrderIds : broker_to_client[b] # c
  <2>1. Settled(c) = 0
    BY <1>2 DEF LedgerParts, LedgerInv, CorrelationFits
  <2> QED
    BY <1>1, <2>1
<1>3. CASE \E b \in BrokerOrderIds : broker_to_client[b] = c
  <2>1. PICK b \in BrokerOrderIds : broker_to_client[b] = c
    BY <1>3
  <2>2. c # None
    BY SettlementAssumption
  <2>3. orders[b] # None /\ orders[b].client_order_id = c
    BY <2>1, <2>2 DEF LedgerParts, LedgerInv, CorrelationFits
  <2>4. /\ IsFiniteSet(UnitsOf(UnbookedOf(b)))
        /\ Settled(c) + Unbooked(b) <= orders[b].filled
    BY <2>1, <2>2 DEF LedgerParts, LedgerInv, BookedFits
  <2>5. executed[c] = orders[b].filled
    BY <2>3 DEF LedgerParts, LedgerInv, ExchangeFits
  <2>6. Unbooked(b) \in Nat /\ Settled(c) \in Int /\ orders[b].filled \in Int
    BY <1>1, <2>3, <2>4, UnbookedCount, SettledInteger, FilledInteger
  <2> QED
    BY <2>4, <2>5, <2>6
<1> QED
  BY <1>2, <1>3

LEMMA InitLedger == Init => LedgerParts
<1> SUFFICES ASSUME Init PROVE LedgerInv
  BY InitTyped DEF LedgerParts
<1>1. \A c \in ClientOrderIds : Settled(c) = 0
  BY DEF Init, Settled
<1>2. ChannelsFit /\ ExchangeFits /\ CorrelationFits
  BY <1>1 DEF Init, ChannelsFit, ExchangeFits, CorrelationFits
<1>3. \A b \in BrokerOrderIds : BookedFits(b)
  BY DEF Init, BookedFits
<1> QED
  BY <1>2, <1>3 DEF Init, LedgerInv

-----------------------------------------------------------------------------
\* What sending an order can change of the channels and of the broker.
LEMMA RouteKinds ==
  ASSUME NEW command \in Commands, Route(command)
  PROVE  /\ UNCHANGED <<phase, reports, seen, executed, notices, log, sent>>
         /\ \/ UNCHANGED <<orders, broker_to_client>>
            \/ \E b \in BrokerOrderIds :
                 /\ Reservable(command) /\ Accept(command, b)
                 /\ \/ UNCHANGED broker_to_client
                    \/ broker_to_client' =
                         [broker_to_client EXCEPT ![b] = command.client_order_id]
<1>1. CASE RouteUnregistered(command) \/ RouteBlocked(command)
  BY <1>1 DEF RouteUnregistered, RouteBlocked, broker
<1>2. CASE \E b \in BrokerOrderIds : RouteAccepted(command, b)
  BY <1>2 DEF RouteAccepted, Sending
<1>3. CASE RouteRejected(command)
  BY <1>3 DEF RouteRejected, Sending
<1>4. CASE RouteLost(command)
  BY <1>4 DEF RouteLost, Sending
<1> QED
  BY <1>1, <1>2, <1>3, <1>4 DEF Route

LEMMA RouteLedger ==
  ASSUME LedgerParts, NEW command \in Commands, Route(command)
  PROVE  LedgerInv'
<1> DEFINE c == command.client_order_id
<1>1. /\ UNCHANGED <<phase, reports, seen, executed, notices, log, sent>>
      /\ \A d \in ClientOrderIds : Settled(d)' = Settled(d)
  BY RouteKinds, RouteBooks DEF LedgerParts, TypedInv, BooksStand
<1>2. /\ ChannelsFit /\ ExchangeFits /\ CorrelationFits
      /\ \A b \in BrokerOrderIds : BookedFits(b)
      /\ \A report \in reports : ReportFits(report) /\ ReportOK(report)
      /\ \A r, s \in reports : r.broker_order_id = s.broker_order_id => r = s
      /\ broker_to_client \in [BrokerOrderIds -> ClientOrderIds \cup {None}]
      /\ OrdersTyped /\ PhysicalReserved
  BY DEF LedgerParts, LedgerInv, TypedInv, BooksInv, SubmissionInv
<1>3. \A b \in BrokerOrderIds : UnbookedOf(b)' = UnbookedOf(b) /\ Unbooked(b)' = Unbooked(b)
  BY <1>1 DEF UnbookedOf, Unbooked
<1>4. CASE UNCHANGED <<orders, broker_to_client>>
  <2>1. ChannelsFit' /\ ExchangeFits'
    BY <1>1, <1>2, <1>4 DEF ChannelsFit, ExchangeFits
  <2>2. CorrelationFits'
    BY <1>1, <1>2, <1>4 DEF CorrelationFits
  <2>3. \A b \in BrokerOrderIds : BookedFits(b)'
    BY <1>1, <1>2, <1>3, <1>4 DEF BookedFits
  <2>4. \A report \in reports : ReportFits(report)'
    BY <1>1, <1>2, <1>4 DEF ReportFits, ReportOK
  <2> QED
    BY <1>1, <1>2, <2>1, <2>2, <2>3, <2>4 DEF LedgerInv
<1>5. ASSUME NEW b \in BrokerOrderIds, Reservable(command), Accept(command, b),
             \/ UNCHANGED broker_to_client
             \/ broker_to_client' = [broker_to_client EXCEPT ![b] = c]
      PROVE  LedgerInv'
  <2>1. c \in ClientOrderIds /\ c # None /\ c \notin identities
    BY <1>5, SettlementAssumption DEF Reservable
  <2>2. /\ orders[b] = None
        /\ \A a \in BrokerOrderIds \ {b} : orders'[a] = orders[a]
        /\ orders'[b] = [client_order_id |-> c, quantity |-> command.quantity, filled |-> 0]
    BY <1>2, <1>5 DEF Accept, OrdersTyped
  <2>3. orders'[b] # None /\ orders'[b].client_order_id = c /\ orders'[b].filled = 0
    <3>1. orders'[b] \in BrokerOrder
      BY <2>1, <2>2, SettlementAssumption DEF BrokerOrder
    <3> QED
      BY <2>2, <3>1, SettlementAssumption
  <2>4. \A a \in BrokerOrderIds : orders[a] # None => orders[a].client_order_id # c
    BY <1>2, <2>1 DEF PhysicalReserved
  <2>5. executed[c] = 0
    BY <1>2, <2>1, <2>4 DEF ExchangeFits
  <2>6. Settled(c) = 0 /\ \A a \in BrokerOrderIds : broker_to_client[a] # c
    BY <1>2, <2>1, <2>4 DEF CorrelationFits
  <2>7. /\ broker_to_client[b] = None
        /\ \A a \in BrokerOrderIds \ {b} : broker_to_client'[a] = broker_to_client[a]
        /\ broker_to_client'[b] \in {None, c}
    BY <1>2, <1>5, <2>2 DEF CorrelationFits
  <2> HIDE DEF c
  <2>8. ChannelsFit'
    BY <1>1, <1>2, <2>2 DEF ChannelsFit, TypedInv, LedgerParts, TypeOK, Notices
  <2>9. ExchangeFits'
    BY <1>1, <1>2, <2>2, <2>3, <2>4, <2>5 DEF ExchangeFits
  <2>10. CorrelationFits'
    <3>1. ASSUME NEW a \in BrokerOrderIds, broker_to_client'[a] # None
          PROVE  orders'[a] # None /\ orders'[a].client_order_id = broker_to_client'[a]
      <4>1. CASE a = b
        BY <2>3, <2>7, <3>1, <4>1
      <4>2. CASE a # b
        BY <1>2, <2>2, <2>7, <3>1, <4>2 DEF CorrelationFits
      <4> QED
        BY <4>1, <4>2
    <3>2. ASSUME NEW d \in ClientOrderIds,
                 \A a \in BrokerOrderIds : broker_to_client'[a] # d
          PROVE  Settled(d)' = 0
      <4>1. d # None
        BY SettlementAssumption
      <4>2. \A a \in BrokerOrderIds : broker_to_client[a] # d
        BY <2>7, <3>2, <4>1
      <4>3. Settled(d) = 0
        BY <1>2, <4>2 DEF CorrelationFits
      <4> QED
        BY <1>1, <4>3
    <3> QED
      BY <3>1, <3>2 DEF CorrelationFits
  <2>11. ASSUME NEW a \in BrokerOrderIds PROVE BookedFits(a)'
    <3>1. CASE a = b
      <4>1. UnbookedOf(b)' = {}
        BY <1>1, <1>2, <2>2 DEF UnbookedOf, ChannelsFit, LedgerParts, TypedInv, TypeOK
      <4>2. (IsFiniteSet(UnitsOf(UnbookedOf(b))) /\ Unbooked(b) = 0)'
        BY <4>1, NothingUnbookedNext
      <4>3. Settled(c)' = 0
        BY <1>1, <2>1, <2>6
      <4> QED
        BY <2>3, <2>7, <3>1, <4>2, <4>3 DEF BookedFits
    <3>2. CASE a # b
      <4>1. broker_to_client'[a] = broker_to_client[a] /\ orders'[a] = orders[a]
        BY <2>2, <2>7, <3>2
      <4> QED
        BY <1>1, <1>2, <1>3, <4>1 DEF BookedFits
    <3> QED
      BY <3>1, <3>2
  <2>12. ASSUME NEW report \in reports PROVE ReportFits(report)'
    <3>1. orders[report.broker_order_id] # None
      BY <1>2, SettlementAssumption DEF ReportOK, CorrelationFits
    <3> QED
      BY <1>1, <1>2, <2>2, <3>1 DEF ReportFits, ReportOK
  <2> QED
    BY <1>1, <1>2, <2>8, <2>9, <2>10, <2>11, <2>12 DEF LedgerInv
<1> QED
  BY <1>4, <1>5, RouteKinds

LEMMA NoElements == DOMAIN << >> = {}
<1>1. << >> \in Seq({}) /\ Len(<< >>) = 0
  OBVIOUS
<1>2. DOMAIN << >> = 1 .. 0
  BY <1>1
<1>3. 1 .. 0 = {}
  OBVIOUS
<1> QED
  BY <1>2, <1>3

LEMMA TailElements ==
  ASSUME NEW S, NEW s \in Seq(S), s # <<>>
  PROVE  /\ Head(s) = s[1] /\ 1 \in DOMAIN s
         /\ \A i \in DOMAIN Tail(s) : i + 1 \in DOMAIN s /\ Tail(s)[i] = s[i + 1]
         /\ \A i \in DOMAIN s :
              i # 1 => \E j \in DOMAIN Tail(s) : Tail(s)[j] = s[i]
<1>1. Len(s) \in Nat /\ Len(s) > 0 /\ DOMAIN s = 1 .. Len(s)
  OBVIOUS
<1>2. Len(Tail(s)) = Len(s) - 1 /\ DOMAIN Tail(s) = 1 .. Len(s) - 1
  BY <1>1
<1>3. \A i \in 1 .. Len(s) - 1 : i + 1 \in 1 .. Len(s) /\ Tail(s)[i] = s[i + 1]
  BY <1>1
<1>4. ASSUME NEW i \in DOMAIN s, i # 1 PROVE \E j \in DOMAIN Tail(s) : Tail(s)[j] = s[i]
  <2>1. i - 1 \in 1 .. Len(s) - 1 /\ (i - 1) + 1 = i
    BY <1>1, <1>4
  <2> QED
    BY <1>2, <1>3, <2>1
<1> QED
  BY <1>1, <1>2, <1>3, <1>4

LEMMA AppendElements ==
  ASSUME NEW S, NEW s \in Seq(S), NEW e
  PROVE  LET longer == Append(s, e) IN
         /\ \A i \in DOMAIN s : i \in DOMAIN longer /\ longer[i] = s[i]
         /\ \A i \in DOMAIN longer : \/ i \in DOMAIN s /\ longer[i] = s[i]
                                    \/ longer[i] = e
         /\ \E i \in DOMAIN longer : longer[i] = e
<1> DEFINE longer == Append(s, e)
<1>1. Len(s) \in Nat /\ DOMAIN s = 1 .. Len(s)
  OBVIOUS
<1>2. /\ DOMAIN longer = 1 .. Len(s) + 1
      /\ \A i \in 1 .. Len(s) : longer[i] = s[i]
      /\ longer[Len(s) + 1] = e
  BY <1>1
<1> HIDE DEF longer
<1>3. \A i \in 1 .. Len(s) + 1 : i \in 1 .. Len(s) \/ i = Len(s) + 1
  BY <1>1
<1>4. Len(s) + 1 \in 1 .. Len(s) + 1 /\ \A i \in 1 .. Len(s) : i \in 1 .. Len(s) + 1
  BY <1>1
<1> QED
  BY <1>1, <1>2, <1>3, <1>4 DEF longer

\* The parts of the invariant, as the steps use them.
LEMMA LedgerFacts ==
  ASSUME LedgerParts
  PROVE  /\ ChannelsFit /\ ExchangeFits /\ CorrelationFits
         /\ \A b \in BrokerOrderIds : BookedFits(b)
         /\ \A report \in reports : ReportFits(report) /\ ReportOK(report)
         /\ \A r, s \in reports : r.broker_order_id = s.broker_order_id => r = s
         /\ broker_to_client \in [BrokerOrderIds -> ClientOrderIds \cup {None}]
         /\ OrdersTyped /\ StatesOK /\ BooksInv /\ None \notin ClientOrderIds
         /\ sent \subseteq log /\ log \subseteq Notices
         /\ phase \in {"down", "recovering", "recovered", "up"}
  BY SettlementAssumption DEF LedgerParts, LedgerInv, TypedInv, TypeOK, BooksInv, SubmissionInv

\* A report moves the books of its own order only.
LEMMA SettledElsewhere ==
  ASSUME LedgerParts, NEW report, ReportOK(report), SettleMoves(report),
         NEW a \in BrokerOrderIds, a # report.broker_order_id,
         NEW d \in ClientOrderIds, broker_to_client[a] = d
  PROVE  Settled(d)' = Settled(d)
<1> DEFINE c == report.client_order_id
           b == report.broker_order_id
<1>1. \A e \in ClientOrderIds \ {c} : Settled(e)' = Settled(e)
  BY DEF SettleMoves, Settled
<1>2. b \in BrokerOrderIds /\ broker_to_client[b] = c
  BY DEF ReportOK
<1> HIDE DEF b, c
<1>3. d # None /\ a # b
  BY LedgerFacts DEF b
<1>4. d # c
  BY <1>2, <1>3, CorrelatedOnce DEF LedgerParts, LedgerInv
<1> QED
  BY <1>1, <1>4

LEMMA SettledOfNobody ==
  ASSUME NEW report, ReportOK(report), SettleMoves(report),
         NEW d \in ClientOrderIds, \A b \in BrokerOrderIds : broker_to_client[b] # d
  PROVE  Settled(d)' = Settled(d)
<1>1. d # report.client_order_id
  BY DEF ReportOK
<1> QED
  BY <1>1 DEF SettleMoves, Settled

\* Nothing but the books of correlated orders moves.
LEMMA CorrelationKept ==
  ASSUME LedgerParts, UNCHANGED <<orders, broker_to_client>>,
         \A d \in ClientOrderIds :
           (\A b \in BrokerOrderIds : broker_to_client[b] # d) => Settled(d)' = Settled(d)
  PROVE  CorrelationFits'
<1>1. ASSUME NEW d \in ClientOrderIds,
             \A b \in BrokerOrderIds : broker_to_client'[b] # d
      PROVE  Settled(d)' = 0
  BY <1>1, LedgerFacts DEF CorrelationFits
<1>2. \A b \in BrokerOrderIds :
        broker_to_client'[b] # None =>
          orders'[b] # None /\ orders'[b].client_order_id = broker_to_client'[b]
  BY LedgerFacts DEF CorrelationFits
<1> QED
  BY <1>1, <1>2 DEF CorrelationFits

LEMMA BookedKept ==
  ASSUME LedgerParts, NEW b \in BrokerOrderIds,
         broker_to_client'[b] = broker_to_client[b], orders'[b] = orders[b],
         \A d \in ClientOrderIds : broker_to_client[b] = d => Settled(d)' = Settled(d),
         UnbookedOf(b)' = UnbookedOf(b)
  PROVE  BookedFits(b)'
<1> SUFFICES ASSUME broker_to_client'[b] # None
             PROVE  (/\ IsFiniteSet(UnitsOf(UnbookedOf(b)))
                     /\ Settled(broker_to_client[b]) + Unbooked(b) <= orders[b].filled)'
  BY DEF BookedFits
<1>1. PICK d \in ClientOrderIds : broker_to_client[b] = d
  BY LedgerFacts
<1>2. d # None
  BY LedgerFacts
<1>3. /\ IsFiniteSet(UnitsOf(UnbookedOf(b)))
      /\ Settled(d) + Unbooked(b) <= orders[b].filled
  BY <1>1, <1>2, LedgerFacts DEF BookedFits
<1>4. Unbooked(b)' = Unbooked(b) /\ Settled(d)' = Settled(d)
  BY <1>1 DEF Unbooked
<1> QED
  BY <1>1, <1>3, <1>4

LEMMA ReceiveLedger ==
  ASSUME LedgerParts, ReceiveExecutionOnce
  PROVE  LedgerInv'
<1>1. /\ phase = "up" /\ notices # <<>> /\ notices' = Tail(notices) /\ reports = {}
      /\ UNCHANGED <<broker_to_client, phase, reports, orders, executed, log, sent>>
  BY LedgerFacts DEF ReceiveExecutionOnce, ChannelsFit
<1>2. PICK n : n = Head(notices)
  OBVIOUS
<1>3. n \in sent /\ n \in log /\ n \in Notices /\ n.cntg_qty \in Nat /\ n.cntg_qty > 0
  <2>1. notices \in Seq(Notices)
    BY LedgerFacts DEF BooksInv
  <2>2. 1 \in DOMAIN notices /\ n = notices[1]
    BY <1>1, <1>2, <2>1, TailElements
  <2>3. n \in sent /\ n \in log /\ n \in Notices /\ n.cntg_qty > 0
    BY <2>2, LedgerFacts DEF ChannelsFit
  <2>4. n.cntg_qty \in Int
    BY <2>3, SettlementAssumption DEF Notices
  <2> QED
    BY <2>3, <2>4
<1>4. ChannelsFit'
  <2>1. \A i \in DOMAIN Tail(notices) : Tail(notices)[i] \in sent
    <3>1. notices \in Seq(Notices)
      BY LedgerFacts DEF BooksInv
    <3>2. \A i \in DOMAIN Tail(notices) :
            i + 1 \in DOMAIN notices /\ Tail(notices)[i] = notices[i + 1]
      BY <1>1, <3>1, TailElements
    <3> QED
      BY <3>2, LedgerFacts DEF ChannelsFit
  <2> QED
    BY <1>1, <2>1, LedgerFacts DEF ChannelsFit
<1>5. ExchangeFits'
  BY <1>1, LedgerFacts DEF ExchangeFits
<1>6. CASE UNCHANGED <<seen, states>>
  <2>1. \A d : Settled(d)' = Settled(d)
    BY <1>6 DEF Settled
  <2>2. CorrelationFits'
    BY <1>1, <2>1, CorrelationKept
  <2>3. ASSUME NEW b \in BrokerOrderIds PROVE BookedFits(b)'
    <3>1. UnbookedOf(b)' = UnbookedOf(b)
      BY <1>1, <1>6 DEF UnbookedOf
    <3> QED
      BY <1>1, <2>1, <3>1, BookedKept
  <2> QED
    BY <1>1, <1>4, <1>5, <2>2, <2>3 DEF LedgerInv
<1>7. ASSUME NEW report, ReportOK(report), SettleMoves(report), ~UNCHANGED <<seen, states>>,
             report.broker_order_id = n.odno, report.execution_id = n,
             report.filled_quantity = n.cntg_qty
      PROVE  LedgerInv'
  <2>1. /\ n \notin seen /\ seen' = seen \cup {n}
        /\ Settled(report.client_order_id)' = Settled(report.client_order_id) + n.cntg_qty
    BY <1>7 DEF SettleMoves, Settled
  <2>2. CorrelationFits'
    BY <1>1, <1>7, SettledOfNobody, CorrelationKept
  <2>3. ASSUME NEW b \in BrokerOrderIds PROVE BookedFits(b)'
    <3>1. CASE b = n.odno
      <4>1. PICK c : c = report.client_order_id
        OBVIOUS
      <4>2. c \in ClientOrderIds /\ c # None /\ broker_to_client[b] = c /\ broker_to_client'[b] = c
        BY <1>1, <1>7, <3>1, <4>1, LedgerFacts DEF ReportOK
      <4>3. Settled(c)' = Settled(c) + n.cntg_qty
        BY <2>1, <4>1
      <4>4. n \in UnbookedOf(b) /\ UnbookedOf(b)' = UnbookedOf(b) \ {n}
        BY <1>1, <1>3, <2>1, <3>1 DEF UnbookedOf
      <4>5. /\ IsFiniteSet(UnitsOf(UnbookedOf(b)))
            /\ Settled(c) + Unbooked(b) <= orders[b].filled
            /\ orders[b] # None
        BY <4>2, LedgerFacts DEF BookedFits, CorrelationFits
      <4>6. PICK S : S = UnbookedOf(b)
        OBVIOUS
      <4>7. /\ IsFiniteSet(UnitsOf(S \ {n}))
            /\ Cardinality(UnitsOf(S)) = Cardinality(UnitsOf(S \ {n})) + n.cntg_qty
        BY <1>3, <4>4, <4>5, <4>6, UnitsOfFewer
      <4>8. IsFiniteSet(UnitsOf(UnbookedOf(b)))' /\ Unbooked(b)' = Cardinality(UnitsOf(S \ {n}))
        BY <4>4, <4>6, <4>7 DEF Unbooked
      <4>9. Unbooked(b) = Unbooked(b)' + n.cntg_qty
        BY <4>6, <4>7, <4>8 DEF Unbooked
      <4>10. /\ Settled(c) \in Int /\ Unbooked(b)' \in Nat /\ orders[b].filled \in Int
        BY <4>2, <4>5, <4>7, <4>8, UnitsCount, SettledInteger, FilledInteger, LedgerFacts
      <4>11. Settled(c)' + Unbooked(b)' <= orders'[b].filled
        <5> DEFINE s == Settled(c)  u == Unbooked(b)'  q == n.cntg_qty  f == orders[b].filled
        <5>1. s \in Int /\ u \in Int /\ q \in Int /\ f \in Int
          BY <1>3, <4>10
        <5>2. s + (u + q) <= f
          BY <4>5, <4>9
        <5>3. Settled(c)' = s + q /\ orders'[b].filled = f
          BY <1>1, <4>3
        <5> HIDE DEF s, u, q, f
        <5>4. (s + q) + u <= f
          BY <5>1, <5>2
        <5> QED
          BY <5>3, <5>4 DEF u
      <4> QED
        BY <4>2, <4>8, <4>11 DEF BookedFits
    <3>2. CASE b # n.odno
      <4>1. UnbookedOf(b)' = UnbookedOf(b)
        BY <1>1, <2>1, <3>2 DEF UnbookedOf
      <4>2. \A d \in ClientOrderIds : broker_to_client[b] = d => Settled(d)' = Settled(d)
        BY <1>7, <3>2, SettledElsewhere
      <4> QED
        BY <1>1, <4>1, <4>2, BookedKept
    <3> QED
      BY <3>1, <3>2
  <2> QED
    BY <1>1, <1>4, <1>5, <2>2, <2>3 DEF LedgerInv
<1>8. CASE ~UNCHANGED <<seen, states>>
  <2>1. NoticeReportable(n) /\ Settle(Report(n.odno, n.cntg_qty, n))
    BY <1>2, <1>8 DEF ReceiveExecutionOnce
  <2>2. PICK report : report = Report(n.odno, n.cntg_qty, n)
    OBVIOUS
  <2>3. n.odno \in BrokerOrderIds /\ n.cntg_qty \in Int
    BY <1>3 DEF Notices
  <2>4. ReportOK(report)
    BY <2>1, <2>2, <2>3, LedgerFacts, ReportOfNumber DEF NoticeReportable
  <2>5. /\ report.broker_order_id = n.odno /\ report.execution_id = n
        /\ report.filled_quantity = n.cntg_qty
    BY <2>2 DEF Report
  <2>6. SettleMoves(report)
    BY <2>1, <2>2, <2>4, LedgerFacts, SettleMovesBooks
  <2> QED
    BY <1>7, <1>8, <2>4, <2>5, <2>6
<1> QED
  BY <1>6, <1>8

LEMMA ReconcileLedger ==
  ASSUME LedgerParts, StartupReconcile
  PROVE  LedgerInv'
<1>1. /\ phase = "down" /\ phase' = "recovering"
      /\ reports' = {RowReport(b) : b \in {r \in Rows : Delta(r) > 0}}
      /\ UNCHANGED <<states, broker_to_client, seen, orders, executed, notices, log, sent>>
  BY DEF StartupReconcile, oms, broker
<1>2. \A d : Settled(d)' = Settled(d)
  BY <1>1 DEF Settled
<1>3. ChannelsFit' /\ ExchangeFits' /\ CorrelationFits'
  <2>1. CorrelationFits'
    BY <1>1, <1>2, CorrelationKept
  <2> QED
    BY <1>1, <2>1, LedgerFacts DEF ChannelsFit, ExchangeFits
<1>4. ASSUME NEW b \in BrokerOrderIds PROVE BookedFits(b)'
  <2>1. UnbookedOf(b)' = UnbookedOf(b)
    BY <1>1 DEF UnbookedOf
  <2> QED
    BY <1>1, <1>2, <2>1, BookedKept
<1>5. ASSUME NEW report \in reports'
      PROVE  ReportFits(report)' /\ \E b \in Rows : report = RowReport(b)
                                                    /\ report.broker_order_id = b
  <2>1. PICK b \in Rows : report = RowReport(b)
    BY <1>1, <1>5
  <2>2. b \in BrokerOrderIds /\ OMS!Resolvable(b) /\ orders[b] # None
    BY <2>1 DEF Rows, StartupReconcile, RowNormalizes
  <2>3. PICK c : c = broker_to_client[b]
    OBVIOUS
  <2>4. c \in ClientOrderIds /\ states[c] # None
    BY <2>2, <2>3, LedgerFacts DEF OMS!Resolvable, OMS!Registered
  <2>5. /\ report.broker_order_id = b /\ report.client_order_id = c
        /\ report.filled_quantity = orders[b].filled - Settled(c)
    BY <2>1, <2>3, <2>4 DEF RowReport, Report, Delta, Settled
  <2>6. orders[b].filled \in Int /\ Settled(c) \in Int
    BY <2>2, <2>4, LedgerFacts, SettledInteger, FilledInteger
  <2>7. Settled(c) + report.filled_quantity <= orders[b].filled
    BY <2>5, <2>6
  <2>8. Settled(c)' + report.filled_quantity <= orders'[b].filled
    BY <1>1, <1>2, <2>7
  <2>9. ReportFits(report)'
    BY <2>5, <2>8 DEF ReportFits
  <2> QED
    BY <2>1, <2>5, <2>9
<1> QED
  BY <1>3, <1>4, <1>5 DEF LedgerInv

LEMMA RecoverLedger ==
  ASSUME LedgerParts, NEW report \in reports, RecoverReport(report)
  PROVE  LedgerInv'
<1>1. /\ phase = "recovering" /\ Settle(report)
      /\ \/ phase' = "down" /\ reports' = {}
         \/ phase' = phase /\ reports' = reports \ {report}
      /\ UNCHANGED <<broker_to_client, orders, executed, notices, log, sent>>
  BY DEF RecoverReport, broker
<1>2. ReportOK(report) /\ ReportFits(report)
  BY LedgerFacts
<1>3. SettleMoves(report)
  BY <1>1, <1>2, LedgerFacts, SettleMovesBooks
<1>4. PICK c : c = report.client_order_id
  OBVIOUS
<1>5. PICK b : b = report.broker_order_id
  OBVIOUS
<1>6. /\ b \in BrokerOrderIds /\ c \in ClientOrderIds /\ broker_to_client[b] = c /\ c # None
      /\ orders[b] # None
  BY <1>2, <1>4, <1>5, LedgerFacts DEF ReportOK, CorrelationFits
<1>7. sent = {} /\ sent' = {} /\ notices' = <<>>
  BY <1>1, LedgerFacts DEF ChannelsFit
<1>8. /\ Settled(c)' <= orders[b].filled
      /\ Settled(c)' \in Int
  <2>1. Settled(c) \in Int /\ orders[b].filled \in Int /\ report.filled_quantity \in Int
    BY <1>2, <1>6, LedgerFacts, SettledInteger, FilledInteger DEF ReportOK
  <2>2. Settled(c) + report.filled_quantity <= orders[b].filled
    BY <1>2, <1>4, <1>5 DEF ReportFits
  <2>3. \/ Settled(c)' = Settled(c) + report.filled_quantity
        \/ Settled(c)' = Settled(c)
    BY <1>3, <1>4 DEF SettleMoves, Settled
  <2>4. Settled(c) <= orders[b].filled
    <3>1. BookedFits(b)
      BY <1>6, LedgerFacts
    <3>2. UnbookedOf(b) = {}
      BY <1>7 DEF UnbookedOf
    <3>3. Unbooked(b) = 0
      BY <3>2, NothingUnbooked
    <3> QED
      BY <1>6, <2>1, <3>1, <3>3 DEF BookedFits
  <2> QED
    BY <2>1, <2>2, <2>3, <2>4
<1>9. ChannelsFit' /\ ExchangeFits'
  <2>1. ExchangeFits'
    BY <1>1, LedgerFacts DEF ExchangeFits
  <2> QED
    BY <1>1, <1>7, <2>1, LedgerFacts DEF ChannelsFit
<1>10. CorrelationFits'
  BY <1>1, <1>2, <1>3, SettledOfNobody, CorrelationKept
<1>11. ASSUME NEW a \in BrokerOrderIds PROVE BookedFits(a)'
  <2>1. UnbookedOf(a)' = {} /\ UnbookedOf(a) = {}
    BY <1>7 DEF UnbookedOf
  <2>2. CASE a = b
    <3>1. (IsFiniteSet(UnitsOf(UnbookedOf(b))) /\ Unbooked(b) = 0)'
      BY <2>1, <2>2, NothingUnbookedNext
    <3>2. broker_to_client'[b] = c /\ orders'[b] = orders[b]
      BY <1>1, <1>6
    <3>3. Settled(c)' + Unbooked(b)' <= orders'[b].filled
      BY <1>8, <3>1, <3>2
    <3> QED
      BY <2>2, <3>1, <3>2, <3>3 DEF BookedFits
  <2>3. CASE a # b
    <3>1. \A d \in ClientOrderIds : broker_to_client[a] = d => Settled(d)' = Settled(d)
      BY <1>2, <1>3, <1>5, <2>3, SettledElsewhere
    <3> QED
      BY <1>1, <2>1, <3>1, BookedKept
  <2> QED
    BY <2>2, <2>3
<1>12. ASSUME NEW other \in reports, other # report
       PROVE  ReportFits(other)'
  <2>1. ReportOK(other) /\ ReportFits(other) /\ other.broker_order_id # b
    BY <1>5, <1>12, LedgerFacts
  <2>2. PICK d \in ClientOrderIds : d = other.client_order_id
    BY <2>1 DEF ReportOK
  <2>3. Settled(d)' = Settled(d)
    BY <1>2, <1>3, <1>5, <2>1, <2>2, SettledElsewhere DEF ReportOK
  <2> QED
    BY <1>1, <2>1, <2>2, <2>3 DEF ReportFits
<1> QED
  BY <1>1, <1>9, <1>10, <1>11, <1>12, LedgerFacts DEF LedgerInv

LEMMA ExecuteLedger ==
  ASSUME LedgerParts, NEW b \in BrokerOrderIds, NEW notice \in Notices, BrokerExecute(b, notice)
  PROVE  LedgerInv'
<1> DEFINE q == notice.cntg_qty
           c == orders[b].client_order_id
<1>1. /\ UNCHANGED <<states, broker_to_client, phase, reports, seen>>
      /\ orders' = [orders EXCEPT ![b].filled = orders[b].filled + q]
      /\ executed' = [executed EXCEPT ![c] = executed[c] + q]
      /\ log' = log \cup {notice}
      /\ \/ phase = "up" /\ notices' = Append(notices, notice) /\ sent' = sent \cup {notice}
         \/ phase # "up" /\ UNCHANGED <<notices, sent>>
      /\ orders[b] # None /\ notice.odno = b
  BY DEF BrokerExecute, oms
<1>2. /\ orders[b] \in BrokerOrder /\ c \in ClientOrderIds
      /\ orders[b].filled \in Int
      /\ orders \in [BrokerOrderIds -> BrokerOrder \cup {None}]
      /\ executed \in [ClientOrderIds -> Nat]
  <2>1. orders[b] \in BrokerOrder
    BY <1>1, LedgerFacts DEF OrdersTyped
  <2> QED
    BY <2>1, LedgerFacts DEF BrokerOrder, OrdersTyped, LedgerParts, TypedInv, TypeOK
<1>3. q \in Nat /\ q > 0
  <2> DEFINE k == orders[b].quantity - orders[b].filled
  <2>1. q \in 1 .. k
    BY DEF BrokerExecute
  <2>2. k \in Int
    BY <1>2 DEF BrokerOrder
  <2> HIDE DEF k
  <2> QED
    BY <2>1, <2>2
<1>4. /\ orders'[b] = [orders[b] EXCEPT !.filled = orders[b].filled + q]
      /\ \A a \in BrokerOrderIds \ {b} : orders'[a] = orders[a]
      /\ executed'[c] = executed[c] + q
      /\ \A d \in ClientOrderIds \ {c} : executed'[d] = executed[d]
  BY <1>1, <1>2
<1> HIDE DEF q
<1>5. /\ orders'[b] # None /\ orders'[b].client_order_id = c
      /\ orders'[b].filled = orders[b].filled + q
  <2>1. orders'[b] \in BrokerOrder
    BY <1>2, <1>3, <1>4 DEF BrokerOrder
  <2> QED
    BY <1>2, <1>4, <2>1, SettlementAssumption DEF BrokerOrder
<1>6. \A d : Settled(d)' = Settled(d)
  BY <1>1 DEF Settled
<1>7. c # None /\ \A a \in BrokerOrderIds : orders[a] # None /\ orders[a].client_order_id = c => a = b
  BY <1>1, <1>2, LedgerFacts DEF BooksInv, SubmissionInv, AtMostOnePhysicalOrder
<1> HIDE DEF c
<1>8. ChannelsFit'
  <2>1. notices \in Seq(Notices)
    BY LedgerFacts DEF BooksInv
  <2>2. \A i \in DOMAIN Append(notices, notice) :
          \/ i \in DOMAIN notices /\ Append(notices, notice)[i] = notices[i]
          \/ Append(notices, notice)[i] = notice
    BY <2>1, AppendElements
  <2>3. \A i \in DOMAIN notices' : notices'[i] \in sent'
    BY <1>1, <2>2, LedgerFacts DEF ChannelsFit
  <2>4. \A n \in log' : orders'[n.odno] # None /\ n.cntg_qty > 0
    <3>1. ASSUME NEW n \in log PROVE orders'[n.odno] # None /\ n.cntg_qty > 0
      <4>1. n.odno \in BrokerOrderIds
        BY LedgerFacts DEF Notices
      <4> QED
        BY <1>4, <1>5, <4>1, LedgerFacts DEF ChannelsFit
    <3> QED
      BY <1>1, <1>3, <1>5, <3>1 DEF q
  <2> QED
    BY <1>1, <2>3, <2>4, LedgerFacts DEF ChannelsFit
<1>9. ExchangeFits'
  <2>1. ASSUME NEW a \in BrokerOrderIds, orders'[a] # None
        PROVE  executed'[orders'[a].client_order_id] = orders'[a].filled
    <3>1. CASE a = b
      <4>1. executed[c] = orders[b].filled
        BY <1>1, LedgerFacts DEF ExchangeFits, c
      <4> QED
        BY <1>4, <1>5, <3>1, <4>1
    <3>2. CASE a # b
      <4>1. orders'[a] = orders[a] /\ orders[a] # None
        BY <1>4, <2>1, <3>2
      <4>2. orders[a].client_order_id \in ClientOrderIds \ {c}
        BY <1>7, <3>2, <4>1, LedgerFacts, FilledInteger
      <4> QED
        BY <1>4, <4>1, <4>2, LedgerFacts DEF ExchangeFits
    <3> QED
      BY <3>1, <3>2
  <2>2. ASSUME NEW d \in ClientOrderIds,
               \A a \in BrokerOrderIds : orders'[a] # None => orders'[a].client_order_id # d
        PROVE  executed'[d] = 0
    <3>1. d # c
      BY <1>5, <2>2
    <3>2. \A a \in BrokerOrderIds : orders[a] # None => orders[a].client_order_id # d
      BY <1>4, <2>2, <3>1 DEF c
    <3> QED
      BY <1>4, <3>1, <3>2, LedgerFacts DEF ExchangeFits
  <2> QED
    BY <2>1, <2>2 DEF ExchangeFits
<1>10. CorrelationFits'
  <2>1. ASSUME NEW a \in BrokerOrderIds, broker_to_client'[a] # None
        PROVE  orders'[a] # None /\ orders'[a].client_order_id = broker_to_client'[a]
    <3>1. orders[a] # None /\ orders[a].client_order_id = broker_to_client[a]
      BY <1>1, <2>1, LedgerFacts DEF CorrelationFits
    <3> QED
      BY <1>1, <1>4, <1>5, <3>1 DEF c
  <2>2. \A d \in ClientOrderIds :
          (\A a \in BrokerOrderIds : broker_to_client'[a] # d) => Settled(d)' = 0
    BY <1>1, <1>6, LedgerFacts DEF CorrelationFits
  <2> QED
    BY <2>1, <2>2 DEF CorrelationFits
<1>11. ASSUME NEW a \in BrokerOrderIds PROVE BookedFits(a)'
  <2>1. CASE a # b
    <3>1. UnbookedOf(a)' = UnbookedOf(a)
      BY <1>1, <2>1 DEF UnbookedOf
    <3>2. broker_to_client'[a] = broker_to_client[a] /\ orders'[a] = orders[a]
      BY <1>1, <1>4, <2>1
    <3> QED
      BY <1>6, <3>1, <3>2, BookedKept
  <2>2. CASE a = b
    <3> SUFFICES ASSUME broker_to_client'[b] # None
                 PROVE  (/\ IsFiniteSet(UnitsOf(UnbookedOf(b)))
                         /\ Settled(broker_to_client[b]) + Unbooked(b) <= orders[b].filled)'
      BY <2>2 DEF BookedFits
    <3>1. PICK d \in ClientOrderIds : broker_to_client[b] = d
      BY <1>1, LedgerFacts
    <3>2. /\ IsFiniteSet(UnitsOf(UnbookedOf(b)))
          /\ Settled(d) + Unbooked(b) <= orders[b].filled
      BY <1>1, <3>1, LedgerFacts DEF BookedFits
    <3>3. PICK S : S = UnbookedOf(b)
      OBVIOUS
    <3>4. UnbookedOf(b)' = S \/ (UnbookedOf(b)' = S \cup {notice} /\ notice \notin S)
      BY <1>1, <3>3 DEF UnbookedOf
    <3>5. /\ IsFiniteSet(UnitsOf(UnbookedOf(b)))'
          /\ Unbooked(b)' = Unbooked(b) \/ Unbooked(b)' = Unbooked(b) + q
      <4>1. CASE UnbookedOf(b)' = S
        BY <3>2, <3>3, <4>1 DEF Unbooked
      <4>2. CASE UnbookedOf(b)' = S \cup {notice} /\ notice \notin S
        <5>1. /\ IsFiniteSet(UnitsOf(S \cup {notice}))
              /\ Cardinality(UnitsOf(S \cup {notice})) = Cardinality(UnitsOf(S)) + q
          BY <1>3, <3>2, <3>3, <4>2, UnitsOfMore DEF q
        <5> QED
          BY <3>3, <4>2, <5>1 DEF Unbooked
      <4> QED
        BY <3>4, <4>1, <4>2
    <3>6. Unbooked(b) \in Nat /\ Settled(d) \in Int /\ orders[b].filled \in Int
      BY <1>2, <3>2, UnbookedCount, SettledInteger, LedgerFacts
    <3>7. Settled(d)' + Unbooked(b)' <= orders'[b].filled
      <4> DEFINE s == Settled(d)  u == Unbooked(b)  f == orders[b].filled
      <4>1. s \in Int /\ u \in Nat /\ f \in Int /\ s + u <= f
        BY <3>2, <3>6
      <4>2. orders'[b].filled = f + q /\ Settled(d)' = s
        BY <1>5, <1>6
      <4>3. Unbooked(b)' = u \/ Unbooked(b)' = u + q
        BY <3>5
      <4> HIDE DEF s, u, f
      <4> QED
        BY <1>3, <4>1, <4>2, <4>3
    <3> QED
      BY <1>1, <3>1, <3>5, <3>7
  <2> QED
    BY <2>1, <2>2
<1>12. ASSUME NEW report \in reports PROVE ReportFits(report)'
  <2>1. ReportOK(report) /\ ReportFits(report)
    BY LedgerFacts
  <2>2. PICK a \in BrokerOrderIds : a = report.broker_order_id
    BY <2>1 DEF ReportOK
  <2>3. PICK d \in ClientOrderIds : d = report.client_order_id
    BY <2>1 DEF ReportOK
  <2>4. /\ Settled(d) + report.filled_quantity <= orders[a].filled
        /\ Settled(d) \in Int /\ report.filled_quantity \in Int
    BY <2>1, <2>2, <2>3, LedgerFacts, SettledInteger DEF ReportFits, ReportOK
  <2>5. Settled(d)' + report.filled_quantity <= orders'[a].filled
    <3>1. CASE a = b
      <4> DEFINE s == Settled(d)  r == report.filled_quantity  f == orders[b].filled
      <4>1. s \in Int /\ r \in Int /\ f \in Int /\ s + r <= f
        BY <1>2, <2>4, <3>1
      <4>2. orders'[a].filled = f + q /\ Settled(d)' = s
        BY <1>5, <1>6, <3>1
      <4> HIDE DEF s, r, f
      <4>3. s + r <= f + q
        BY <1>3, <4>1
      <4> QED
        BY <4>2, <4>3 DEF r
    <3>2. CASE a # b
      BY <1>4, <1>6, <2>4, <3>2
    <3> QED
      BY <3>1, <3>2
  <2> QED
    BY <2>2, <2>3, <2>5 DEF ReportFits
<1> QED
  BY <1>1, <1>8, <1>9, <1>10, <1>11, <1>12, LedgerFacts DEF LedgerInv

\* The hypothesis: a subscription carries only executions made on it.
NoLateNotices == \A kinds \in FaultSets : "late notice" \notin kinds

\* A step that books nothing and leaves the broker's books alone.
LEMMA QuietLedger ==
  ASSUME LedgerParts, UNCHANGED <<states, broker_to_client, seen, orders, executed, log>>,
         \/ sent' = sent
         \/ sent' = {},
         reports' \subseteq reports, ChannelsFit'
  PROVE  LedgerInv'
<1>1. \A d : Settled(d)' = Settled(d)
  BY DEF Settled
<1>2. ExchangeFits'
  BY LedgerFacts DEF ExchangeFits
<1>3. CorrelationFits'
  BY <1>1, CorrelationKept
<1>4. ASSUME NEW b \in BrokerOrderIds PROVE BookedFits(b)'
  <2>1. CASE sent' = sent
    <3>1. UnbookedOf(b)' = UnbookedOf(b)
      BY <2>1 DEF UnbookedOf
    <3> QED
      BY <1>1, <3>1, BookedKept
  <2>2. CASE sent' = {}
    <3> SUFFICES ASSUME broker_to_client'[b] # None
                 PROVE  (/\ IsFiniteSet(UnitsOf(UnbookedOf(b)))
                         /\ Settled(broker_to_client[b]) + Unbooked(b) <= orders[b].filled)'
      BY DEF BookedFits
    <3>1. UnbookedOf(b)' = {}
      BY <2>2 DEF UnbookedOf
    <3>2. (IsFiniteSet(UnitsOf(UnbookedOf(b))) /\ Unbooked(b) = 0)'
      BY <3>1, NothingUnbookedNext
    <3>3. PICK d \in ClientOrderIds : broker_to_client[b] = d
      BY LedgerFacts
    <3>4. /\ orders[b] # None /\ IsFiniteSet(UnitsOf(UnbookedOf(b)))
          /\ Settled(d) + Unbooked(b) <= orders[b].filled
      BY <3>3, LedgerFacts DEF BookedFits, CorrelationFits
    <3>5. Settled(d) \in Int /\ Unbooked(b) \in Nat /\ orders[b].filled \in Int
      BY <3>4, SettledInteger, UnbookedCount, FilledInteger, LedgerFacts
    <3>6. Settled(d)' + Unbooked(b)' <= orders'[b].filled
      BY <1>1, <3>2, <3>4, <3>5
    <3> QED
      BY <3>2, <3>3, <3>6
  <2> QED
    BY <2>1, <2>2
<1>5. ASSUME NEW report \in reports' PROVE ReportFits(report)'
  BY <1>1, LedgerFacts DEF ReportFits
<1> QED
  BY <1>2, <1>3, <1>4, <1>5, LedgerFacts DEF LedgerInv

LEMMA SendLedger ==
  ASSUME LedgerParts, "late notice" \notin faults, NEW notice \in log, SendAgain(notice)
  PROVE  LedgerInv'
<1>2. notice \in sent
  BY DEF SendAgain
<1>3. /\ UNCHANGED <<states, broker_to_client, seen, orders, executed, log, phase, reports>>
      /\ sent' = sent /\ notices' = Append(notices, notice) /\ phase = "up"
  BY <1>2 DEF SendAgain, oms
<1>4. ChannelsFit'
  <2>1. notices \in Seq(Notices)
    BY LedgerFacts DEF BooksInv
  <2>2. \A i \in DOMAIN Append(notices, notice) :
          \/ i \in DOMAIN notices /\ Append(notices, notice)[i] = notices[i]
          \/ Append(notices, notice)[i] = notice
    BY <2>1, AppendElements
  <2> QED
    BY <1>2, <1>3, <2>2, LedgerFacts DEF ChannelsFit
<1> QED
  BY <1>3, <1>4, QuietLedger

LEMMA NextLedger ==
  ASSUME "late notice" \notin faults, LedgerParts, [Next]_vars
  PROVE  LedgerParts'
<1> SUFFICES LedgerInv'
  BY NextTyped DEF LedgerParts
<1>1. CASE \E command \in Commands : Route(command)
  BY <1>1, RouteLedger
<1>2. CASE ReceiveExecutionOnce
  BY <1>2, ReceiveLedger
<1>3. CASE StartupReconcile
  BY <1>3, ReconcileLedger
<1>4. CASE \E report \in reports : RecoverReport(report)
  BY <1>4, RecoverLedger
<1>5. CASE RecoverDone \/ StartExecution
  <2>1. UNCHANGED <<states, broker_to_client, seen, orders, executed, log, sent, notices, reports>>
    BY <1>5 DEF RecoverDone, StartExecution, oms, broker
  <2>2. ChannelsFit'
    BY <1>5, <2>1, LedgerFacts DEF ChannelsFit, RecoverDone, StartExecution
  <2> QED
    BY <2>1, <2>2, QuietLedger
<1>6. CASE Stop
  <2>1. /\ UNCHANGED <<states, broker_to_client, seen, orders, executed, log, reports>>
        /\ phase = "up" /\ phase' = "down" /\ sent' = {} /\ notices' = <<>>
    BY <1>6 DEF Stop, oms
  <2>2. ChannelsFit'
    <3>1. DOMAIN notices' = {}
      BY <2>1, NoElements
    <3> QED
      BY <2>1, <3>1, LedgerFacts DEF ChannelsFit
  <2> QED
    BY <2>1, <2>2, QuietLedger
<1>7. CASE Lose
  <2>1. /\ UNCHANGED <<states, broker_to_client, seen, orders, executed, log, reports, sent, phase>>
        /\ notices # <<>> /\ notices' = Tail(notices)
    BY <1>7 DEF Lose, oms
  <2>2. ChannelsFit'
    <3>1. notices \in Seq(Notices)
      BY LedgerFacts DEF BooksInv
    <3>2. \A i \in DOMAIN Tail(notices) :
            i + 1 \in DOMAIN notices /\ Tail(notices)[i] = notices[i + 1]
      BY <2>1, <3>1, TailElements
    <3>3. \A i \in DOMAIN notices' : notices'[i] \in sent'
      BY <2>1, <3>2, LedgerFacts DEF ChannelsFit
    <3>4. phase = "up"
      BY <2>1, LedgerFacts DEF ChannelsFit
    <3> QED
      BY <2>1, <3>3, <3>4, LedgerFacts DEF ChannelsFit
  <2> QED
    BY <2>1, <2>2, QuietLedger
<1>8. CASE \E notice \in log : SendAgain(notice)
  BY <1>8, SendLedger
<1>9. CASE \E b \in BrokerOrderIds, notice \in Notices : BrokerExecute(b, notice)
  BY <1>9, ExecuteLedger
<1>10. CASE UNCHANGED vars
  <2>1. UNCHANGED <<states, broker_to_client, seen, orders, executed, log, sent, notices, reports, phase>>
    BY <1>10 DEF vars, oms, broker
  <2>2. ChannelsFit'
    BY <2>1, LedgerFacts DEF ChannelsFit
  <2> QED
    BY <2>1, <2>2, QuietLedger
<1> QED
  BY <1>1, <1>2, <1>3, <1>4, <1>5, <1>6, <1>7, <1>8, <1>9, <1>10 DEF Next, Step

-----------------------------------------------------------------------------
\* Only the exchange executes, one order at a time, and it books nothing.
LEMMA StepExecutes ==
  ASSUME LedgerParts, [Next]_vars
  PROVE  \/ UNCHANGED executed
         \/ /\ UNCHANGED <<states, position>>
            /\ \E c \in ClientOrderIds :
                 /\ executed'[c] > executed[c]
                 /\ executed' = [executed EXCEPT ![c] = executed'[c]]
<1>1. CASE \E b \in BrokerOrderIds, notice \in Notices : BrokerExecute(b, notice)
  <2>1. PICK b \in BrokerOrderIds, notice \in Notices : BrokerExecute(b, notice)
    BY <1>1
  <2>2. PICK c : c = orders[b].client_order_id
    OBVIOUS
  <2>3. orders[b] \in BrokerOrder /\ executed \in [ClientOrderIds -> Nat]
    BY <2>1, LedgerFacts DEF BrokerExecute, OrdersTyped, LedgerParts, TypedInv, TypeOK
  <2>4. c \in ClientOrderIds /\ executed[c] \in Nat
    BY <2>2, <2>3 DEF BrokerOrder
  <2>5. notice.cntg_qty \in Nat /\ notice.cntg_qty > 0
    <3> DEFINE k == orders[b].quantity - orders[b].filled
    <3>1. notice.cntg_qty \in 1 .. k
      BY <2>1 DEF BrokerExecute
    <3>2. k \in Int
      BY <2>3 DEF BrokerOrder
    <3> HIDE DEF k
    <3> QED
      BY <3>1, <3>2
  <2>6. /\ executed' = [executed EXCEPT ![c] = executed[c] + notice.cntg_qty]
        /\ UNCHANGED <<states, position>>
    BY <2>1, <2>2 DEF BrokerExecute, oms
  <2>7. executed'[c] = executed[c] + notice.cntg_qty
    BY <2>3, <2>4, <2>6
  <2>8. executed'[c] > executed[c]
    BY <2>4, <2>5, <2>7
  <2> QED
    BY <2>4, <2>6, <2>7, <2>8
<1>2. CASE \E command \in Commands : Route(command)
  BY <1>2, RouteKinds
<1>3. CASE UNCHANGED vars \/ ReceiveExecutionOnce \/ StartupReconcile \/ RecoverDone
           \/ StartExecution \/ Stop \/ Lose
  BY <1>3 DEF vars, broker, ReceiveExecutionOnce, StartupReconcile, RecoverDone,
              StartExecution, Stop, Lose
<1>4. CASE \/ \E report \in reports : RecoverReport(report)
           \/ \E notice \in log : SendAgain(notice)
  BY <1>4 DEF RecoverReport, SendAgain, broker
<1> QED
  BY <1>1, <1>2, <1>3, <1>4 DEF Next, Step

\* The books of the ledger.
Booked == [c \in ClientOrderIds |-> Settled(c)]

LEMMA SettledIntegers == StatesOK => \A d \in ClientOrderIds : Settled(d) \in Int
  BY SettledInteger

LEMMA LedgerStep ==
  ASSUME NoLateNotices, LedgerParts, [Next]_vars
  PROVE  [Ledger!Next]_Ledger!vars
<1> DEFINE held == Aggregate!Signed(position)
<1>1. LedgerParts' /\ NeverOverSettled'
  <2>1. LedgerParts'
    <3>1. faults \in FaultSets
      BY DEF LedgerParts, TypedInv, TypeOK
    <3> QED
      BY <3>1, NextLedger DEF NoLateNotices
  <2>2. (LedgerParts => NeverOverSettled)'
    BY LedgerBounds, PTL
  <2> QED
    BY <2>1, <2>2
<1>2. Booking
  BY StepBooks DEF LedgerParts, TypedInv
<1>3. CASE BooksStand
  <2>1. Booked' = Booked /\ held' = held
    BY <1>3 DEF BooksStand, Booked
  <2>2. CASE UNCHANGED executed
    BY <2>1, <2>2 DEF Ledger!vars, Booked
  <2>3. CASE \E c \in ClientOrderIds :
               /\ executed'[c] > executed[c]
               /\ executed' = [executed EXCEPT ![c] = executed'[c]]
    BY <2>1, <2>3 DEF Ledger!Next, Ledger!Execute, Booked
  <2> QED
    BY <2>2, <2>3, StepExecutes
<1>4. ASSUME NEW c \in ClientOrderIds, BooksMove(c)
      PROVE  Ledger!Next
  <2>1. /\ Settled(c)' > Settled(c)
        /\ \A d \in ClientOrderIds \ {c} : Settled(d)' = Settled(d)
        /\ held' = held + DirectionOf(c) * (Settled(c)' - Settled(c))
    BY <1>4 DEF BooksMove
  <2>2. UNCHANGED executed
    <3>1. Settled(c) \in Int
      BY SettledInteger, LedgerFacts
    <3>2. ~UNCHANGED states
      BY <2>1, <3>1 DEF Settled
    <3> QED
      BY <3>2, StepExecutes
  <2>3. Booked[c] = Settled(c) /\ Booked'[c] = Settled(c)'
    BY DEF Booked
  <2>4. Booked' = [Booked EXCEPT ![c] = Booked'[c]]
    BY <2>1 DEF Booked
  <2>5. Settled(c)' \in Settled(c) + 1 .. executed[c]
    <3>1. Settled(c) \in Int /\ executed[c] \in Nat
      BY SettledInteger, LedgerFacts DEF LedgerParts, TypedInv, TypeOK
    <3>2. (StatesOK => \A d \in ClientOrderIds : Settled(d) \in Int)'
      BY SettledIntegers, PTL
    <3>3. Settled(c)' \in Int
      BY <1>1, <3>2 DEF LedgerParts, TypedInv, BooksInv
    <3>4. Settled(c)' <= executed[c]
      BY <1>1, <2>2 DEF NeverOverSettled
    <3> QED
      BY <2>1, <3>1, <3>3, <3>4
  <2>6. Ledger!Book(c)
    BY <2>1, <2>2, <2>3, <2>4, <2>5 DEF Ledger!Book, Booked
  <2> QED
    BY <2>6 DEF Ledger!Next
<1> QED
  BY <1>2, <1>3, <1>4 DEF Booking

LEMMA LedgerStart == Init => Ledger!Init
  BY DEF Init, Ledger!Init, Settled, Aggregate!Flat, Aggregate!Signed

\* Settlement implements the ledger: each execution is booked at most once, in
\* order and position together, and never before it happened, through lost
\* answers, false rejections, losses, redeliveries, gaps, equal frames, aborted
\* recoveries and restarts in any number, when a subscription brings no notice
\* of an execution made before it.
THEOREM SettlementIsLedger ==
  ASSUME NoLateNotices
  PROVE  Spec => SettlesExactlyOnce
<1>1. LedgerParts /\ [Next]_vars => LedgerParts' /\ [Ledger!Next]_Ledger!vars
  <2>1. LedgerParts => "late notice" \notin faults
    BY DEF LedgerParts, TypedInv, TypeOK, NoLateNotices
  <2> QED
    BY <2>1, NextLedger, LedgerStep
<1>2. QED
  BY <1>1, InitLedger, LedgerStart, PTL DEF Spec, SettlesExactlyOnce, Ledger!Spec

-----------------------------------------------------------------------------
(* Nothing is forgotten: what was executed is booked or under way.         *)

\* Nothing goes wrong but that notices are sent again.
Calm == faults \subseteq {"redelivery"}

CumulativeId(b, k) == [odno |-> b, cumulative |-> k]

\* The order of the OMS behind an order at the broker can be executed as far as
\* the broker executes it.
OrderFits(b, c) ==
  /\ broker_to_client[b] = c
  /\ states[c] # None
  /\ states[c].broker_order_id = b
  /\ states[c].broker_order_command # None
  /\ states[c].order_quantity = orders[b].quantity
  /\ orders[b].filled > 0 => orders[b].filled <= orders[b].quantity
  /\ states[c].status \in {"ACKED", "PARTIALLY_FILLED", "FILLED"}
  /\ states[c].status = "FILLED" => states[c].filled_quantity = states[c].order_quantity

\* What is still to be booked of it, phase by phase.
Owed(b, c) ==
  /\ phase = "up" => Settled(c) + Unbooked(b) = orders[b].filled
  /\ phase = "recovered" => Settled(c) = orders[b].filled
  /\ phase = "recovering" =>
       \/ Settled(c) = orders[b].filled
       \/ \E report \in reports :
            /\ report.broker_order_id = b
            /\ Settled(c) + report.filled_quantity = orders[b].filled
  /\ \A k \in Int : CumulativeId(b, k) \in seen => Settled(c) >= k

OrderCalm(b) ==
  orders[b] # None =>
    \A c \in ClientOrderIds : orders[b].client_order_id = c => OrderFits(b, c) /\ Owed(b, c)

\* A report of this start, by an identity no notice has.
ReportCurrent(report) ==
  /\ report.execution_id =
       CumulativeId(report.broker_order_id, orders[report.broker_order_id].filled)
  /\ report.filled_quantity > 0
  /\ report.status = "FILLED" => report.remaining_quantity = 0

\* What is seen was executed, and what was sent is seen or still to be received.
IdentitiesFit ==
  /\ \A n \in Notices : n \in seen => n \in log
  /\ \A b \in BrokerOrderIds, k \in Int : CumulativeId(b, k) \in seen => orders[b] # None
  /\ \A n \in sent : n \notin seen => \E i \in DOMAIN notices : notices[i] = n

CalmInv ==
  /\ \A b \in BrokerOrderIds : OrderCalm(b)
  /\ \A report \in reports : ReportCurrent(report)
  /\ IdentitiesFit

CalmParts == LedgerParts /\ CalmInv

\* In calm, what the inquiry and the notices bring is all there is.
LEMMA CalmSettles == CalmParts /\ Calm => SettledWhenDrained
<1> SUFFICES ASSUME CalmParts, phase \in {"recovered", "up"}, notices = <<>>,
                    NEW c \in ClientOrderIds
             PROVE  Settled(c) = executed[c]
  BY DEF SettledWhenDrained
<1>1. LedgerParts
  BY DEF CalmParts
<1>2. CASE \A b \in BrokerOrderIds : orders[b] # None => orders[b].client_order_id # c
  <2>1. executed[c] = 0
    BY <1>1, <1>2, LedgerFacts DEF ExchangeFits
  <2>2. Settled(c) = 0
    <3>1. \A b \in BrokerOrderIds : broker_to_client[b] # c
      BY <1>1, <1>2, LedgerFacts DEF CorrelationFits
    <3> QED
      BY <1>1, <3>1, LedgerFacts DEF CorrelationFits
  <2> QED
    BY <2>1, <2>2
<1>3. ASSUME NEW b \in BrokerOrderIds, orders[b] # None, orders[b].client_order_id = c
      PROVE  Settled(c) = executed[c]
  <2>1. executed[c] = orders[b].filled
    BY <1>1, <1>3, LedgerFacts DEF ExchangeFits
  <2>2. Owed(b, c)
    BY <1>3 DEF CalmParts, CalmInv, OrderCalm
  <2>3. CASE phase = "recovered"
    BY <2>1, <2>2, <2>3 DEF Owed
  <2>4. CASE phase = "up"
    <3>1. \A n \in sent : n \in seen
      BY NoElements DEF CalmParts, CalmInv, IdentitiesFit
    <3>2. UnbookedOf(b) = {}
      BY <3>1 DEF UnbookedOf
    <3>3. Unbooked(b) = 0
      BY <3>2, NothingUnbooked
    <3>4. Settled(c) + 0 = orders[b].filled
      BY <2>2, <2>4, <3>3 DEF Owed
    <3>5. Settled(c) \in Int
      BY <1>1, SettledInteger, LedgerFacts
    <3> QED
      BY <2>1, <3>4, <3>5
  <2> QED
    BY <2>3, <2>4
<1> QED
  BY <1>2, <1>3

LEMMA InitCalm == Init => CalmParts
<1> SUFFICES ASSUME Init PROVE CalmInv
  BY InitLedger DEF CalmParts
<1> QED
  BY DEF Init, CalmInv, OrderCalm, IdentitiesFit

\* The facts of a calm state.
LEMMA CalmFacts ==
  ASSUME CalmParts
  PROVE  /\ LedgerParts /\ IdentitiesFit
         /\ \A b \in BrokerOrderIds : OrderCalm(b)
         /\ \A report \in reports : ReportCurrent(report)
         /\ \A b \in BrokerOrderIds, c \in ClientOrderIds :
              orders[b] # None /\ orders[b].client_order_id = c =>
                OrderFits(b, c) /\ Owed(b, c)
  BY DEF CalmParts, CalmInv, OrderCalm

\* No notice is a report of the inquiry.
LEMMA IdentitiesDiffer ==
  ASSUME NEW n \in Notices, NEW b, NEW k
  PROVE  n # CumulativeId(b, k)
<1>1. DOMAIN n = {"odno", "cntg_qty", "hour"}
  BY DEF Notices
<1>2. DOMAIN CumulativeId(b, k) = {"odno", "cumulative"}
  BY DEF CumulativeId
<1> QED
  BY <1>1, <1>2

LEMMA CumulativeDiffer ==
  ASSUME NEW a, NEW j, NEW b, NEW k, CumulativeId(a, j) = CumulativeId(b, k)
  PROVE  a = b /\ j = k
<1>1. CumulativeId(a, j).odno = a /\ CumulativeId(a, j).cumulative = j
  BY DEF CumulativeId
<1>2. CumulativeId(b, k).odno = b /\ CumulativeId(b, k).cumulative = k
  BY DEF CumulativeId
<1> QED
  BY <1>1, <1>2

-----------------------------------------------------------------------------
\* An order that stays as it is, at the broker and in the OMS.
LEMMA CalmKept ==
  ASSUME CalmParts, NEW b \in BrokerOrderIds, NEW c \in ClientOrderIds,
         orders[b] # None, orders[b].client_order_id = c, orders'[b] = orders[b],
         broker_to_client'[b] = broker_to_client[b],
         Settled(c)' = Settled(c),
         states'[c] # None,
         states'[c].broker_order_id = states[c].broker_order_id,
         states'[c].broker_order_command # None,
         states'[c].order_quantity = states[c].order_quantity,
         states'[c].filled_quantity = states[c].filled_quantity,
         states'[c].status = states[c].status
  PROVE  OrderFits(b, c)'
  BY CalmFacts DEF OrderFits

\* A command for an order that was sent: its own once more.
LEMMA KeptFits ==
  ASSUME CalmParts, NEW command \in Commands,
         OMS!CommandAdmitted(OrderFor(command), command),
         Keep(command, WithCommand(command)),
         NEW b \in BrokerOrderIds, NEW c \in ClientOrderIds,
         orders[b] # None, orders[b].client_order_id = c, orders'[b] = orders[b],
         broker_to_client'[b] = broker_to_client[b], Settled(c)' = Settled(c)
  PROVE  OrderFits(b, c)'
<1>1. OrderFits(b, c) /\ StatesOK
  BY CalmFacts, LedgerFacts
<1>2. CASE c = command.client_order_id
  <2>1. states[c] # None /\ states[c] \in OMS!OrderState
    BY <1>1 DEF OrderFits, StatesOK, OrderOK
  <2>2. OrderFor(command) = states[c]
    BY <1>2, <2>1 DEF OrderFor
  <2>3. states'[c] = [states[c] EXCEPT !.broker_order_command = command]
    BY <1>1, <1>2, <2>2 DEF Keep, WithCommand, StatesOK
  <2>4. states'[c] \in OMS!OrderState
    BY <2>1, <2>3 DEF OMS!OrderState
  <2>5. states'[c] # None /\ command # None
    BY <2>4, SettlementAssumption
  <2> QED
    BY <2>1, <2>3, <2>5, CalmKept DEF OMS!OrderState
<1>3. CASE c # command.client_order_id
  <2>1. states'[c] = states[c]
    BY <1>1, <1>3 DEF Keep, StatesOK
  <2> QED
    BY <1>1, <2>1, CalmKept DEF OrderFits
<1> QED
  BY <1>2, <1>3

\* What a step leaves owed when nothing of the order and of the channels moves.
LEMMA OwedKept ==
  ASSUME NEW b \in BrokerOrderIds, NEW c \in ClientOrderIds, Owed(b, c),
         Settled(c)' = Settled(c), orders'[b] = orders[b],
         UNCHANGED <<phase, reports, seen>>, UnbookedOf(b)' = UnbookedOf(b)
  PROVE  Owed(b, c)'
<1>1. Unbooked(b)' = Unbooked(b)
  BY DEF Unbooked
<1> QED
  BY <1>1 DEF Owed

\* An order at the broker keeps what settlement needs while any order is sent.
LEMMA RouteFits ==
  ASSUME CalmParts, NEW command \in Commands, Route(command),
         NEW b \in BrokerOrderIds, NEW d \in ClientOrderIds,
         orders[b] # None, orders[b].client_order_id = d
  PROVE  orders'[b] = orders[b] /\ OrderFits(b, d)'
<1> DEFINE c == command.client_order_id
<1>1. OrderFits(b, d) /\ StatesOK /\ BooksInv /\ LedgerParts
  BY CalmFacts, LedgerFacts
<1>2. /\ Settled(d)' = Settled(d)
      /\ broker_to_client'[b] = broker_to_client[b]
  <2>1. broker_to_client[b] # None
    BY <1>1, SettlementAssumption DEF OrderFits
  <2> QED
    BY <1>1, <2>1, RouteBooks DEF BooksStand
<1>3. orders'[b] = orders[b]
  BY <1>1, RouteKinds, LedgerFacts DEF Accept, OrdersTyped
<1>4. ASSUME states'[d] = states[d] PROVE OrderFits(b, d)'
  BY <1>1, <1>2, <1>3, <1>4, CalmKept DEF OrderFits
<1>5. CASE RouteUnregistered(command)
  <2>1. states' = [states EXCEPT ![c] = OrderFor(command)]
    BY <1>5 DEF RouteUnregistered, Keep
  <2>2. c = d => OrderFor(command) = states[d]
    BY <1>1 DEF OrderFor, OrderFits
  <2>3. states'[d] = states[d]
    BY <1>1, <2>1, <2>2 DEF StatesOK
  <2> QED
    BY <1>3, <1>4, <2>3
<1>6. CASE RouteBlocked(command)
  <2>1. OMS!CommandAdmitted(OrderFor(command), command) /\ Keep(command, WithCommand(command))
    BY <1>6 DEF RouteBlocked
  <2> QED
    BY <1>2, <1>3, <2>1, KeptFits
<1>7. ASSUME Reservable(command), NEW order, Keep(command, order)
      PROVE  OrderFits(b, d)'
  <2>1. d # c
    BY <1>1, <1>7 DEF Reservable, BooksInv, SubmissionInv, PhysicalReserved
  <2>2. states'[d] = states[d]
    BY <1>1, <1>7, <2>1 DEF Keep, StatesOK
  <2> QED
    BY <1>4, <2>2
<1>8. CASE \E a \in BrokerOrderIds : RouteAccepted(command, a)
  BY <1>3, <1>7, <1>8 DEF RouteAccepted, Sending
<1>9. CASE RouteRejected(command) \/ RouteLost(command)
  BY <1>3, <1>7, <1>9 DEF RouteRejected, RouteLost, Sending
<1> QED
  BY <1>5, <1>6, <1>8, <1>9 DEF Route

\* In calm the broker has a new order only with its acknowledgement.
LEMMA CalmAccept ==
  ASSUME CalmParts, Calm, NEW command \in Commands, Route(command),
         NEW b \in BrokerOrderIds, orders[b] = None, orders'[b] # None
  PROVE  RouteAccepted(command, b)
<1>1. CASE RouteUnregistered(command) \/ RouteBlocked(command)
  BY <1>1 DEF RouteUnregistered, RouteBlocked, broker
<1>2. CASE RouteRejected(command) \/ RouteLost(command)
  BY <1>2 DEF RouteRejected, RouteLost, Calm
<1>3. ASSUME NEW a \in BrokerOrderIds, RouteAccepted(command, a)
      PROVE  RouteAccepted(command, b)
  <2>1. OrdersTyped
    BY CalmFacts, LedgerFacts
  <2>2. a = b
    BY <1>3, <2>1 DEF RouteAccepted, Accept, OrdersTyped
  <2> QED
    BY <1>3, <2>2
<1> QED
  BY <1>1, <1>2, <1>3 DEF Route

\* The order a calm broker has just acknowledged.
LEMMA AcceptedFits ==
  ASSUME CalmParts, NEW command \in Commands, NEW b \in BrokerOrderIds,
         RouteAccepted(command, b)
  PROVE  OrderFits(b, command.client_order_id)' /\ orders'[b].filled = 0
<1> DEFINE c == command.client_order_id
           event == Ack(command, TRUE, b)
           order == OMS!Acknowledge(WithCommand(command), event)
<1>1. /\ StatesOK /\ OrdersTyped /\ LedgerParts
      /\ broker_to_client \in [BrokerOrderIds -> ClientOrderIds \cup {None}]
  BY CalmFacts, LedgerFacts
<1>2. /\ event.broker_order_id = b /\ event.accepted = TRUE
  BY DEF Ack
<1>3. /\ Routable(command) /\ OMS!CommandAdmitted(OrderFor(command), command)
      /\ Keep(command, order) /\ Accept(command, b)
      /\ broker_to_client' = [broker_to_client EXCEPT ![b] = c]
  BY DEF RouteAccepted, Sending
<1>4. /\ WithCommand(command) \in OMS!OrderState
      /\ WithCommand(command).order_quantity = command.quantity
      /\ WithCommand(command).broker_order_command = command
  BY <1>1, <1>3, CommandedOrder
<1>5. order = [WithCommand(command) EXCEPT !.status = "ACKED", !.broker_order_id = b]
  BY <1>2 DEF OMS!Acknowledge
<1> HIDE DEF event, order
<1>6. /\ order.status = "ACKED" /\ order.broker_order_id = b
      /\ order.order_quantity = command.quantity
      /\ order.broker_order_command = command
      /\ order \in OMS!OrderState
  BY <1>4, <1>5 DEF OMS!OrderState, OMS!Statuses
<1>7. c \in ClientOrderIds /\ command # None /\ order # None
  BY <1>6, SettlementAssumption
<1>8. states'[c] = order
  BY <1>1, <1>3, <1>7 DEF Keep, StatesOK
<1>9. /\ orders'[b] = [client_order_id |-> c, quantity |-> command.quantity, filled |-> 0]
      /\ broker_to_client'[b] = c
  BY <1>1, <1>3, <1>7 DEF Accept, OrdersTyped
<1> HIDE DEF c
<1>10. orders'[b].filled = 0 /\ orders'[b].quantity = command.quantity
  BY <1>9
<1>11. ~(0 > 0)
  OBVIOUS
<1>12. OrderFits(b, c)'
  BY <1>6, <1>7, <1>8, <1>9, <1>10, <1>11 DEF OrderFits
<1> QED
  BY <1>10, <1>12 DEF c

LEMMA RouteCalm ==
  ASSUME CalmParts, Calm, NEW command \in Commands, Route(command)
  PROVE  CalmInv'
<1>1. /\ UNCHANGED <<phase, reports, seen, executed, notices, log, sent>>
      /\ \A d \in ClientOrderIds : Settled(d)' = Settled(d)
  BY RouteKinds, RouteBooks, CalmFacts, LedgerFacts DEF BooksStand
<1>2. \A a : UnbookedOf(a)' = UnbookedOf(a)
  BY <1>1 DEF UnbookedOf
<1>3. \A b \in BrokerOrderIds : orders[b] # None => orders'[b] = orders[b]
  BY RouteKinds, CalmFacts, LedgerFacts DEF Accept, OrdersTyped
<1>4. ASSUME NEW b \in BrokerOrderIds PROVE OrderCalm(b)'
  <2> SUFFICES ASSUME orders'[b] # None, NEW c \in ClientOrderIds,
                      orders'[b].client_order_id = c
               PROVE  OrderFits(b, c)' /\ Owed(b, c)'
    BY DEF OrderCalm
  <2>1. CASE orders[b] # None
    <3>1. orders[b].client_order_id = c
      BY <1>3, <2>1
    <3>2. OrderFits(b, c)' /\ Owed(b, c) /\ orders'[b] = orders[b]
      BY <2>1, <3>1, RouteFits, CalmFacts
    <3> QED
      BY <1>1, <1>2, <3>2, OwedKept
  <2>2. CASE orders[b] = None
    <3>1. RouteAccepted(command, b)
      BY <2>2, CalmAccept
    <3>2. c = command.client_order_id
      BY <3>1, CalmFacts, LedgerFacts DEF RouteAccepted, Accept, OrdersTyped
    <3>3. OrderFits(b, c)' /\ orders'[b].filled = 0
      BY <3>1, <3>2, AcceptedFits
    <3>4. UnbookedOf(b)' = {}
      BY <1>1, <2>2, CalmFacts, LedgerFacts DEF UnbookedOf, ChannelsFit
    <3>5. Unbooked(b)' = 0
      BY <3>4, NothingUnbookedNext
    <3>6. Settled(c)' = 0
      <4>1. \A a \in BrokerOrderIds : orders[a] # None => orders[a].client_order_id # c
        BY <3>1, <3>2, CalmFacts, LedgerFacts
        DEF RouteAccepted, Sending, Reservable, BooksInv, SubmissionInv, PhysicalReserved
      <4>2. \A a \in BrokerOrderIds : broker_to_client[a] # c
        BY <4>1, CalmFacts, LedgerFacts DEF CorrelationFits
      <4> QED
        BY <1>1, <4>2, CalmFacts, LedgerFacts DEF CorrelationFits
    <3>7. phase # "recovering"
      BY <3>1 DEF RouteAccepted, Sending, Idle
    <3>8. \A k \in Int : CumulativeId(b, k) \notin seen
      BY <2>2, CalmFacts DEF IdentitiesFit
    <3> QED
      BY <1>1, <3>3, <3>5, <3>6, <3>7, <3>8 DEF Owed
  <2> QED
    BY <2>1, <2>2
<1>5. ASSUME NEW report \in reports PROVE ReportCurrent(report)'
  <2>1. report.broker_order_id \in BrokerOrderIds /\ orders[report.broker_order_id] # None
    BY CalmFacts, LedgerFacts DEF ReportOK, CorrelationFits
  <2> QED
    BY <1>3, <2>1, CalmFacts DEF ReportCurrent
<1>6. IdentitiesFit'
  BY <1>1, <1>3, CalmFacts DEF IdentitiesFit
<1> QED
  BY <1>1, <1>4, <1>5, <1>6 DEF CalmInv

\* An executed order is still one that can be executed, or it is filled.
LEMMA SettledFits ==
  ASSUME CalmParts, NEW report, ReportOK(report), SettleMoves(report),
         report.status = "FILLED" => report.remaining_quantity = 0,
         NEW b \in BrokerOrderIds, NEW c \in ClientOrderIds,
         orders[b] # None, orders[b].client_order_id = c,
         UNCHANGED <<orders, broker_to_client>>
  PROVE  OrderFits(b, c)'
<1>1. OrderFits(b, c) /\ StatesOK
  BY CalmFacts, LedgerFacts
<1>2. states[c] # None /\ states[c] \in OMS!OrderState
  BY <1>1 DEF OrderFits, StatesOK, OrderOK
<1>3. CASE states'[c] = states[c]
  <2>1. Settled(c)' = Settled(c)
    BY <1>3 DEF Settled
  <2> QED
    BY <1>1, <1>3, <2>1, CalmKept DEF OrderFits
<1>4. CASE /\ c = report.client_order_id
           /\ states' = [states EXCEPT ![c] = OMS!Execute(states[c], report)]
           /\ OMS!ExecutionAdmitted(states[c], report)
  <2> DEFINE order == states[c]
             after == OMS!Execute(order, report)
             q == report.filled_quantity
  <2>1. states'[c] = after
    BY <1>1, <1>4 DEF StatesOK
  <2>2. /\ report.status \in {"PARTIALLY_FILLED", "FILLED"}
        /\ report.remaining_quantity = order.order_quantity - (order.filled_quantity + q)
        /\ q \in Int /\ order.order_quantity \in Int /\ order.filled_quantity \in Int
    BY <1>2, <1>4 DEF OMS!ExecutionAdmitted, ReportOK, OMS!OrderState
  <2>3. /\ after \in OMS!OrderState
        /\ after.filled_quantity = order.filled_quantity + q
        /\ after.order_quantity = order.order_quantity
        /\ after.broker_order_command = order.broker_order_command
    BY <1>2, <2>2, ExecutedOrder DEF ReportOK
  <2>4. after.status = report.status /\ after.broker_order_id = order.broker_order_id
    BY <1>2 DEF OMS!Execute, OMS!OrderState
  <2>5. after.status = "FILLED" => after.filled_quantity = after.order_quantity
    <3> SUFFICES ASSUME report.status = "FILLED"
                 PROVE  order.filled_quantity + q = order.order_quantity
      BY <2>3, <2>4
    <3> HIDE DEF order, q
    <3> QED
      BY <2>2
  <2>6. after # None
    BY <2>3, SettlementAssumption
  <2> HIDE DEF order, after
  <2>7. /\ order.broker_order_id = b /\ order.broker_order_command # None
        /\ order.order_quantity = orders[b].quantity
        /\ broker_to_client[b] = c
        /\ orders[b].filled > 0 => orders[b].filled <= orders[b].quantity
    BY <1>1 DEF OrderFits, order
  <2> QED
    BY <2>1, <2>2, <2>3, <2>4, <2>5, <2>6, <2>7 DEF OrderFits
<1> QED
  BY <1>1, <1>3, <1>4 DEF SettleMoves, StatesOK

\* The report of a notice is settled when it is new.
LEMMA NoticeSettles ==
  ASSUME CalmParts, phase = "up", NEW n \in sent, n \notin seen
  PROVE  NoticeReportable(n) /\ Settleable(Report(n.odno, n.cntg_qty, n))
<1>1. n \in log /\ n \in Notices
  BY CalmFacts, LedgerFacts
<1>2. PICK b \in BrokerOrderIds : b = n.odno
  BY <1>1 DEF Notices
<1> DEFINE q == n.cntg_qty
<1>3. orders[b] # None /\ q \in Int /\ q > 0
  BY <1>1, <1>2, CalmFacts, LedgerFacts, SettlementAssumption DEF ChannelsFit, Notices
<1>4. PICK c \in ClientOrderIds : orders[b].client_order_id = c
  BY <1>3, CalmFacts, LedgerFacts, FilledInteger
<1>5. OrderFits(b, c) /\ Owed(b, c) /\ c # None
  BY <1>3, <1>4, CalmFacts, LedgerFacts
<1>6. /\ states[c] # None /\ states[c] \in OMS!OrderState /\ broker_to_client[b] = c
      /\ Settled(c) = states[c].filled_quantity
  BY <1>5, CalmFacts, LedgerFacts DEF OrderFits, StatesOK, OrderOK, Settled
<1> DEFINE s == Settled(c)
           f == orders[b].filled
           most == states[c].order_quantity
<1>7. s \in Int /\ s >= 0 /\ f \in Int /\ most \in Int
  BY <1>3, <1>6, CalmFacts, LedgerFacts, SettledInteger, FilledInteger DEF OMS!OrderState
<1>8. s + q <= f
  <2>1. PICK S : S = UnbookedOf(b)
    OBVIOUS
  <2>2. n \in S
    BY <1>2, <2>1 DEF UnbookedOf
  <2>3. IsFiniteSet(UnitsOf(S))
    BY <1>5, <1>6, <2>1, CalmFacts, LedgerFacts DEF BookedFits
  <2>4. n.cntg_qty \in Nat
    BY <1>3
  <2>5. /\ IsFiniteSet(UnitsOf(S \ {n}))
        /\ Cardinality(UnitsOf(S)) = Cardinality(UnitsOf(S \ {n})) + q
    BY <2>2, <2>3, <2>4, UnitsOfFewer
  <2>6. Cardinality(UnitsOf(S \ {n})) \in Nat
    BY <2>5, UnitsCount
  <2>7. s + Cardinality(UnitsOf(S)) = f
    BY <1>5, <2>1 DEF Owed, Unbooked
  <2> DEFINE r == Cardinality(UnitsOf(S \ {n}))
  <2>8. s + (r + q) = f /\ r \in Nat
    BY <2>5, <2>6, <2>7
  <2> HIDE DEF r, s, q, f
  <2> QED
    BY <1>3, <1>7, <2>8
<1>9. f <= most /\ states[c].status \in {"ACKED", "PARTIALLY_FILLED", "FILLED"}
      /\ (states[c].status = "FILLED" => s = most)
      /\ states[c].broker_order_id = b /\ states[c].broker_order_command # None
  <2>1. f > 0
    <3> HIDE DEF s, q, f
    <3> QED
      BY <1>3, <1>7, <1>8
  <2> QED
    BY <1>5, <1>6, <2>1 DEF OrderFits
<1> HIDE DEF s, q, f, most
<1>10. states[c].status \in {"ACKED", "PARTIALLY_FILLED"} /\ s + q <= most
  BY <1>3, <1>7, <1>8, <1>9
<1>11. NoticeReportable(n)
  BY <1>2, <1>5, <1>6, <1>10 DEF NoticeReportable, OMS!Resolvable, OMS!Registered, s, q, most
<1>12. b # None
  BY SettlementAssumption
<1> DEFINE report == Report(n.odno, n.cntg_qty, n)
<1>13. /\ report.client_order_id = c /\ report.broker_order_id = b
       /\ report.filled_quantity = q
       /\ report.status \in {"PARTIALLY_FILLED", "FILLED"}
       /\ report.remaining_quantity = most - (s + q)
  BY <1>2, <1>6 DEF Report, q, s, most
<1> HIDE DEF report
<1>14. OMS!ExecutionAdmitted(states[c], report)
  BY <1>3, <1>6, <1>9, <1>10, <1>13 DEF OMS!ExecutionAdmitted, s, most
<1>15. OMS!CommandAvailable(b)
  BY <1>5, <1>6, <1>9, <1>12 DEF OMS!CommandAvailable, OMS!Registered
<1>16. Settleable(report)
  BY <1>13, <1>14, <1>15 DEF Settleable
<1> QED
  BY <1>11, <1>16 DEF report

\* Of two orders at the broker, the OMS has two.
LEMMA PhysicalOnce ==
  ASSUME CalmParts, NEW a \in BrokerOrderIds, NEW b \in BrokerOrderIds,
         orders[a] # None, orders[b] # None,
         orders[a].client_order_id = orders[b].client_order_id
  PROVE  a = b
  BY CalmFacts, LedgerFacts DEF BooksInv, SubmissionInv, AtMostOnePhysicalOrder

LEMMA ReceiveCalm ==
  ASSUME CalmParts, ReceiveExecutionOnce
  PROVE  CalmInv'
<1>1. /\ phase = "up" /\ notices # <<>> /\ notices' = Tail(notices) /\ reports = {}
      /\ UNCHANGED <<broker_to_client, phase, reports, orders, executed, log, sent>>
  BY CalmFacts, LedgerFacts DEF ReceiveExecutionOnce, ChannelsFit
<1>2. PICK n : n = Head(notices)
  OBVIOUS
<1>3. notices \in Seq(Notices)
  BY CalmFacts, LedgerFacts DEF BooksInv
<1>4. n = notices[1] /\ 1 \in DOMAIN notices
  BY <1>1, <1>2, <1>3, TailElements
<1>5. n \in sent /\ n \in log /\ n \in Notices /\ n.cntg_qty \in Nat
  <2>1. n \in sent /\ n \in log /\ n \in Notices /\ n.cntg_qty > 0
    BY <1>4, CalmFacts, LedgerFacts DEF ChannelsFit
  <2> QED
    BY <2>1, SettlementAssumption DEF Notices
<1>6. ASSUME NEW m \in sent, m \notin seen, m # n
      PROVE  \E i \in DOMAIN notices' : notices'[i] = m
  <2>1. PICK i \in DOMAIN notices : notices[i] = m
    BY <1>6, CalmFacts DEF IdentitiesFit
  <2>2. i # 1
    BY <1>4, <1>6, <2>1
  <2> QED
    BY <1>1, <1>3, <2>1, <2>2, TailElements
<1>7. CASE n \in seen
  <2>1. UNCHANGED <<seen, states>>
    BY <1>2, <1>7 DEF ReceiveExecutionOnce, Settle, Known, Report
  <2>2. \A d : Settled(d)' = Settled(d)
    BY <2>1 DEF Settled
  <2>3. ASSUME NEW b \in BrokerOrderIds PROVE OrderCalm(b)'
    <3> SUFFICES ASSUME orders'[b] # None, NEW c \in ClientOrderIds,
                        orders'[b].client_order_id = c
                 PROVE  OrderFits(b, c)' /\ Owed(b, c)'
      BY DEF OrderCalm
    <3>1. OrderFits(b, c) /\ Owed(b, c)
      BY <1>1, CalmFacts
    <3>2. OrderFits(b, c)'
      BY <1>1, <2>1, <3>1 DEF OrderFits
    <3>3. UnbookedOf(b)' = UnbookedOf(b)
      BY <1>1, <2>1 DEF UnbookedOf
    <3> QED
      BY <1>1, <2>1, <2>2, <3>1, <3>2, <3>3, OwedKept
  <2>4. IdentitiesFit'
    BY <1>1, <1>6, <1>7, <2>1, CalmFacts DEF IdentitiesFit
  <2> QED
    BY <1>1, <2>3, <2>4 DEF CalmInv
<1>8. CASE n \notin seen
  <2>1. NoticeReportable(n) /\ Settleable(Report(n.odno, n.cntg_qty, n))
    BY <1>1, <1>5, <1>8, NoticeSettles
  <2>2. PICK report : report = Report(n.odno, n.cntg_qty, n)
    OBVIOUS
  <2>3. /\ report.broker_order_id = n.odno /\ report.execution_id = n
        /\ report.filled_quantity = n.cntg_qty
        /\ report.client_order_id = broker_to_client[n.odno]
    BY <2>2 DEF Report
  <2>4. report.status = "FILLED" => report.remaining_quantity = 0
    <3>1. PICK c : c = broker_to_client[n.odno]
      OBVIOUS
    <3>2. states[c] \in OMS!OrderState
      <4>1. c # None /\ states[c] # None /\ n.odno \in BrokerOrderIds
        BY <1>5, <2>1, <3>1 DEF NoticeReportable, OMS!Resolvable, OMS!Registered, Notices
      <4>2. c \in ClientOrderIds
        BY <3>1, <4>1, CalmFacts, LedgerFacts
      <4> QED
        BY <4>1, <4>2, CalmFacts, LedgerFacts DEF StatesOK, OrderOK
    <3> DEFINE total == states[c].filled_quantity + n.cntg_qty
               most == states[c].order_quantity
    <3>3. total \in Int /\ most \in Int
      BY <1>5, <3>2 DEF OMS!OrderState
    <3>4. /\ report.status = (IF total = most THEN "FILLED" ELSE "PARTIALLY_FILLED")
          /\ report.remaining_quantity = most - total
      BY <2>2, <3>1 DEF Report
    <3> HIDE DEF total, most
    <3> QED
      BY <3>3, <3>4
  <2>5. Settle(report) /\ Settleable(report) /\ ~Known(report)
    BY <1>2, <1>8, <2>1, <2>2, <2>3 DEF ReceiveExecutionOnce, Known
  <2>6. n.odno \in BrokerOrderIds /\ n.cntg_qty \in Int
    BY <1>5 DEF Notices
  <2>7. ReportOK(report)
    BY <2>1, <2>2, <2>6, CalmFacts, LedgerFacts, ReportOfNumber DEF NoticeReportable
  <2>8. SettleMoves(report)
    BY <2>5, <2>7, CalmFacts, LedgerFacts, SettleMovesBooks
  <2>9. seen' = seen \cup {n}
    BY <2>3, <2>5 DEF Settle
  <2>10. ~UNCHANGED <<seen, states, position>>
    BY <1>8, <2>9
  <2>11. ASSUME NEW b \in BrokerOrderIds PROVE OrderCalm(b)'
    <3> SUFFICES ASSUME orders'[b] # None, NEW c \in ClientOrderIds,
                        orders'[b].client_order_id = c
                 PROVE  OrderFits(b, c)' /\ Owed(b, c)'
      BY DEF OrderCalm
    <3>1. /\ orders[b] # None /\ orders[b].client_order_id = c
          /\ OrderFits(b, c) /\ Owed(b, c)
      BY <1>1, CalmFacts
    <3>2. OrderFits(b, c)'
      BY <1>1, <2>4, <2>7, <2>8, <3>1, SettledFits
    <3>3. \A k \in Int : CumulativeId(b, k) \in seen' => CumulativeId(b, k) \in seen
      BY <1>5, <2>9, IdentitiesDiffer
    <3>4. broker_to_client[b] = c /\ c # None /\ Settled(c) \in Int
      BY <3>1, CalmFacts, LedgerFacts, SettledInteger DEF OrderFits
    <3>5. CASE b = n.odno
      <4>1. report.client_order_id = c
        BY <2>3, <3>4, <3>5
      <4>2. Settled(c)' = Settled(c) + n.cntg_qty
        BY <2>3, <2>8, <2>10, <4>1 DEF SettleMoves
      <4>3. PICK S : S = UnbookedOf(b)
        OBVIOUS
      <4>4. n \in S /\ UnbookedOf(b)' = S \ {n}
        BY <1>1, <1>5, <1>8, <2>9, <3>5, <4>3 DEF UnbookedOf
      <4>5. IsFiniteSet(UnitsOf(S))
        BY <3>4, <4>3, CalmFacts, LedgerFacts DEF BookedFits
      <4>6. /\ IsFiniteSet(UnitsOf(S \ {n}))
            /\ Cardinality(UnitsOf(S)) = Cardinality(UnitsOf(S \ {n})) + n.cntg_qty
        BY <1>5, <4>4, <4>5, UnitsOfFewer
      <4>7. Cardinality(UnitsOf(S \ {n})) \in Nat
        BY <4>6, UnitsCount
      <4>8. Unbooked(b) = Unbooked(b)' + n.cntg_qty /\ Unbooked(b)' \in Nat
        BY <4>3, <4>4, <4>6, <4>7 DEF Unbooked
      <4>9. Settled(c) + Unbooked(b) = orders[b].filled
        BY <1>1, <3>1 DEF Owed
      <4> DEFINE s == Settled(c)  u == Unbooked(b)'  q == n.cntg_qty
      <4>10. s \in Int /\ u \in Int /\ q \in Nat
        BY <1>5, <3>4, <4>8
      <4>11. s + (u + q) = orders[b].filled
        BY <4>8, <4>9
      <4> HIDE DEF s, u, q
      <4>12. (s + q) + u = orders[b].filled
        BY <4>10, <4>11
      <4>13. Settled(c)' + Unbooked(b)' = orders'[b].filled
        BY <1>1, <4>2, <4>12 DEF s, u, q
      <4>14. \A k \in Int : s >= k => s + q >= k
        BY <4>10
      <4>15. \A k \in Int : CumulativeId(b, k) \in seen' => Settled(c)' >= k
        BY <3>1, <3>3, <4>2, <4>14 DEF Owed, s, q
      <4> QED
        BY <1>1, <3>2, <4>13, <4>15 DEF Owed
    <3>6. CASE b # n.odno
      <4>1. Settled(c)' = Settled(c)
        BY <2>3, <2>7, <2>8, <3>4, <3>6, CalmFacts, SettledElsewhere
      <4>2. UnbookedOf(b)' = UnbookedOf(b)
        BY <1>1, <2>9, <3>6 DEF UnbookedOf
      <4>3. Unbooked(b)' = Unbooked(b)
        BY <4>2 DEF Unbooked
      <4> QED
        BY <1>1, <3>1, <3>2, <3>3, <4>1, <4>3 DEF Owed
    <3> QED
      BY <3>5, <3>6
  <2>12. IdentitiesFit'
    <3>1. \A m \in Notices : m \in seen' => m \in log'
      BY <1>1, <1>5, <2>9, CalmFacts DEF IdentitiesFit
    <3>2. \A b \in BrokerOrderIds, k \in Int : CumulativeId(b, k) \in seen' => orders'[b] # None
      BY <1>1, <1>5, <2>9, CalmFacts, IdentitiesDiffer DEF IdentitiesFit
    <3>3. \A m \in sent' : m \notin seen' => \E i \in DOMAIN notices' : notices'[i] = m
      BY <1>1, <1>6, <2>9
    <3> QED
      BY <3>1, <3>2, <3>3 DEF IdentitiesFit
  <2> QED
    BY <1>1, <2>11, <2>12 DEF CalmInv
<1> QED
  BY <1>7, <1>8

\* What is booked of an order never passes what the broker has filled of it.
LEMMA SettledFilled ==
  ASSUME CalmParts, NEW b \in BrokerOrderIds, NEW c \in ClientOrderIds,
         orders[b] # None, orders[b].client_order_id = c
  PROVE  /\ broker_to_client[b] = c /\ c # None
         /\ Settled(c) \in Int /\ Settled(c) >= 0 /\ orders[b].filled \in Int
         /\ Settled(c) <= orders[b].filled
<1>1. broker_to_client[b] = c /\ c # None
  BY CalmFacts, LedgerFacts DEF OrderFits
<1>2. Settled(c) \in Int /\ Settled(c) >= 0 /\ orders[b].filled \in Int
  BY CalmFacts, LedgerFacts, SettledInteger, FilledInteger
<1>3. IsFiniteSet(UnitsOf(UnbookedOf(b))) /\ Settled(c) + Unbooked(b) <= orders[b].filled
  BY <1>1, CalmFacts, LedgerFacts DEF BookedFits
<1>4. Unbooked(b) \in Nat
  BY <1>3, UnbookedCount
<1> QED
  BY <1>1, <1>2, <1>3, <1>4

\* Steps that leave the OMS, the broker and the identities alone.
LEMMA QuietCalm ==
  ASSUME CalmParts, UNCHANGED <<states, broker_to_client, seen, orders, log>>,
         reports' \subseteq reports,
         \A n \in sent' : n \notin seen => \E i \in DOMAIN notices' : notices'[i] = n,
         \A b \in BrokerOrderIds, c \in ClientOrderIds :
           orders[b] # None /\ orders[b].client_order_id = c => Owed(b, c)'
  PROVE  CalmInv'
<1>1. ASSUME NEW b \in BrokerOrderIds PROVE OrderCalm(b)'
  <2> SUFFICES ASSUME orders'[b] # None, NEW c \in ClientOrderIds,
                      orders'[b].client_order_id = c
               PROVE  OrderFits(b, c)' /\ Owed(b, c)'
    BY DEF OrderCalm
  <2>1. OrderFits(b, c)
    BY CalmFacts
  <2> QED
    BY <2>1 DEF OrderFits
<1>2. \A report \in reports' : ReportCurrent(report)'
  BY CalmFacts DEF ReportCurrent
<1>3. IdentitiesFit'
  BY CalmFacts DEF IdentitiesFit
<1> QED
  BY <1>1, <1>2, <1>3 DEF CalmInv

LEMMA DoneCalm ==
  ASSUME CalmParts, RecoverDone \/ StartExecution
  PROVE  CalmInv'
<1>1. /\ UNCHANGED <<states, broker_to_client, seen, orders, log, sent, notices, reports>>
      /\ \/ phase = "recovering" /\ reports = {} /\ phase' = "recovered"
         \/ phase = "recovered" /\ phase' \in {"up", "down"}
  BY DEF RecoverDone, StartExecution, oms, broker
<1>2. ASSUME NEW b \in BrokerOrderIds, NEW c \in ClientOrderIds,
             orders[b] # None, orders[b].client_order_id = c
      PROVE  Owed(b, c)'
  <2>1. Owed(b, c) /\ Settled(c)' = Settled(c) /\ Settled(c) \in Int
    BY <1>1, <1>2, CalmFacts, SettledFilled DEF Settled
  <2>2. Settled(c) = orders[b].filled
    BY <1>1, <2>1 DEF Owed
  <2>3. sent = {}
    BY <1>1, CalmFacts, LedgerFacts DEF ChannelsFit
  <2>4. UnbookedOf(b)' = {}
    BY <1>1, <2>3 DEF UnbookedOf
  <2>5. Unbooked(b)' = 0
    BY <2>4, NothingUnbookedNext
  <2> QED
    BY <1>1, <2>1, <2>2, <2>5 DEF Owed
<1>3. \A n \in sent : n \notin seen => \E i \in DOMAIN notices : notices[i] = n
  BY CalmFacts DEF IdentitiesFit
<1> QED
  BY <1>1, <1>2, <1>3, QuietCalm

LEMMA StopCalm ==
  ASSUME CalmParts, Stop
  PROVE  CalmInv'
<1>1. /\ UNCHANGED <<states, broker_to_client, seen, orders, log, reports>>
      /\ phase' = "down" /\ sent' = {}
  BY DEF Stop, oms
<1>2. ASSUME NEW b \in BrokerOrderIds, NEW c \in ClientOrderIds,
             orders[b] # None, orders[b].client_order_id = c
      PROVE  Owed(b, c)'
  <2>1. Owed(b, c) /\ Settled(c)' = Settled(c)
    BY <1>1, <1>2, CalmFacts DEF Settled
  <2> QED
    BY <1>1, <2>1 DEF Owed
<1> QED
  BY <1>1, <1>2, QuietCalm

LEMMA SendCalm ==
  ASSUME CalmParts, Calm, NEW notice \in log, SendAgain(notice)
  PROVE  CalmInv'
<1>1. notice \in sent /\ notices \in Seq(Notices)
  BY CalmFacts, LedgerFacts DEF SendAgain, Calm, BooksInv
<1>2. /\ UNCHANGED <<states, broker_to_client, seen, orders, log, phase, reports>>
      /\ sent' = sent /\ notices' = Append(notices, notice)
  BY <1>1 DEF SendAgain, oms
<1>3. ASSUME NEW n \in sent, n \notin seen PROVE \E i \in DOMAIN notices' : notices'[i] = n
  <2>1. PICK i \in DOMAIN notices : notices[i] = n
    BY <1>3, CalmFacts DEF IdentitiesFit
  <2>2. i \in DOMAIN Append(notices, notice) /\ Append(notices, notice)[i] = notices[i]
    BY <1>1, <2>1, AppendElements
  <2> QED
    BY <1>2, <2>1, <2>2
<1>4. ASSUME NEW b \in BrokerOrderIds, NEW c \in ClientOrderIds,
             orders[b] # None, orders[b].client_order_id = c
      PROVE  Owed(b, c)'
  <2>1. Owed(b, c) /\ Settled(c)' = Settled(c) /\ UnbookedOf(b)' = UnbookedOf(b)
    BY <1>2, <1>4, CalmFacts DEF Settled, UnbookedOf
  <2> QED
    BY <1>2, <2>1, OwedKept
<1> QED
  BY <1>2, <1>3, <1>4, QuietCalm

LEMMA ReconcileCalm ==
  ASSUME CalmParts, StartupReconcile
  PROVE  CalmInv'
<1>1. /\ phase = "down" /\ phase' = "recovering"
      /\ reports' = {RowReport(b) : b \in {r \in Rows : Delta(r) > 0}}
      /\ \A b \in Rows : RowNormalizes(b)
      /\ UNCHANGED <<states, broker_to_client, seen, orders, executed, notices, log, sent>>
  BY DEF StartupReconcile, oms, broker
<1>2. \A d : Settled(d)' = Settled(d)
  BY <1>1 DEF Settled
<1>3. ASSUME NEW b \in BrokerOrderIds, NEW c \in ClientOrderIds,
             orders[b] # None, orders[b].client_order_id = c
      PROVE  OrderFits(b, c)' /\ Owed(b, c)'
  <2>1. OrderFits(b, c) /\ Owed(b, c)
    BY <1>3, CalmFacts
  <2>2. OrderFits(b, c)'
    BY <1>1, <2>1 DEF OrderFits
  <2>3. /\ broker_to_client[b] = c /\ Settled(c) \in Int /\ Settled(c) >= 0
        /\ orders[b].filled \in Int /\ Settled(c) <= orders[b].filled
    BY <1>3, SettledFilled
  <2>4. Settled(c) = states[c].filled_quantity
    BY <2>1 DEF OrderFits, Settled
  <2>5. Delta(b) = orders[b].filled - Settled(c)
    BY <2>3, <2>4 DEF Delta
  <2>6. \/ Settled(c) = orders[b].filled
        \/ \E report \in reports' :
             /\ report.broker_order_id = b
             /\ Settled(c) + report.filled_quantity = orders[b].filled
    <3>1. CASE Settled(c) = orders[b].filled
      BY <3>1
    <3>2. CASE Settled(c) # orders[b].filled
      <4>1. Delta(b) > 0 /\ orders[b].filled > 0
        BY <2>3, <2>5, <3>2
      <4>2. b \in Rows
        BY <1>3, <4>1 DEF Rows
      <4>3. RowReport(b) \in reports'
        BY <1>1, <4>1, <4>2
      <4>4. RowReport(b).broker_order_id = b /\ RowReport(b).filled_quantity = Delta(b)
        BY DEF RowReport, Report
      <4>5. Settled(c) + Delta(b) = orders[b].filled
        BY <2>3, <2>5
      <4> QED
        BY <4>3, <4>4, <4>5
    <3> QED
      BY <3>1, <3>2
  <2>7. \A k \in Int : CumulativeId(b, k) \in seen => Settled(c) >= k
    BY <2>1 DEF Owed
  <2> QED
    BY <1>1, <1>2, <2>2, <2>6, <2>7 DEF Owed
<1>4. ASSUME NEW report \in reports' PROVE ReportCurrent(report)'
  <2>1. PICK b \in Rows : report = RowReport(b) /\ Delta(b) > 0
    BY <1>1, <1>4
  <2>2. b \in BrokerOrderIds /\ OMS!Resolvable(b) /\ orders[b] # None
    BY <1>1, <2>1 DEF Rows, RowNormalizes
  <2>3. PICK c : c = broker_to_client[b]
    OBVIOUS
  <2>4. c \in ClientOrderIds /\ states[c] # None
    BY <2>2, <2>3, CalmFacts, LedgerFacts DEF OMS!Resolvable, OMS!Registered
  <2>5. states[c] \in OMS!OrderState
    BY <2>4, CalmFacts, LedgerFacts DEF StatesOK, OrderOK
  <2> DEFINE most == states[c].order_quantity
             booked == states[c].filled_quantity
             total == booked + Delta(b)
  <2>6. /\ report.broker_order_id = b /\ report.filled_quantity = Delta(b)
        /\ report.execution_id = CumulativeId(b, orders[b].filled)
        /\ report.status = (IF total = most THEN "FILLED" ELSE "PARTIALLY_FILLED")
        /\ report.remaining_quantity = most - total
    BY <2>1, <2>3 DEF RowReport, Report, CumulativeId
  <2>7. most \in Int /\ booked \in Int /\ orders[b].filled \in Int
    BY <2>2, <2>5, CalmFacts, LedgerFacts, FilledInteger DEF OMS!OrderState
  <2>8. Delta(b) = orders[b].filled - booked
    BY <2>3 DEF Delta
  <2>9. total \in Int
    BY <2>7, <2>8
  <2> HIDE DEF total, most
  <2>10. report.status = "FILLED" => report.remaining_quantity = 0
    BY <2>6, <2>7, <2>9
  <2> QED
    BY <1>1, <2>1, <2>6, <2>10 DEF ReportCurrent
<1>5. IdentitiesFit'
  BY <1>1, CalmFacts DEF IdentitiesFit
<1> QED
  BY <1>1, <1>3, <1>4, <1>5 DEF CalmInv, OrderCalm

LEMMA RecoverCalm ==
  ASSUME CalmParts, NEW report \in reports, RecoverReport(report)
  PROVE  CalmInv'
<1>1. /\ phase = "recovering" /\ Settle(report)
      /\ IF Raises(report) THEN phase' = "down" /\ reports' = {}
                           ELSE phase' = phase /\ reports' = reports \ {report}
      /\ UNCHANGED <<broker_to_client, orders, executed, notices, log, sent>>
  BY DEF RecoverReport, broker
<1>2. ReportOK(report) /\ ReportFits(report) /\ ReportCurrent(report)
  BY CalmFacts, LedgerFacts
<1>3. SettleMoves(report)
  BY <1>1, <1>2, CalmFacts, LedgerFacts, SettleMovesBooks
<1>4. PICK b \in BrokerOrderIds, c \in ClientOrderIds :
        b = report.broker_order_id /\ c = report.client_order_id
  BY <1>2 DEF ReportOK
<1>5. /\ broker_to_client[b] = c /\ c # None
      /\ orders[b] # None /\ orders[b].client_order_id = c
  BY <1>2, <1>4, CalmFacts, LedgerFacts DEF ReportOK, CorrelationFits
<1> DEFINE s == Settled(c)
           q == report.filled_quantity
           f == orders[b].filled
<1>6. /\ s \in Int /\ q \in Int /\ f \in Int /\ q > 0 /\ s + q <= f
      /\ report.execution_id = CumulativeId(b, f)
      /\ report.status = "FILLED" => report.remaining_quantity = 0
  BY <1>2, <1>4, <1>5, SettledFilled DEF ReportOK, ReportFits, ReportCurrent
<1>7. Owed(b, c)
  BY <1>5, CalmFacts
<1> HIDE DEF s, f
<1>8. CumulativeId(b, f) \notin seen
  <2>1. CumulativeId(b, f) \in seen => s >= f
    BY <1>6, <1>7 DEF Owed, s
  <2> QED
    BY <1>6, <2>1
<1>9. s + q = f
  <2>1. s # f
    BY <1>6
  <2>2. PICK r \in reports : r.broker_order_id = b /\ s + r.filled_quantity = f
    BY <1>1, <1>7, <2>1 DEF Owed, s, f
  <2>3. r = report
    BY <1>4, <2>2, CalmFacts, LedgerFacts
  <2> QED
    BY <2>2, <2>3
<1>10. ASSUME NEW other \in reports'
       PROVE  ReportCurrent(other)'
  BY <1>1, CalmFacts DEF ReportCurrent
<1>11. CASE UNCHANGED <<seen, states, position>>
  <2>1. Raises(report)
    <3>1. ~Known(report)
      BY <1>6, <1>8 DEF Known
    <3>2. ~Settleable(report)
      BY <1>1, <1>11, <3>1 DEF Settle, Known
    <3> QED
      BY <3>1, <3>2 DEF Raises
  <2>2. ASSUME NEW a \in BrokerOrderIds, NEW d \in ClientOrderIds,
               orders[a] # None, orders[a].client_order_id = d
        PROVE  Owed(a, d)'
    <3>1. Owed(a, d) /\ Settled(d)' = Settled(d)
      BY <1>11, <2>2, CalmFacts DEF Settled
    <3> QED
      BY <1>1, <1>11, <2>1, <3>1 DEF Owed
  <2>3. \A n \in sent : n \notin seen => \E i \in DOMAIN notices : notices[i] = n
    BY CalmFacts DEF IdentitiesFit
  <2>4. reports' \subseteq reports
    BY <1>1
  <2> QED
    BY <1>1, <1>11, <2>2, <2>3, <2>4, QuietCalm
<1>12. CASE ~UNCHANGED <<seen, states, position>>
  <2>1. seen' = seen \cup {CumulativeId(b, f)} /\ Settled(c)' = s + q
    BY <1>3, <1>4, <1>6, <1>12 DEF SettleMoves, s
  <2>2. ASSUME NEW a \in BrokerOrderIds PROVE OrderCalm(a)'
    <3> SUFFICES ASSUME orders'[a] # None, NEW d \in ClientOrderIds,
                        orders'[a].client_order_id = d
                 PROVE  OrderFits(a, d)' /\ Owed(a, d)'
      BY DEF OrderCalm
    <3>1. orders[a] # None /\ orders[a].client_order_id = d
      BY <1>1
    <3>2. OrderFits(a, d) /\ Owed(a, d) /\ OrderFits(a, d)'
      BY <1>1, <1>2, <1>3, <1>6, <3>1, CalmFacts, SettledFits
    <3>3. CASE a = b
      <4>1. d = c
        BY <1>5, <3>1, <3>3
      <4>2. Settled(c)' = orders'[b].filled
        BY <1>1, <1>9, <2>1 DEF f
      <4>3. \A k \in Int : CumulativeId(b, k) \in seen' => Settled(c)' >= k
        <5> SUFFICES ASSUME NEW k \in Int, CumulativeId(b, k) \in seen'
                     PROVE  s + q >= k
          BY <2>1
        <5>1. CASE CumulativeId(b, k) \in seen
          <6>1. s >= k
            BY <1>7, <5>1 DEF Owed, s
          <6> QED
            BY <1>6, <6>1
        <5>2. CASE CumulativeId(b, k) = CumulativeId(b, f)
          <6>1. k = f
            BY <5>2, CumulativeDiffer
          <6> QED
            BY <1>6, <1>9, <6>1
        <5> QED
          BY <2>1, <5>1, <5>2
      <4>4. phase' \in {"down", "recovering"}
        BY <1>1
      <4> QED
        BY <3>2, <3>3, <4>1, <4>2, <4>3, <4>4 DEF Owed
    <3>4. CASE a # b
      <4>1. broker_to_client[a] = d
        BY <3>2 DEF OrderFits
      <4>2. Settled(d)' = Settled(d)
        BY <1>2, <1>3, <1>4, <3>4, <4>1, CalmFacts, SettledElsewhere
      <4>3. \A k \in Int : CumulativeId(a, k) \in seen' => Settled(d)' >= k
        <5> SUFFICES ASSUME NEW k \in Int, CumulativeId(a, k) \in seen'
                     PROVE  Settled(d) >= k
          BY <4>2
        <5>1. CumulativeId(a, k) # CumulativeId(b, f)
          BY <3>4, CumulativeDiffer
        <5>2. CumulativeId(a, k) \in seen
          BY <2>1, <5>1
        <5> QED
          BY <3>2, <5>2 DEF Owed
      <4>4. \/ phase' = "down"
            \/ /\ phase' = "recovering"
               /\ \/ Settled(d)' = orders'[a].filled
                  \/ \E r \in reports' : r.broker_order_id = a
                                           /\ Settled(d)' + r.filled_quantity = orders'[a].filled
        <5>1. CASE Settled(d) = orders[a].filled
          BY <1>1, <4>2, <5>1
        <5>2. ASSUME NEW r \in reports, r.broker_order_id = a,
                     Settled(d) + r.filled_quantity = orders[a].filled
              PROVE  \/ phase' = "down"
                     \/ /\ phase' = "recovering" /\ r \in reports'
                        /\ Settled(d)' + r.filled_quantity = orders'[a].filled
          <6>1. r # report
            BY <1>4, <3>4, <5>2
          <6> QED
            BY <1>1, <4>2, <5>2, <6>1
        <5>3. \/ Settled(d) = orders[a].filled
              \/ \E r \in reports : /\ r.broker_order_id = a
                                    /\ Settled(d) + r.filled_quantity = orders[a].filled
          BY <1>1, <3>2 DEF Owed
        <5> QED
          BY <5>1, <5>2, <5>3
      <4> QED
        BY <3>2, <4>3, <4>4 DEF Owed
    <3> QED
      BY <3>3, <3>4
  <2>3. IdentitiesFit'
    <3>1. \A n \in Notices : n \in seen' => n \in log'
      BY <1>1, <2>1, CalmFacts, IdentitiesDiffer DEF IdentitiesFit
    <3>2. \A a \in BrokerOrderIds, k \in Int : CumulativeId(a, k) \in seen' => orders'[a] # None
      <4> SUFFICES ASSUME NEW a \in BrokerOrderIds, NEW k \in Int, CumulativeId(a, k) \in seen'
                   PROVE  orders[a] # None
        BY <1>1
      <4>1. CASE CumulativeId(a, k) \in seen
        BY <4>1, CalmFacts DEF IdentitiesFit
      <4>2. CASE CumulativeId(a, k) = CumulativeId(b, f)
        <5>1. a = b
          BY <4>2, CumulativeDiffer
        <5> QED
          BY <1>5, <5>1
      <4> QED
        BY <2>1, <4>1, <4>2
    <3>3. sent' = {}
      BY <1>1, CalmFacts, LedgerFacts DEF ChannelsFit
    <3> QED
      BY <3>1, <3>2, <3>3 DEF IdentitiesFit
  <2> QED
    BY <1>10, <2>2, <2>3 DEF CalmInv
<1> QED
  BY <1>11, <1>12

LEMMA ExecuteCalm ==
  ASSUME CalmParts, Calm, NEW b \in BrokerOrderIds, NEW notice \in Notices,
         BrokerExecute(b, notice)
  PROVE  CalmInv'
<1> DEFINE q == notice.cntg_qty
           f == orders[b].filled
           most == orders[b].quantity
<1>1. /\ UNCHANGED <<states, broker_to_client, phase, reports, seen>>
      /\ orders' = [orders EXCEPT ![b].filled = f + q]
      /\ log' = log \cup {notice}
      /\ \/ phase = "up" /\ notices' = Append(notices, notice) /\ sent' = sent \cup {notice}
         \/ phase # "up" /\ UNCHANGED <<notices, sent>>
      /\ orders[b] # None /\ notice.odno = b
      /\ q \in 1 .. most - f
  BY DEF BrokerExecute, oms
<1>2. /\ phase \notin {"recovering", "recovered"} /\ reports = {}
      /\ notice \notin log /\ notice \notin sent /\ notice \notin seen
  <2>1. phase \notin {"recovering", "recovered"} /\ notice \notin log
    BY DEF BrokerExecute, Calm
  <2> QED
    BY <2>1, CalmFacts, LedgerFacts DEF ChannelsFit, IdentitiesFit
<1>3. PICK c \in ClientOrderIds : orders[b].client_order_id = c
  BY <1>1, CalmFacts, LedgerFacts, FilledInteger
<1>4. /\ orders[b] \in BrokerOrder /\ f \in Int /\ most \in Int
      /\ orders \in [BrokerOrderIds -> BrokerOrder \cup {None}]
  BY <1>1, CalmFacts, LedgerFacts DEF OrdersTyped, BrokerOrder
<1>5. /\ orders'[b] = [orders[b] EXCEPT !.filled = f + q]
      /\ \A a \in BrokerOrderIds \ {b} : orders'[a] = orders[a]
  BY <1>1, <1>4
<1> HIDE DEF q, f, most
<1>6. q \in Nat /\ q > 0 /\ f + q \in Int /\ f + q <= most
  BY <1>1, <1>4
<1>7. /\ orders'[b] # None /\ orders'[b].client_order_id = c
      /\ orders'[b].filled = f + q /\ orders'[b].quantity = most
  <2>1. orders'[b] \in BrokerOrder
    BY <1>4, <1>5, <1>6 DEF BrokerOrder
  <2> QED
    BY <1>3, <1>4, <1>5, <2>1, SettlementAssumption DEF BrokerOrder, most
<1>8. \A d : Settled(d)' = Settled(d)
  BY <1>1 DEF Settled
<1>9. ASSUME NEW a \in BrokerOrderIds PROVE OrderCalm(a)'
  <2> SUFFICES ASSUME orders'[a] # None, NEW d \in ClientOrderIds,
                      orders'[a].client_order_id = d
               PROVE  OrderFits(a, d)' /\ Owed(a, d)'
    BY DEF OrderCalm
  <2>1. CASE a = b
    <3>1. d = c
      BY <1>7, <2>1
    <3>2. OrderFits(b, c) /\ Owed(b, c)
      BY <1>1, <1>3, CalmFacts
    <3>3. OrderFits(b, c)'
      BY <1>1, <1>6, <1>7, <3>2 DEF OrderFits, most
    <3>4. \A k \in Int : CumulativeId(b, k) \in seen' => Settled(c)' >= k
      BY <1>1, <1>8, <3>2 DEF Owed
    <3>5. CASE phase = "up"
      <4>1. PICK S : S = UnbookedOf(b)
        OBVIOUS
      <4>2. notice \notin S /\ UnbookedOf(b)' = S \cup {notice}
        BY <1>1, <1>2, <3>5, <4>1 DEF UnbookedOf
      <4>3. broker_to_client[b] = c /\ c # None /\ Settled(c) \in Int
        BY <1>1, <1>3, SettledFilled
      <4>4. IsFiniteSet(UnitsOf(S))
        BY <4>1, <4>3, CalmFacts, LedgerFacts DEF BookedFits
      <4>5. Cardinality(UnitsOf(S \cup {notice})) = Cardinality(UnitsOf(S)) + q
        BY <1>6, <4>2, <4>4, UnitsOfMore DEF q
      <4>6. Unbooked(b) = Cardinality(UnitsOf(S)) /\ Unbooked(b)' = Unbooked(b) + q
        BY <4>1, <4>2, <4>5 DEF Unbooked
      <4>7. Unbooked(b) \in Nat
        BY <4>4, <4>6, UnitsCount
      <4> DEFINE s == Settled(c)  u == Unbooked(b)
      <4>8. s + u = f
        BY <3>2, <3>5 DEF Owed, f
      <4>9. s \in Int /\ u \in Int /\ Settled(c)' = s /\ Unbooked(b)' = u + q
        BY <1>8, <4>3, <4>6, <4>7
      <4> HIDE DEF s, u
      <4>10. s + (u + q) = f + q
        BY <1>6, <4>8, <4>9
      <4>11. Settled(c)' + Unbooked(b)' = orders'[b].filled
        BY <1>7, <4>9, <4>10
      <4> QED
        BY <1>1, <2>1, <3>1, <3>3, <3>4, <3>5, <4>11 DEF Owed
    <3>6. CASE phase = "down"
      BY <1>1, <2>1, <3>1, <3>3, <3>4, <3>6 DEF Owed
    <3> QED
      BY <1>2, <3>5, <3>6, CalmFacts, LedgerFacts
  <2>2. CASE a # b
    <3>1. orders'[a] = orders[a] /\ OrderFits(a, d) /\ Owed(a, d)
      BY <1>5, <2>2, CalmFacts
    <3>2. OrderFits(a, d)'
      BY <1>1, <3>1 DEF OrderFits
    <3>3. UnbookedOf(a)' = UnbookedOf(a)
      BY <1>1, <2>2 DEF UnbookedOf
    <3> QED
      BY <1>1, <1>8, <3>1, <3>2, <3>3, OwedKept
  <2> QED
    BY <2>1, <2>2
<1>10. IdentitiesFit'
  <2>1. notices \in Seq(Notices)
    BY CalmFacts, LedgerFacts DEF BooksInv
  <2>2. /\ \A i \in DOMAIN notices : i \in DOMAIN Append(notices, notice)
                                      /\ Append(notices, notice)[i] = notices[i]
        /\ \E i \in DOMAIN Append(notices, notice) : Append(notices, notice)[i] = notice
    BY <2>1, AppendElements
  <2>3. ASSUME NEW n \in sent', n \notin seen
        PROVE  \E i \in DOMAIN notices' : notices'[i] = n
    <3>1. CASE n \in sent
      <4>1. PICK i \in DOMAIN notices : notices[i] = n
        BY <2>3, <3>1, CalmFacts DEF IdentitiesFit
      <4> QED
        BY <1>1, <2>2, <4>1
    <3>2. CASE n \notin sent
      BY <1>1, <2>2, <2>3, <3>2
    <3> QED
      BY <3>1, <3>2
  <2>4. \A n \in Notices : n \in seen => n \in log'
    BY <1>1, CalmFacts DEF IdentitiesFit
  <2>5. \A a \in BrokerOrderIds, k \in Int : CumulativeId(a, k) \in seen => orders'[a] # None
    BY <1>5, <1>7, CalmFacts DEF IdentitiesFit
  <2> QED
    BY <1>1, <2>3, <2>4, <2>5 DEF IdentitiesFit
<1> QED
  BY <1>1, <1>2, <1>9, <1>10 DEF CalmInv

LEMMA NextCalm ==
  ASSUME CalmParts, Calm, [Next]_vars
  PROVE  CalmParts'
<1>1. LedgerParts'
  BY NextLedger, CalmFacts DEF Calm
<1> SUFFICES CalmInv'
  BY <1>1 DEF CalmParts
<1>2. CASE \E command \in Commands : Route(command)
  BY <1>2, RouteCalm
<1>3. CASE ReceiveExecutionOnce
  BY <1>3, ReceiveCalm
<1>4. CASE StartupReconcile
  BY <1>4, ReconcileCalm
<1>5. CASE \E report \in reports : RecoverReport(report)
  BY <1>5, RecoverCalm
<1>6. CASE RecoverDone \/ StartExecution
  BY <1>6, DoneCalm
<1>7. CASE Stop
  BY <1>7, StopCalm
<1>8. CASE \E b \in BrokerOrderIds, notice \in Notices : BrokerExecute(b, notice)
  BY <1>8, ExecuteCalm
<1>9. CASE \E notice \in log : SendAgain(notice)
  BY <1>9, SendCalm
<1>10. CASE Lose
  BY <1>10 DEF Lose, Calm
<1>11. CASE UNCHANGED vars
  <2>1. UNCHANGED <<states, broker_to_client, seen, orders, log, sent, notices, reports, phase>>
    BY <1>11 DEF vars, oms, broker
  <2>2. ASSUME NEW b \in BrokerOrderIds, NEW c \in ClientOrderIds,
               orders[b] # None, orders[b].client_order_id = c
        PROVE  Owed(b, c)'
    <3>1. Owed(b, c) /\ Settled(c)' = Settled(c) /\ UnbookedOf(b)' = UnbookedOf(b)
      BY <2>1, <2>2, CalmFacts DEF Settled, UnbookedOf
    <3> QED
      BY <2>1, <3>1, OwedKept
  <2>3. \A n \in sent : n \notin seen => \E i \in DOMAIN notices : notices[i] = n
    BY CalmFacts DEF IdentitiesFit
  <2> QED
    BY <2>1, <2>2, <2>3, QuietCalm
<1> QED
  BY <1>2, <1>3, <1>4, <1>5, <1>6, <1>7, <1>8, <1>9, <1>10, <1>11 DEF Next, Step

\* In every behaviour in which notices are sent again at most, the inquiry of a
\* start and the notices of its subscription together leave no execution
\* unbooked, for any orders, quantities and executions, made while the program
\* was up or down.
THEOREM SettledAfterDrain == Spec => []SettledWhenDrained
<1>1. Init => (Calm => CalmParts)
  BY InitCalm
<1>2. (Calm => CalmParts) /\ [Next]_vars => (Calm => CalmParts)'
  <2>1. [Next]_vars => (Calm' <=> Calm)
    BY DEF Next, vars, Calm
  <2> QED
    BY <2>1, NextCalm
<1>3. (Calm => CalmParts) => SettledWhenDrained
  <2>1. ~Calm => SettledWhenDrained
    BY DEF Calm, SettledWhenDrained
  <2> QED
    BY <2>1, CalmSettles
<1> QED
  BY <1>1, <1>2, <1>3, PTL DEF Spec
=============================================================================
