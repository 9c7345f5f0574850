--------------------------- MODULE LiveSettlement ---------------------------
(***************************************************************************)
(* From a command to the position, in the live environment: the router and *)
(* the live broker adapter send an order, the broker executes it, and the  *)
(* executions come back twice, as H0IFCNI0 notices over the websocket and  *)
(* as inquire-ccnl rows at start; LiveExecutionPositionBridge.settle books *)
(* each one in the OMS and in the position.                                *)
(*                                                                         *)
(* The program is one asyncio thread: a function without await is a single *)
(* step.  The broker is external.  faults names what it and the network    *)
(* may do beyond the well-behaved case:                                    *)
(*   "redelivery"   a notice of this subscription is sent again            *)
(*   "loss"         a notice is lost                                       *)
(*   "lost answer"  an order is accepted but the answer never arrives      *)
(*   "false reject" an order is accepted behind an HTTP error              *)
(*   "gap"          an execution falls between the REST snapshot and the   *)
(*                  subscription                                           *)
(*   "late notice"  the notice of an execution made before this            *)
(*                  subscription is sent on it                             *)
(*   "equal frames" two executions have the same notice (a notice has a    *)
(*                  time in seconds and no sequence number)                *)
(***************************************************************************)
EXTENDS Integers, Sequences

CONSTANTS
  ClientOrderIds, BrokerOrderIds, Quantities, Commands, None,
  Instrument,        \* instrument_id of the position aggregate
  ExecutionPrice,    \* the one price executions have here
  Hours,             \* values of stck_cntg_hour
  FaultSets          \* the kinds of faults there may be together

VARIABLES
  states, broker_to_client,  \* the OMS
  identities,        \* IdempotencyRegistry._identities
  phase,             \* "down", "recovering", "recovered", "up"
  reports,           \* normalized REST reports recover() has still to settle
  seen,              \* ExecutionEventDeduplicator._seen_execution_ids
  position,          \* LivePositionAggregate
  orders,            \* external: per ODNO the order at the broker, or None
  executed,          \* external: units executed, per client order
  notices,           \* external: notices on their way to recv()
  log,               \* external: the notices of all executions so far
  sent,              \* external: the notices sent on this subscription
  faults             \* external: what may go wrong, chosen at the start

oms == <<states, broker_to_client>>
broker == <<orders, executed, notices, log, sent>>
vars == <<oms, identities, phase, reports, seen, position, broker, faults>>

FaultKinds == {"redelivery", "loss", "lost answer", "false reject", "gap",
               "late notice", "equal frames"}

OMS == INSTANCE OrderStateMachine WITH
         Prices <- {ExecutionPrice},
         notional <- [c \in ClientOrderIds |->
                        IF states[c] = None THEN 0
                        ELSE ExecutionPrice * states[c].filled_quantity]

Aggregate == INSTANCE PositionAggregate WITH
               Prices <- {ExecutionPrice}, MaxFills <- 0, net <- 0, paid <- {}, fills <- 0

\* External: what the broker keeps of an order.
BrokerOrder == [client_order_id : ClientOrderIds, quantity : Int, filled : Int]

\* A client order id names one order, so one command.
ASSUME SettlementAssumption ==
  /\ \A kinds \in FaultSets : kinds \subseteq FaultKinds
  /\ ExecutionPrice \in Int /\ ExecutionPrice > 0
  /\ Quantities \subseteq Int
  /\ \A m \in Commands : /\ m.client_order_id \in ClientOrderIds
                         /\ m.side \in Aggregate!Sides
                         /\ m.quantity \in Int
  /\ None \notin OMS!OrderState \cup Aggregate!Sides \cup Commands \cup BrokerOrder
                   \cup ClientOrderIds \cup BrokerOrderIds
  /\ \A m, n \in Commands : m.client_order_id = n.client_order_id => m = n

Notices == [odno : BrokerOrderIds, cntg_qty : Quantities, hour : Hours]

Init ==
  /\ states = [c \in ClientOrderIds |-> None]
  /\ broker_to_client = [b \in BrokerOrderIds |-> None]
  /\ identities = {}
  /\ phase = "down"
  /\ reports = {}
  /\ seen = {}
  /\ position = Aggregate!Flat
  /\ orders = [b \in BrokerOrderIds |-> None]
  /\ executed = [c \in ClientOrderIds |-> 0]
  /\ notices = <<>>
  /\ log = {}
  /\ sent = {}
  /\ faults \in FaultSets

\* recover() does not await: nothing else of the program runs until it ends.
Idle == phase # "recovering"

-----------------------------------------------------------------------------
(* Sending an order: register_and_route, OMSCommandRegisteringBroker and    *)
(* LiveBrokerAdapter.submit.                                               *)

\* register_and_route calls apply_intent for an order it does not know.
Routable(command) ==
  states[command.client_order_id] # None \/ command.quantity > 0

OrderFor(command) ==
  IF states[command.client_order_id] = None
  THEN OMS!NewOrder(command.quantity)
  ELSE states[command.client_order_id]

WithCommand(command) == [OrderFor(command) EXCEPT !.broker_order_command = command]

Keep(command, order) == states' = [states EXCEPT ![command.client_order_id] = order]

\* The broker object is connected from bundle.connect to bundle.shutdown.
Connected == phase # "down"

\* Slip: any command is taken for new.
ReservableSlip(command) == TRUE

\* IdempotencyRegistry.reserve
Reservable(command) == command.client_order_id \notin identities

Reserve(command) == identities' = identities \cup {command.client_order_id}

\* register_broker_order_command raises; a new order stays SUBMITTED.
RouteUnregistered(command) ==
  /\ Idle
  /\ Routable(command)
  /\ ~OMS!CommandAdmitted(OrderFor(command), command)
  /\ Keep(command, OrderFor(command))
  /\ UNCHANGED <<broker_to_client, identities, phase, reports, seen, position, broker>>

\* submit raises before anything is sent.  LiveSafetyGate.evaluate (any answer,
\* here) comes after the reservation: an order it denies is never sent later.
RouteBlocked(command) ==
  /\ Idle
  /\ Routable(command)
  /\ OMS!CommandAdmitted(OrderFor(command), command)
  /\ Keep(command, WithCommand(command))
  /\ \/ ~Connected /\ UNCHANGED identities
     \/ Connected /\ ~Reservable(command) /\ UNCHANGED identities
     \/ Connected /\ Reservable(command) /\ Reserve(command)
  /\ UNCHANGED <<broker_to_client, phase, reports, seen, position, broker>>

\* The request reaches the transport.
Sending(command) ==
  /\ Idle
  /\ Routable(command)
  /\ OMS!CommandAdmitted(OrderFor(command), command)
  /\ Connected
  /\ Reservable(command)
  /\ Reserve(command)
  /\ UNCHANGED <<phase, reports, seen, position, executed, notices, log, sent>>

\* External: the broker accepts the order under an order number not in use.
Accept(command, b) ==
  /\ orders[b] = None
  /\ orders' = [orders EXCEPT ![b] = [client_order_id |-> command.client_order_id,
                                      quantity        |-> command.quantity,
                                      filled          |-> 0]]

Ack(command, accepted, b) ==
  [client_order_id |-> command.client_order_id,
   accepted        |-> accepted,
   broker_order_id |-> b]

RouteAccepted(command, b) ==
  /\ Sending(command)
  /\ Accept(command, b)
  /\ OMS!AckAdmitted(WithCommand(command), Ack(command, TRUE, b))
  /\ Keep(command, OMS!Acknowledge(WithCommand(command), Ack(command, TRUE, b)))
  /\ broker_to_client' = [broker_to_client EXCEPT ![b] = command.client_order_id]

\* rt_cd # "0", or an HTTP error: normalized to accepted = False.
RouteRejected(command) ==
  /\ Sending(command)
  /\ \/ UNCHANGED orders
     \/ "false reject" \in faults /\ \E b \in BrokerOrderIds : Accept(command, b)
  /\ Keep(command, OMS!Acknowledge(WithCommand(command), Ack(command, FALSE, None)))
  /\ UNCHANGED broker_to_client

\* KisOrderTransportError, or a failed conversion: the order stays SUBMITTED.
RouteLost(command) ==
  /\ Sending(command)
  /\ \/ UNCHANGED orders
     \/ "lost answer" \in faults /\ \E b \in BrokerOrderIds : Accept(command, b)
  /\ Keep(command, WithCommand(command))
  /\ UNCHANGED broker_to_client

-----------------------------------------------------------------------------
(* LiveExecutionPositionBridge.settle.                                     *)

\* Slip: no identity is ever known.
KnownSlip(report) == FALSE

\* ExecutionEventDeduplicator.contains
Known(report) == report.execution_id \in seen

\* The checks settle makes before it consumes the identity.
Settleable(report) ==
  /\ OMS!CommandAvailable(report.broker_order_id)
  /\ OMS!ExecutionAdmitted(states[report.client_order_id], report)

\* LivePositionFillAdapter.apply accepts the command and the report.
FillAccepted(command, report) ==
  /\ command.client_order_id = report.client_order_id
  /\ command.instrument_id = Instrument
  /\ report.filled_quantity \in 1 .. command.quantity

CommandOf(report) == states[report.client_order_id].broker_order_command

\* settle raises: a check fails, or the fill adapter refuses after the
\* identity is consumed and the OMS has applied the execution.
Raises(report) ==
  /\ ~Known(report)
  /\ Settleable(report) => ~FillAccepted(CommandOf(report), report)

FilledPosition(command, report) ==
  Aggregate!Fill(position, command.side, report.filled_quantity, report.execution_price)

Settle(report) ==
  IF ~Known(report) /\ Settleable(report)
  THEN /\ seen' = seen \cup {report.execution_id}
       /\ states' = [states EXCEPT ![report.client_order_id] = OMS!Execute(@, report)]
       /\ position' = IF FillAccepted(CommandOf(report), report)
                      THEN FilledPosition(CommandOf(report), report)
                      ELSE position
  ELSE UNCHANGED <<seen, states, position>>

\* The report both adapters build for `quantity` more of the order `b`.
Report(b, quantity, execution_id) ==
  LET c     == broker_to_client[b]
      total == states[c].filled_quantity + quantity
  IN  [client_order_id    |-> c,
       broker_order_id    |-> b,
       execution_id       |-> execution_id,
       status             |-> IF total = states[c].order_quantity
                              THEN "FILLED" ELSE "PARTIALLY_FILLED",
       filled_quantity    |-> quantity,
       remaining_quantity |-> states[c].order_quantity - total,
       execution_price    |-> ExecutionPrice]

-----------------------------------------------------------------------------
(* The websocket: KISFuturesExecutionConsumer.receive_once.                *)

\* The correlation resolves and to_execution_report accepts the quantity.
NoticeReportable(notice) ==
  /\ OMS!Resolvable(notice.odno)
  /\ LET order == states[broker_to_client[notice.odno]]
     IN  order.filled_quantity + notice.cntg_qty <= order.order_quantity

\* A notice that raises, here or in settle, is gone all the same.
ReceiveExecutionOnce ==
  /\ phase = "up"
  /\ notices # <<>>
  /\ notices' = Tail(notices)
  /\ LET notice == Head(notices)
     IN  IF NoticeReportable(notice)
         THEN Settle(Report(notice.odno, notice.cntg_qty, notice))
         ELSE UNCHANGED <<seen, states, position>>
  /\ UNCHANGED <<broker_to_client, identities, phase, reports, orders, executed, log, sent>>

-----------------------------------------------------------------------------
(* Starting and stopping: LiveExecutionRecoveryService.recover, then the    *)
(* subscription (LiveRuntimeLifecycleCoordinator.start and stop).          *)

\* inquire-ccnl has one row per order with executions (CCLD_NCCS_DVSN 01).
Rows == {b \in BrokerOrderIds : orders[b] # None /\ orders[b].filled > 0}

Delta(b) == orders[b].filled - states[broker_to_client[b]].filled_quantity

\* normalize accepts the row: it correlates, and the cumulative quantity has
\* neither gone back nor passed the order.
RowNormalizes(b) ==
  /\ OMS!Resolvable(b)
  /\ Delta(b) >= 0
  /\ orders[b].filled <= states[broker_to_client[b]].order_quantity

\* Slip: the report carries the cumulative quantity of the row.
RowReportSlip(b) ==
  Report(b, orders[b].filled, [odno |-> b, cumulative |-> orders[b].filled])

RowReport(b) ==
  Report(b, Delta(b), [odno |-> b, cumulative |-> orders[b].filled])

\* One row that does not normalize aborts the start before anything settles.
StartupReconcile ==
  /\ phase = "down"
  /\ \A b \in Rows : RowNormalizes(b)
  /\ phase' = "recovering"
  /\ reports' = {RowReport(b) : b \in {r \in Rows : Delta(r) > 0}}
  /\ UNCHANGED <<oms, identities, seen, position, broker>>

RecoverReport(report) ==
  /\ phase = "recovering"
  /\ report \in reports
  /\ Settle(report)
  /\ IF Raises(report)
     THEN phase' = "down" /\ reports' = {}
     ELSE phase' = phase /\ reports' = reports \ {report}
  /\ UNCHANGED <<broker_to_client, identities, broker>>

RecoverDone ==
  /\ phase = "recovering"
  /\ reports = {}
  /\ phase' = "recovered"
  /\ UNCHANGED <<oms, identities, reports, seen, position, broker>>

StartExecution ==
  /\ phase = "recovered"
  /\ phase' \in {"up", "down"}
  /\ UNCHANGED <<oms, identities, reports, seen, position, broker>>

\* The transport is closed: what recv() has not taken is lost.
Stop ==
  /\ phase = "up"
  /\ phase' = "down"
  /\ notices' = <<>>
  /\ sent' = {}
  /\ UNCHANGED <<oms, identities, reports, seen, position, orders, executed, log>>

-----------------------------------------------------------------------------
(* The broker (external).                                                  *)

BrokerExecute(b, notice) ==
  /\ orders[b] # None
  /\ notice.odno = b
  /\ notice.cntg_qty \in 1 .. orders[b].quantity - orders[b].filled
  /\ phase \in {"recovering", "recovered"} => "gap" \in faults
  /\ notice \in log => "equal frames" \in faults
  /\ orders' = [orders EXCEPT ![b].filled = @ + notice.cntg_qty]
  /\ executed' = [executed EXCEPT ![orders[b].client_order_id] = @ + notice.cntg_qty]
  /\ log' = log \cup {notice}
  /\ IF phase = "up"
     THEN notices' = Append(notices, notice) /\ sent' = sent \cup {notice}
     ELSE UNCHANGED <<notices, sent>>
  /\ UNCHANGED <<oms, identities, phase, reports, seen, position>>

SendAgain(notice) ==
  /\ phase = "up"
  /\ notices = <<>>   \* bound: one extra notice at a time
  /\ notice \in sent => "redelivery" \in faults
  /\ notice \notin sent => "late notice" \in faults
  /\ notices' = Append(notices, notice)
  /\ sent' = sent \cup {notice}
  /\ UNCHANGED <<oms, identities, phase, reports, seen, position, orders, executed, log>>

Lose ==
  /\ "loss" \in faults
  /\ notices # <<>>
  /\ notices' = Tail(notices)
  /\ UNCHANGED <<oms, identities, phase, reports, seen, position, orders, executed, log, sent>>

Route(command) ==
  \/ RouteUnregistered(command)
  \/ RouteBlocked(command)
  \/ \E b \in BrokerOrderIds : RouteAccepted(command, b)
  \/ RouteRejected(command)
  \/ RouteLost(command)

Step ==
  \/ \E command \in Commands : Route(command)
  \/ ReceiveExecutionOnce
  \/ StartupReconcile
  \/ \E report \in reports : RecoverReport(report)
  \/ RecoverDone
  \/ StartExecution
  \/ Stop
  \/ \E b \in BrokerOrderIds, notice \in Notices : BrokerExecute(b, notice)
  \/ \E notice \in log : SendAgain(notice)
  \/ Lose

Next == Step /\ UNCHANGED faults

Spec == Init /\ [][Next]_vars

-----------------------------------------------------------------------------
(* Properties.                                                             *)

Settled(c) == IF states[c] = None THEN 0 ELSE states[c].filled_quantity

ReportType ==
  [client_order_id    : ClientOrderIds,
   broker_order_id    : BrokerOrderIds,
   execution_id       : [odno : BrokerOrderIds, cumulative : Int],
   status             : {"PARTIALLY_FILLED", "FILLED"},
   filled_quantity    : Int,
   remaining_quantity : Int,
   execution_price    : {ExecutionPrice}]

\* Every variable holds a value of its type.
TypeOK ==
  /\ states \in [ClientOrderIds -> OMS!OrderState \cup {None}]
  /\ broker_to_client \in [BrokerOrderIds -> ClientOrderIds \cup {None}]
  /\ identities \subseteq ClientOrderIds
  /\ phase \in {"down", "recovering", "recovered", "up"}
  /\ reports \subseteq ReportType
  /\ seen \subseteq Notices \cup [odno : BrokerOrderIds, cumulative : Int]
  /\ position \in Aggregate!Positions
  /\ orders \in [BrokerOrderIds -> BrokerOrder \cup {None}]
  /\ executed \in [ClientOrderIds -> Nat]
  /\ notices \in Seq(Notices)
  /\ log \subseteq Notices
  /\ sent \subseteq log
  /\ faults \in FaultSets

\* Whatever is lost, repeated or retried, a client order id stands for at most
\* one order at the broker ("A second physical submission must be rejected
\* even when its fingerprint matches", environments/live/idempotency.py:21).
AtMostOnePhysicalOrder ==
  \A a, b \in BrokerOrderIds :
    orders[a] # None /\ orders[b] # None
      /\ orders[a].client_order_id = orders[b].client_order_id => a = b

\* The OMS never shows more executed than the exchange executed.
NeverOverSettled == \A c \in ClientOrderIds : Settled(c) <= executed[c]

\* Unless more goes wrong than that notices are sent again, the OMS shows
\* everything the exchange executed once the notices are drained after a start
\* that reconciled, whatever happened while it was down.
SettledWhenDrained ==
  faults \subseteq {"redelivery"} /\ phase \in {"recovered", "up"} /\ notices = <<>> =>
    \A c \in ClientOrderIds : Settled(c) = executed[c]

\* The sign with which an order's executions count in the position.
DirectionOf(c) ==
  IF \E m \in Commands : m.client_order_id = c /\ m.instrument_id = Instrument
  THEN IF \E m \in Commands : m.client_order_id = c /\ m.side = "BUY" THEN 1 ELSE -1
  ELSE 0

Ledger == INSTANCE ExactlyOnceLedger WITH
            Orders    <- ClientOrderIds,
            Direction <- [c \in ClientOrderIds |-> DirectionOf(c)],
            booked    <- [c \in ClientOrderIds |-> Settled(c)],
            held      <- Aggregate!Signed(position)

\* Settlement implements the ledger: an execution is booked at most once, in
\* the OMS and in the position together, and never before it happened.
SettlesExactlyOnce == Ledger!Spec
=============================================================================
