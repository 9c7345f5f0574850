# KOSPI200_Project: a TLA+ verification project

The repository is an automated trading system for KOSPI200 futures and options:
strategies turn market ticks into signals, a decision layer and a risk gate turn
signals into orders, an order state machine (OMS) keeps what became of them, and an
*environment* (live, virtual, paper, high-speed) executes them. The live environment
talks to Korea Investment & Securities (KIS): orders go out by REST, executions come
back over a websocket (`H0IFCNI0` notices) and, at start, from a REST inquiry
(`inquire-ccnl`). The virtual environment simulates a market and a securities firm.

This directory holds TLA+ models of these parts, the TLC configurations that check them
on small instances, and TLAPS proofs of the central facts for every instance.

| file | kind | what it is |
|---|---|---|
| `OrderStateMachine.tla` | model | the OMS, `core/oms/oms_fsm.py` |
| `MCOrderStateMachine.tla`, `oms_small.cfg` | TLC | two orders, two broker order numbers |
| `PositionAggregate.tla` | model | the live position, `live_position_aggregate.py` |
| `ExactlyOnceLedger.tla` | abstract spec | what settlement promises, live and virtual |
| `LiveSettlement.tla`, `MCLiveSettlement.tla`, `settlement*.cfg` | model, TLC | routing, startup recovery, notices and `LiveExecutionPositionBridge.settle`, with the broker as environment; composes the OMS and the position, implements the ledger |
| `RecoveryInquiry.tla` | model | `LiveExecutionRecoveryService.recover` in full: pages, normalization, prices |
| `MCLiveBooks.tla`, `books.cfg` | TLC | the position and the inquiry side by side |
| `LiveLifecycle.tla`, `lifecycle*.cfg` | model, TLC | start, stop, restart and receive of the live runtime over one shared transport |
| `RiskEngine.tla`, `DecisionArbiter.tla` | operators | `core/risk/risk_engine.py`, `core/decision/decision_arbiter.py` |
| `OrderAdmission.tla`, `MCOrderAdmission.tla`, `admission.cfg`, `priority.cfg`, `unseen.cfg` | model, TLC | from a run of the strategies, or a plan of several legs, over arbiter and risk gate to the router |
| `StrategyBasics.tla`, `Track1TailDefense.tla` ... `Track9EventOvernightInsurance.tla` | models | one strategy track each |
| `StrategyTracks.tla`, `MCStrategyTracks.tla`, `tracks.cfg` | model, TLC | the tracks side by side and what they all promise |
| `VirtualMarket.tla`, `VirtualFirm.tla` | models | the simulated market and clock; the simulated firm and the bridge |
| `VirtualEnvironment.tla`, `MCVirtualEnvironment.tla`, `virtual.cfg` | model, TLC | both put together |
| `KisAuthentication.tla`, `KisHolidays.tla`, `OptionMaster.tla` | models | tokens and their cache file; holidays and calendar; expiries and identities |
| `KisWebSockets.tla` | model | the websockets of execution notices and of market data, with the reader's side of each |
| `MarketServices.tla`, `MCMarketServices.tla`, `services.cfg` | model, TLC | the four put together |
| `*Proofs.tla` | proofs | see Proofs |
| `PROJECT.json` | index | components, runs, mutants, definition-to-line map, findings, hazards, theorems |

## Reading the exported sources

The `.py` files are exports of pages, and the export damaged them: a line that begins with
a bare word (`# order_id,` in an argument list, `# responses.append(...)` in a body) was
turned into a comment, and a `pass` was put after every block opener. The
`.md` pages in the repository (`core/oms.md`, `core/strategy.md`,
`environments/live/position.md`, `environments/live/execution.md`,
`application/composition.md`, `environments/live.md`, `_ROOT_PAGE.md`) hold the same code
intact. The models read a commented-out line as the code it comments, which is what the
pages have and what the tests require. Where it matters: `oms_fsm.py` 111-119 (read
literally, `apply_ack` stores the correlation and then raises `TypeError`),
`multi_leg_submission.py` 60, `live_runtime_tick_entry.py` 31 and 37,
`runtime_authoritative_risk_router_adapter.py` 40, `standard_registry.py` 21-29 and 46,
`holiday_provider.py` 48 and 59, `futures_execution_transport.py` 65, 126, 187 and 197,
`futures_market_transport.py` 48, 99, 103, 113 and 128, `futures_market_consumer.py` 21, 22, 25, 32
and 37, and
track 7 lines 172, 173 and 176 (intact in `core/strategy.md` 2725-2729).

## Inventory

**OMS order state machine** (`core/oms/oms_fsm.py`). State: `_states` (an
immutable `OrderState` per client order id) and `_broker_to_client`.
Operations: `apply_intent`, `register_broker_order_command`, `apply_ack`,
`resolve_execution_correlation`, `get_broker_order_command`, `apply_execution`, `get`.
Hard: acknowledgements and executions may come twice, late, or with another order's
number; the average is built from fills some of which have no price. Correct when no order
is filled beyond its quantity, an accepted order's broker id resolves to it for good, the
average is the volume-weighted one, and what was executed is never rewritten.

**Live position aggregate** (`live_position_aggregate.py`). State: side, quantity and
average price, assigned in five branches of `apply_fill`. Correct when they are together
the net of the fills.

**Order routing** (`order_router.py`, `live_execution_runtime_composition_factory.py`,
`environments/live/broker/*`, `idempotency.py`). State: reserved order identities, the
broker's connected flag. Hard: the answer may be lost after the order was accepted. Correct
when no retry creates a second order at the exchange.

**Execution settlement** (`live_execution_position_bridge.py`,
`execution_event_deduplicator.py`, `kis_futures_execution_adapter.py`,
`kis_futures_execution_consumer.py`). State: seen execution ids. Hard: redelivery, loss, two
sources of the same execution, a refusal in the middle. Correct when each execution is
booked exactly once in the OMS and in the position.

**Execution recovery** (`live_execution_recovery_service.py`, `..._recovery_adapter.py`,
`..._recovery_transport.py`). Stateless; a start asks for the executions of the day, turns
cumulative rows into deltas against the OMS, and settles them. Hard: the exchange goes on
executing between two pages; a call may end anywhere. Correct when a completed recovery
misses nothing and books nothing twice, at the price paid.

**Live runtime lifecycle** (`live_runtime_lifecycle_coordinator.py`,
`live_runtime_production_factory.py`, `controller.py`, `hub.py`, `bootstrap.py`,
`environments/live/bundle.py`, `live_runtime_api.py`). State: started, stopping, technical
state, receive tasks of a coordinator; the controller's state, the active bundle, the
broker's connection; the registry of who owns the transport; a command lock. Hard: every
operation awaits and can fail, time out or be cancelled at each await. Correct when a
coordinator that admits a start is at rest, the transport is handed on only when nobody
reads from it, and every command ends.

**Risk engine and gate** (`core/risk/*`). State: kill switch, recorded loss of the day.
Operations: judge or reduce an order, a plan of legs all or nothing; record a loss; the
switch. Hard: several orders are judged by one view; orders on their way are in no view, and what is
held is shown by another key than the engine looks it up by. Correct when nothing is sent
that passes a limit the view could show, and nothing at all when stopped.

**Tick entry, orchestrator, arbiter, order materialization** (`live_runtime_tick_entry.py`,
`core/strategy/orchestrator.py`, `decision_arbiter.py`, `core/oms/multi_leg_*.py`,
`risk_approved_broker_command_adapter.py`). State: the enabled strategies, the context's
authoritative command. A call goes from signals to orders. Hard: one strategy of several
fails; a leg fails behind others that went. Correct when the commands of a tick do not
oppose each other and what is sent is what was signalled.

**Strategy tracks** (`core/strategy/track*.py`). State: what the strategy takes itself to
hold, counters, high-water marks, cooldowns, dates. Hard: entries, exits, rebuilds, closes
and new dates in any order, sudden prices. Correct when the record follows the signals,
gains are locked by their trailing stops, and entries are rationed.

**Virtual environment** (`environments/virtual/*`). State: the simulated clock, scenario and
replay, the firm's book, account and positions, the bridge's aggregate and deduplicator,
snapshots. Hard: two clocks and two position books, kept by different keys; stream and single steps
interleave.
Correct when ticks are in order, profit is what was traded, and the bridge settles once.

**KIS authentication, calendar, option master** (`infrastructure/kis/*`,
`core/option/option_master.py`). State: a token in memory and in a file that processes
share; holidays per year; expiries and identities. Hard: a token refused or replaced by
another process, a half loaded year, a reload that contradicts. Correct when the token
handed out is usable, a load that succeeded is complete as far as its pages can reach, and an
option is never taken to expire before it does.

**Websockets** (`futures_execution_transport.py`; `futures_market_transport.py` with
`futures_market_consumer.py`, `kis_index_futures_market_ws_adapter.py` and
`kis_futures_market_data.py`). State: the socket, the subscription and the key of the session;
the last tick. Operations: connect, subscribe, receive, close. Hard: a receive that is woken,
closed under and resumed; a connect half done. Correct when notices are decrypted with the key
of their own session, no open connection is lost sight of, and prices do not go back.

**Safety gate**, **contracts**: as far as the parts above see them.

Not modelled: Control Tower read side, paper and high-speed environments (see the end).

## How the parts interact

    tick -> strategies -> arbiter -> commands -> risk gate -> OrderRouter.register_and_route
            plan of legs ------------------------^              |  apply_intent, register command
                                                                v
          OMS <---------- ack ---------- LiveBrokerAdapter.submit -- REST --> KIS
           ^                                                              |
           | apply_execution         websocket notices <------------------+
    LiveExecutionPositionBridge <--- KISFuturesExecutionConsumer          |
           |                    <--- LiveExecutionRecoveryService <- REST inquiry
           v
    LivePositionAggregate -> the risk gate's view of the next tick

`LiveRuntimeLifecycleCoordinator` starts the controller and bundle, runs the recovery,
connects and subscribes the websocket, and undoes this on stop. The live program is one
asyncio thread: a function without an await is one atomic step, and the models cut the code
into actions at the awaits (`LiveLifecycle`) or, where nothing awaits, at the
outcomes of a call (`LiveSettlement`, `OrderAdmission`). Processes share only the
token cache file (`KisAuthentication`).

## The modules

### OrderStateMachine

`states` and `broker_to_client` are the two dictionaries; absent keys are `None`. One
action per mutating operation. An operation that raises changes nothing and so is a step
that is not enabled; its guard is an operator (`IntentAdmitted`, `CommandAdmitted`,
`AckAdmitted`, `ExecutionAdmitted`) that `LiveSettlement` uses where the caller sees
the exception. Averages are fractions, so exact. `notional` is a history variable. The
model keeps two things of the code: an acknowledgement may be repeated with another number
as long as nothing has executed, leaving the old number correlated; and an execution
report's own status is taken over without a comparison with the remaining quantity.

Run `oms_small`: two client ids, two broker ids, quantities 0..3, two prices, commands of
both sides and both kinds of identity; every call is tried in every state. Two orders and two
numbers are the least with which a number can be confused; three is the least quantity
filled in three different ways; two prices distinguish a weighted from an unweighted average.

- `FillsWithinOrder`: fills stay within the order and agree with the status.
- `AcknowledgedOrdersCorrelated`: the number an accepted order carries resolves to it.
- `AverageIsVolumeWeighted`: over any sequence of priced fills.
- `ExecutedHistoryIsFixed`, `CorrelationIsWriteOnce`: no call rewrites the command, number or
  quantity that fills were booked under, or moves a number.

`CorrelationImpliesAcknowledged` (the two dictionaries agree on who was acknowledged) is
part of the inductive invariant and proved.

### PositionAggregate

`Fill` is the body of `apply_fill`, one alternative per branch. `net` and `paid` are
history. Run `books`, on the side of the position: every sequence of up to four fills (`MaxFills`, the only bound)
with quantities 0..3 and prices 0, 2, 5, 7. `SignedQuantityIsNet`: side and quantity are
bought minus sold. `AverageWithinPrices`: the average lies between the prices of the fills
that opened or added to the present position.

### ExactlyOnceLedger and LiveSettlement

The ledger has three variables: what the exchange executed, what is booked per order, and
what is held. `Execute` and `Book` are its only steps; `Book` moves the order and the
position together, never beyond what was executed.

`LiveSettlement` is the code between a command and the position. `states`,
`broker_to_client` are the OMS (`OMS == INSTANCE OrderStateMachine`), `identities` the
reserved identities, `seen` the deduplicator, `position` the aggregate, `phase` where a
start is, `reports` what `recover` has still to settle. The broker is external: `orders`,
`executed`, `log` are at the exchange, `notices` is the websocket, `sent` what went over
this subscription.

One call of `register_and_route` is one step with five outcomes: `RouteUnregistered`,
`RouteBlocked` (not connected, identity taken, or the gate refuses after the reservation),
`RouteAccepted`, `RouteRejected`, `RouteLost`. `ReceiveExecutionOnce` is one frame from
`recv` to the bridge. `StartupReconcile` normalizes all rows (all or nothing),
`RecoverReport` settles them one at a time, `RecoverDone`, `StartExecution` and `Stop` end
the phases. `recover` does not await, so nothing else of the program runs while it settles
(`Idle`); the broker may execute meanwhile. There is one execution price; rows are taken
at one moment (prices and pages are in `RecoveryInquiry`); the safety gate may answer
anything; a broker that has `disconnect()` is presumed.

`faults` is what the broker and network may do, chosen once from `FaultSets`. Run
`settlement` chooses between two: redelivery alone, and everything but `"late notice"`.

- `SettledWhenDrained` (in a behaviour with no fault but redelivery): after a start that
  reconciled, once the notices are drained, the OMS shows what the exchange executed,
  including what happened while the program was down.
- `SettlesExactlyOnce`: in every behaviour, settlement implements the ledger: nothing is booked
  twice or in one place only. The ledger does not say that everything is booked: an execution
  between the snapshot and the subscription, or one whose identity was consumed before the OMS
  refused it, stays unbooked until a reconcile, and only `SettledWhenDrained` asks for it, after
  a start without such a gap.
- `AtMostOnePhysicalOrder`: lost answers, false rejections and retries never produce two
  orders for one identity.

Bounds: an order to buy three, one to sell two, one whose identity is not that of its
instrument; two order numbers, fills of one or two, two times, one extra notice on the
channel at a time. Restarts and retries are not bounded. Run `settlement_late` adds the
excluded fault and ends in a counterexample (Findings).

### RecoveryInquiry

One `recover` call in full. `executions` is what the exchange has executed, price by price;
`book` what the OMS shows of it; `call` the pages read so far or the reports still to be
settled; `answered` remembers what was executed when the last completed call began. The
exchange executes between any two steps, and the table of rows is latest first, so a
continued inquiry may read a row again that has grown meanwhile (`Starts`). The table
is given by the place of each order, the number of orders with executions not before it. `Normalized`
is `normalize` with its two carried maps; `SettleReport`, `SettleRaises` and `Return` are the
loop over the reports. An average is represented by the sum paid.

Run `books`, on the side of the inquiry (a behaviour of `MCLiveBooks` is of the one or the
other, which share no state): four orders (one not sent by this process), one row per page,
three pages, an order of three at two prices: a row is read three times, the page limit is met,
and a delta price is made of two averages.

- `RecoveredExactly`: a call that returns has booked all that was executed when it began, and
  what is booked, together with what its reports are about to book, was executed.
- `BookedAtWhatWasPaid`: an order of which everything is booked is booked at what was paid.

Here an execution arrives as a notice or is left to the recovery; the two for one
execution are in `LiveSettlement`.

### LiveLifecycle

Variables are those of the code: `started`, `stopping`, `technical` and `receiving` of each
coordinator; `state`, `active`, `connected` of its controller, hub and broker; `owner` and
`release` of the ownership registry; `transport`, shared by all coordinators; and
`command`, the await at which each caller's command is suspended. The lock of the Control
Tower API is one per coordinator (`LockFree`). An action runs from one await to the next:

    start:  StartExecution -> "connecting" -> "subscribing" -> idle
                               any failure  -> "cleaning" -> idle
    stop:   StopStarted -> "closing" -> "draining" -> idle
                     DrainTimeout -> "cancelling" -> "draining again" -> idle
    restart: stop -> "restarting" -> start

`Failures` lists what may go wrong; `Cancel` cancels the task at whichever await it
stands. Approximations, all towards more behaviours: awaiting the close of a
transport without a socket does not switch tasks in asyncio but may here; between the stop
and start of a restart the code does not await, the model has the point "restarting".
`BrokerDisconnects` says whether the broker has `disconnect()`; the runs presume it.

Run `lifecycle`: two coordinators over the one transport, two callers each, a receiver, all
seven failures; deadlock is checked.

- `StartedMeansRunning`: a coordinator that takes receives has a runtime under it, whatever
  another command has cleaned up.
- `AdmittedMeansQuiescent`: one that would admit a start has nothing left of the last run.
- `ReleasedWhenDrained`: the transport is given up only when nobody reads from it.
- `CommandsEnd` (liveness): a command that has the lock gives it back.

**Fairness.** `FairSpec` adds weak fairness of `Progress(c, k)`, the steps a suspended command
takes on its own. The code justifies it: connect has `open_timeout`, close of a
websocket has a close timeout, both waits in stop are `asyncio.wait_for` with a timeout, and
everything else is run-to-completion code of the event loop. Nothing is assumed of callers,
receivers (a receive may hang for ever) or cancellation. No other model needs fairness: the
rest of the program is driven by calls nobody is obliged to make.

### RiskEngine, DecisionArbiter, OrderAdmission

`RiskEngine` is `evaluate_order` as a function of the order, the engine's state and the view
(`ApprovedQty`); margins are proportional to the quantity (`MarginUnit`, the external margin
engine), ratios are percent. `DecisionArbiter` is the arbitration as sets: a signal
`Claims` its instrument when none comes before it; `Ranked` is the order of the commands.

`OrderAdmission` strings them together. `Tick` is one `process_tick` up to its commands:
every run of the strategies (`Runs`: each fails, is quiet, signals, or yields a signal that
does not convert, which aborts the tick), collected, arbitrated, turned into commands, with
one view of the account and the positions. `Group` is `submit_multi_leg_intents` behind
`admit_multi_leg_intents`. `Deny`, `Route` and `Fail` work off the commands one by one. What
the broker does to open orders, losses, the kill switch and enabling come between calls: a call
does not await, so neither a loss nor the switch arrives in the middle of one.

Three seams pass on less than they judge, and the model keeps them as they are.

- `Projected`: a command the context holds for a tick (`template`) is compared with the judged order by
  id and quantity only; it goes on its own instrument and side, at the judged quantity.
- `PositionsShown` and `KeyOf`: the source shows positions by `instrument_id`, the engine looks
  them up by `get_instrument_key()`. Of what its key does not find the engine takes a single
  holding, or none (`Current`).
- `Submitted`: a plan goes leg by leg at the quantities of its intents, all or none, reduced or
  not.

Run `admission`: two strategies under the ids they register with, two instruments with keys
that are no ids (`MCKeyOf`) and a contract of each held at first (`MCOvernight`), quantities
one and two, legs of two, position limit and order limit two, a loss limit of one, a context
with no command or any one-lot command under the first id of the tick (`MCTemplates`), one tick
number, one plan, two accepted orders. Two signals of either side and size on one instrument
meet, an order is judged while another is on its way, a plan is cut after its first leg, a leg
is reduced, a holding is not found, and a command of another side goes in the place of the
order that was judged.

- `Arbitrated`: approved commands do not oppose each other (`NoOpposedCommands`), and each
  rejected signal gave way to a better one (`RejectedForBetter`).
- `ExposureExplained`: the position and every part of what is open stay within the limit on
  each instrument of which every order was judged as it went and by what was held (for order
  limits up to the position limit). `history` keeps the others: `blind`, where an order was on
  its way, a context's command of another instrument or side went, or a reduced leg went whole;
  `unseen`, where a holding was not found by its key.
- `NoHoleInGroup`: a leg goes only behind all legs before it.
- `SentAsSignalled`: an order of a tick has the id of one of its approved signals and at most its
  quantity, and its instrument and side unless the context holds a command of its own; that one
  goes at most once, and no other order of a tick beside it.
- `StoppedMeansSilent`: with the kill switch on or the loss at its limit nothing is sent.

Runs `priority` (`HedgesFirst`) and `unseen` (`LimitIsMandatory`: the limit without the exception
for unseen holdings) end in counterexamples (Findings).

### The strategy tracks

One module per track with the same interface: `clock` (date and time of the last input, which
never goes back), `state` (the record or the fields of the strategy), `signals` (what the last
evaluation emitted) and `history`. `Inputs` holds market inputs at the thresholds of the code;
greeks, volatilities and z-scores are inputs, formulas that turn them into numbers are not
modelled. An evaluation is one action, cut into alternatives where the code returns.
`StrategyTracks` runs one of them per behaviour (they share no state) and states
what they promise together:

- `BeliefFollowsSignals`: the strategy's own record is the net of its signals
  (`BeliefIsSignalled`: tracks 1 and 7) and moves only with them (`BeliefMovesWithSignals`:
  tracks 8 and 9), within a date. For the strangle of track 8 that includes what clears the
  record, the profit taken and the flattening at the expiry: an exit without its signal
  breaks the property. Outside it are `reset` and the drop on a new date, the one by a call from
  outside, the other see Observations.
- `StopsHonoured`: a position with an armed trailing stop that outlives a tick has given back
  less than the stop allows (`GainLocked`), what outlives a tick is inside its stop and
  target (`WithinBarriers`), and the high-water mark is that of the present position
  (`MarkOfPresentPosition`).
- `EntriesRationed`: how often, until when, and how soon again (`Rationed`,
  `FlatAfterClose`, `CooldownRespected`).

Run `tracks`: two dates (three expiry distances for track 8), a handful of prices each side
of each threshold, counters of the code or two to five (`MCStrategyTracks` holds the values; the thresholds of
the code itself, such as the stop distances and the trailing ratios, are definitions of the
track modules). Date and time bound nothing else: any number of ticks at one time is allowed.

### The virtual environment

`VirtualMarket`: `sequence`, `clock` and `elapsed` (the controller's and the provider's time),
`replay`, `stream`. `Step` and `StreamNext` take a tick of the replay or make one.
`VirtualFirm`: `account`, `book`, `executions` of the firm; `arriving` the report between the
broker and the bridge; `aggregate`, `seen` of the bridge; `snapshot`. `Submit` matches,
books and values in one step, `Settle` is the rest of the bridge's `submit`; `Abandon` is a
caller that does not come back. The two books have two keys: the firm books a command under its
symbol, that of the instrument's identity (`SymbolOf`), the bridge is of one `Instrument`, so
contracts on one underlying are one position of the firm. `VirtualEnvironment` couples them: the firm processes each
tick before anything else.

Run `virtual`: two scenario ticks, a replay of two, sleeps that round down, up to even and
over several tick steps; three executions of one and two contracts in three instruments, two
of them of one symbol, a snapshot. Prices are multiples of 720, so averages stay whole. The constraints `Apart` and
`Third` of the MC module keep trading, stream control and the bundle's flags from being
multiplied with each other, which touch only by tick prices.

- `MarketInOrder`: replayed ticks come once and in order (`ReplayInOrder`), scenario ticks
  with growing numbers and times (`ScenarioInOrder`), and the clock is the ticks and sleeps
  together (`ClockAccountedFor`).
- `AccountIsTrue`: realized and unrealized profit is the money that moved plus what is held at
  the last price (`ProfitIsTraded`), and the free margin is that of the present positions
  (`MarginIsCurrent`).
- `BooksAgree`: the firm's position in the symbol of the bridge's instrument and the bridge's
  aggregate are the same.
- `SettledOnce`: the bridge implements `ExactlyOnceLedger`.

`ProfitIsTraded` and `BooksAgree` name the exceptions the code has (closing more than is
held, a restore, a lost report; for `BooksAgree`, an executed order for another contract of the
symbol).

### KisAuthentication, KisHolidays, OptionMaster, KisWebSockets, MarketServices

`KisAuthentication`: one manager per process; issuing takes two steps because the manager has
the token before the file does. `KisHolidays`: a load asks page by page, and may end anywhere;
`CanWalk` is whether a strict calendar answers for every day of a walk. `OptionMaster`: a
master file is a sequence of entries; a load updates the lookup first and the identities
one by one. `MarketServices` composes them as `create_production_option_master` does.

`KisWebSockets`: a connection is a session with a number; `socket`, `subscription`, `crypto` and
`shown` are what transports and provider keep, `awaited` is where a suspended `connect`,
`subscribe` or `start` stands, `reading` and `ready` are the tasks in `recv` and the order in
which the event loop resumes those a frame has woken. `network` holds the servers' side. The
actions are the steps between awaits; any of them can fail or be cancelled (`StreamFails`,
`Leave`). That a websocket has one reader, that a cancelled receive loses no frame, and that the
server sends the key before the first notice and trades in order is external. An execution
connect finds no receive under way, which is `AdmittedMeansQuiescent` of the lifecycle; the
market stream has no such guard and the model gives it none.

Run `services`: two processes, lifetimes of one and two, a calendar of two years of which
the first weekly option of the second expires in the first, five master files, pages of five
days and at most three: three pages cover the first year and end before the last holiday of
the second, so that the page limit is what ends its load. Four loads and forced token calls (`MaxOperations`) suffice for each
pair of orders of calendar load, master load and reload. Of each stream there are two sessions,
two readers and two trades: a reader of the old session, one of the new, and an order to get
wrong. The constraint `Apart` keeps the streams from being multiplied with each other and with
the loads, with which they share the credentials only; and it stops the clock once a master
file has been read, since a page that needs an expired token arrives or fails as it does
without one.

- `TokensUsable`: a caller is handed a token that is valid or was just issued
  (`HandedUsable`), and a valid one is given up only for a newer one (`KeepsWhatIsValid`).
- `SuccessMeansComplete`: a calendar load that ended as a success has every holiday of its year
  up to the end of the last page it may ask for (`Reach`). The loop of 15 pages
  (`MaxPages`) ends a longer load as a success too; what it has not read it does not have.
- `ExpiriesErrLate`: whichever part of the calendar was loaded when, an option is not taken to
  expire before it does (`NeverExpiresEarly`), the lookup is never later than the identity
  (`LookupNeverLater`), and an identity registered over a calendar that is complete up to
  its nominal day is right (`SoundWhenComplete`).
- `StreamsSound`: a notice is given out only as its own session's key decrypts it
  (`NoticesReadable`), although a reader woken before a close may leave the old key behind it;
  no open execution connection is lost sight of (`ConnectionHeld`); and the price shown never
  goes back unless a market stream was opened beside another (`PricesMoveForward`).

## Findings

Each has a run that TLC must end with a counterexample; PROJECT.json quotes the line
contradicted.

1. `settlement_late`: recovery and notice name one execution differently (order, cumulative
   quantity and average against hash of the frame), so the deduplicator cannot tell that they
   are the same, and it is booked twice unless the quantity check refuses it.
2. `lifecycle_shared`: stop gives up the claim on the transport, a second start does not
   take it again, and the registry lets a second coordinator in.
3. `priority`: the arbiter's map names tracks `Track1`, `Track5`; the orchestrator
   arbitrates by the ids of the registered strategies, which are not among them.
4. `unseen`: positions are shown by instrument id and looked up by
   `FUTURES:<symbol>` or `OPTION:...`; with two holdings neither is found, each order is judged as
   the first of its instrument, and the mandatory position limit is passed.

### Observations

What the models show besides, kept as the code has it:

- Settlement: two executions with equal frames are one to the deduplicator (the second is
  booked by the next reconcile); an order for another instrument than the aggregate's is
  refused after its identity is consumed and the OMS updated; a FILLED or foreign row aborts
  a whole reconcile (`tests/integration/test_live_execution_recovery_service.py:52` recovers a
  second time with a stubbed correlation); the inquiry goes on only at `tr_cont` "M"
  (`_ROOT_PAGE.md:16925` says "M / F"); a page limit raises and books nothing.
- Lifecycle: the live broker adapter has no `disconnect()`, so with it every stop ends in
  `STOP_CONTROLLER_FAILED` (`BrokerDisconnects = FALSE`).
- Admission: strategies are not told of denials; one signal that does not convert aborts the
  tick although the orchestrator isolates failures; recorded and realized losses are added,
  which is conservative; a position over the limit cannot be reduced by a smaller closing
  order; a single holding stands in for any instrument; a stale command in the context
  goes on its own side; the gate's reduced quantities of a plan are returned and not used, so
  its legs go whole (`canonical_order_command_order_intent_contract_comparison.md:35` has the
  gate determine the quantity); a failing leg leaves earlier ones sent; the arbiter's instrument key
  ignores symbol and expiry.
- Tracks: the first tick of another date drops a held strangle (8), event insurance (9) or
  spread (3) without a signal; a strangle is entered 15 days or more before its expiry, so the
  reassessment from D-4 on (`core/strategy.md:3058`) never has one; track 3
  enters with two and closes with one; `reset` of track 7 clears the skew.
- Virtual: a call and a put on one underlying are one position of the firm, which
  `VSSFPositionAggregateAdapter` shows as that of an instrument; what a closing order exceeds is dropped by the firm and reversed by the aggregate;
  a snapshot lacks the realized profit and leaves margins stale until the next valuation; a
  denied order makes the bridge fail; margin is judged by the requested price, of closing
  orders too; a stream counts replayed ticks; a single step does not ask whether the market
  runs; after a cleared replay tick numbers may repeat replayed ones.
- Services: a year counts as loaded from its first page on, also when a later page fails, and a
  strict calendar then answers for it (`infrastructure/kis.md:457` says a failed response is not
  silently converted); the fifteenth page ends a load as a success; a strict weekly failure may fall back to a
  monthly reading; a conflicting reload updates the lookup and not the identity; two
  processes may write the cache in the wrong order, and the write is not atomic.
- Websockets: the market transport's connect is not guarded, so a start that fails after it
  keeps its connection open and a retry leaves it behind, still sending; `receive_once` raises
  for each quote of a stream it has itself subscribed to, and for each control message; a tick
  is marked fresh and stays so whatever time passes.

## Mutants

Every property of a passing run is tested against a plausible bug. A definition named
`...Slip` is a wrong variant of the definition that follows it; nothing uses it, and putting
it in the place of the right one must make TLC report the property. PROJECT.json lists the
pairs under "mutants".

## Proofs

All theorems hold for every value of the constants that satisfies the named assumptions of
the modules (`OMSAssumption`, `PositionAssumption`, `SettlementAssumption`,
`RiskConfigAssumption`, `AdmissionAssumption`, `LifecycleAssumption`, `MarketAssumption`, `FirmAssumption`,
`AuthAssumption`, `HolidayAssumption`, `OptionAssumption`, `ReachAssumption`,
`SocketAssumption`, `ServicesAssumption`, `InquiryAssumption`, and one of each track in `StrategyTracks`) and the
hypotheses its statement names; TLC evaluates the assumptions in every run. Each module proves that an
inductive invariant holds initially, is kept by every action, one lemma or step per action,
and implies the property.

`OrderStateMachineProofs`. The invariant `IInv` is `TypeOK` with the three state properties
of the run, `CorrelationImpliesAcknowledged` and `NotionalTracksFills`. It is needed as
a whole: that an acknowledged order stays correlated depends on a number being refused to a
second order, which depends on the correlation agreeing with the orders. Lemmas `IntentStep`,
`CommandStep`, `AckStep` and `ExecutionStep` take one operation each; `WeightedCorrect` is the
arithmetic of the average. Results: `TypeCorrect`, `NeverOverfilled`,
`AcknowledgedStayCorrelated`, `CorrelationAgrees`, `AcknowledgedIdsDistinct`,
`AverageCorrect`, and the action properties `CorrelationFixed` and `HistoryFixed`.

`LiveBooksProofs`, the position and the inquiry. `FillMovesSignedQuantity` takes the five
branches of `apply_fill`, `BelowAverage` and `AboveAverage` the new average between its
bounds. Results: `PositionIsNet` and `AverageIsBounded`, for any number of fills.
Of the inquiry, `InquiryTypeCorrect`, `RecoveryIsExact` and `BookedTrulyPaid` hold for any
orders, quantities, prices, page lengths and page limits, and whatever is executed between two
pages. `InquiryInv` says that books, rows and reports tell only what was executed and, where
they tell all of it, also its price (`AsExecuted`); that the rows of one order never go back
(`Read`); and that the pages read leave none behind (`NoneBehind`): an order that is due and
has no row comes after the last row read. That this lasts needs the last row's place to
be no earlier than the number of rows, so that from either point at which an inquiry may go on
(`StartsAreClose`) the next page leaves none out (`PageLeavesNone`), though other orders come
in before it; `TableListsAll` says that each order has one place. Of the reports it says that
those of an order count on from one another and the first from the books (`CountOn`), hence
that the first is never taken for one already seen (`ReportBooks`), and that what was due is
booked or about to be (`Reaches`). Sums, and the two maps `normalize` carries, are folds: a
fold is the last of a sequence of partial results (`FoldExists`), and what holds of it is
derived by induction over the numbers in the form of sets (`Climbs`). TLC checked `InquiryInv`
on the constants of run `books`, and with pages of two rows, before it was proved.

`LiveSettlementProofs`. `NoSecondPhysicalOrder`: `SubmissionInv` says that the identity of
every order at the broker is reserved, which restarts do not undo and without which the
guard of a send means nothing. `BooksMoveTogether` is the part of the ledger refinement that
ties the two books to each other: every step leaves both alone or moves one order and the
position by the same signed amount, by an identity that had never been used. `BooksInv` says
what a refusal in the middle would have to break: the command of an order is its own and for
its whole quantity, and a report to be recovered names the order its number is correlated with.
`SettlementTyped` adds the types (`TypedInv`, with `Priced`: an open position has an average
price, which the types alone do not say and a further fill needs). `SettlementIsLedger` is
the whole refinement. `LedgerInv` says of every order at the broker that what is booked of
it and the units of the notices sent on this subscription and not yet seen (`Unbooked`) do
not pass what was executed, and the same of a report still to be settled; that a report and
a notice are never under way together (`ChannelsFit`); and that a number is correlated only
with the order that has it. The units of a set of notices are the elements of
`UnitsOf`, so the sums are cardinalities and need no induction. Its hypothesis
`NoLateNotices` is that no behaviour has the fault `"late notice"`; it holds in run
`settlement`, and run `settlement_late` shows that without it the theorem is false.
`SettledAfterDrain` is the converse, for a behaviour in which nothing worse happens than
redelivery: `CalmInv` turns the bound into an equation, phase by phase (`Owed`), says that the
order behind every order at the broker can be settled as far as the broker executes it
(`OrderFits`), that an identity of the inquiry in `seen` was booked up to its cumulative
quantity, and that every notice sent and not seen is still on its way (`IdentitiesFit`).
TLC checked `LedgerInv` and `Calm => CalmInv` on the constants of run `settlement` before
they were proved.

`OrderAdmissionProofs`. For any strategies, instruments, quantities, limits and number of
ticks. `StoppedDaySendsNothing`: `AdmissionInv` says what keeps a judgement true until the
order goes out, that the view of a tick in progress is still the present one and that a plan
in progress was admitted on a day not stopped since. `ArbiterNeverOpposes`: of the signals of
any one tick, the approved ones agree. The queue needs more: `EveryRankIsTaken` says that the
sort of the arbiter, modelled by counting what comes before, is a permutation, so that the
queue of commands is the set of approved signals and no more; `QueueInv` types trades and
queue and says of the tick and of the group in progress what `ArbitrationHolds` and
`OrdersAreSignalled` rest on; `PlanInv` says of every place of a plan where its leg stands,
which is what makes `NoLegIsSkipped` inductive, and `IdsOfTicks` keeps the ids of a later tick
from repeating one of the plan, and says that beside a command of the context no other order of
a tick was ever sent. `ExposureIsExplained` is about numbers: `LimitInv` says that on
an instrument that is neither blind nor unseen, position and open quantity stay within the
limit; `Seen` says of an instrument that its key finds what is held of it, and `LegsFit` that each leg
of a plan in progress that is not excused fits what is held. A sum over open orders is
`SumIsNatural` and, for at most one order, `ExposureOfOne`. Its hypothesis `MaxOrderQty <= MaxPositionPerInstrument` holds for the
default configuration (50 and 100, risk_config.py:21,24) and is needed: with an order limit
of 3 and a position limit of 2, TLC finds a sale of 3 of a flat instrument admitted because the
view's only position is of another.

`LiveLifecycleProofs`. `LifecycleInv` is mutual exclusion of the commands of a coordinator
(`Serialized`) and the condition (resting, starting, serving, halting, failed) the
await of the one command requires of its coordinator (`Conditioned`). Results: `LifecycleTyped`, `StartedIsRunning`, `AdmittedIsQuiescent`,
`ReleasedIsDrained`, for any number of coordinators, callers and receivers and any failures.

`VirtualEnvironmentProofs`. Every property of the virtual run, for any symbols, orders, prices
and snapshots, without the constraints `Apart` and `Third`. `MarketStaysInOrder`: the invariant
adds the types and the moment of the last tick to the three parts of the property.
`FirmAndBridgeAgree`: `FirmInv` says that while a report is arriving
the firm is ahead of the bridge by exactly that report (`AheadByArriving`), which is not yet
in the deduplicator, as long as no other contract of the bridge's symbol was executed; `OneRule`
is where the two ways to update a position coincide.
`EnvironmentTyped`: averages stay natural numbers because the firm denies an order without a
positive price. `BridgeIsLedger`: what is booked of a ticket and what is arriving never pass
what the firm has executed (`BookedFits`); the count of executions is a recursive function
over the reports, and `UnitsGrow` is what one more report does to it.
`MarginStaysCurrent` holds without a hypothesis: every step that moves the account but a restore
ends in a valuation, and valuing twice is valuing once (`ValuedTwice`). `AccountStaysTrue` rests
on `Traded`: the firm holds what it bought less what it sold, and has realized what it was paid
and what is still held cost. `OneOrder` is the arithmetic of one order; that a total over the
symbols is linear (`TotalIsLinear`) and moves with one of its terms (`TotalMoves`) is derived by
induction over sets of symbols (`Exhausts`). Its hypothesis `WholeAverages` says of a behaviour that no
average is rounded: the code averages in floating point, the model in whole points, and with
an average that is rounded down profit is off by the remainder. The behaviours of the run
satisfy it, since its prices are multiples of 720.

`StrategyTracksProofs`. The four promises of the tracks, for every feed: any prices, profits,
spreads, quantities and days, so also for ticks that jump over a stop. `TracksInv` is one
inductive invariant per track. What the properties need beyond themselves: that the hedges of
a date are the counter of that date (1); that what remains of a cooldown is its length less
the ticks gone by, and that a late position is flat on the date of the clock (3); that an armed
stop has a price it was judged by (5); that the mark of an unarmed stop is zero (6); that an
order waiting for its limit has not fallen back yet (7); that a held strangle is of the clock's
date (8); that what has not been done today has no signal (9). Tracks 8 and 9 evaluate in five
parts, each on what the part before left: `StrangleChain`, and `EventDone` with `EventMoved`,
say what holds of the state and the signals so far, one lemma per part. `FallenMonotone` is
why the mark of track 6, which follows the peak at one percent's distance only, still stops
in time: the graded trailing ratio never loosens as the mark rises. Results: `TracksTyped`,
`StopsAreHonoured`, `BeliefIsOfSignals`, `EntriesAreRationed`.

`MarketServicesProofs`. Every property of the services run. `TokensStayUsable`: `AuthInv` keeps
test tokens out of the managers and ties a pending call to the token being written;
`AskPromise` is what each call of one manager does, whatever the others did.
`StreamsAreSound` has both websockets in use, which the run does not (`Apart`), and no
bound on readers, sessions or trades: `SocketInv` says which sessions a transport and a
reading task may still know (`LatestInUse`), when a key may be out of date (`KeysFit`: never
beside a notice of the last session) and, for prices, that the tasks the event loop will
resume stand in the order of the trades they hold (`WokenInOrder`), the last of which is no
newer than the frame not yet read (`UnreadIsNewest`) nor that than what the feed sends next
(`FeedIsLatest`). `SuccessIsComplete`: of the year being loaded every holiday before the page
to come is known (`KnownBefore`), every page but the last is full, and page n begins at least n - 1
pages after the first day (`PagesInv`), less the day each shares with the one before, so that
the limit of the loop ends a load at `Reach` and no earlier.
It has no hypothesis: how long a page is the broker decides and the code does not check.
`ExpiriesNeverEarly`: as the calendar grows, a walk that could be answered stays answered
(`WalkStays`) and an expiry only moves earlier (`ExpiryFalls`), so what was registered bounds
what is looked up (`RegisteredLatest`). Its hypotheses are about the data, not the code:
lines that share a code are of one contract (`NamesAgree`), the days of a month are in
one year (`MonthsWhole`), and a walk back that leaves the year of its nominal day begins on
the first page of that year (`WalksStayClose`). Without the last a strict calendar could answer
for a weekly day at first, then learn of a holiday that leads the walk into a year it has not
loaded, and the name would be read as a monthly one, later than the identity
registered. The constants of the run satisfy all four hypotheses. `Climbs` and
`IntervalEnds` give induction over the numbers in the form of sets, which the prover can use.

Only model-checked: liveness under fairness (`CommandsEnd`), which the prover cannot reach.
Every other property of a passing run is stated by a theorem.
No module that is proved about declares a recursive operator.

## Plan

1. Done: all modules, runs and proofs above.
2. Models next: the safety gate's decision (`LiveOrderGate`), cancel and report queries of the
   virtual environment, the intent factory and identity resolver as pure operators.

## Not modelled, and why

Parsing and formatting of KIS messages, the cipher, HTTP and logging (pure I/O: their outcome
is a field, an error or a refusal in the models); unsubscribing from and subscribers of market
data (no code wires them to the tick entry); the Control Tower projections (functions of
the lifecycle state); paper and high-speed bundles (stubs or list replays); price, greek and
volatility formulas (floating-point data, inputs of the tracks); tracks 2 and 4 (the
repository has design text and no strategy code); `decision_arbiter_envelope_adapter`,
`order_intent_factory`, `risk_order_intent_adapter`, `option_identity_resolver`,
`track3_legging`, `position_group` and the `route_after_risk` variant (field mappings, or
called by tests only); the risk sensor's estimates; cancel and report queries, scenario shock
shapes and the feed adapter of the virtual environment; the KRX/KIS reconciliation and the
futures contract master. Days of the live runtime are not modelled: KIS reuses order numbers
from day to day, and a process that runs over midnight is outside the present models.
