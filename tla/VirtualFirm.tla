------------------------------- MODULE VirtualFirm -------------------------------
(***************************************************************************)
(* environments/virtual/market/reference_vms_market.py, the securities     *)
(* firm of the virtual environment, with the execution engine, the broker  *)
(* and the bridge in front of it.  The firm keeps positions of its own, by *)
(* the symbol its commands name, and the bridge keeps an aggregate of one  *)
(* instrument (virtual_position_aggregate.py).  A position is [side, qty,  *)
(* avg]; money is in points, so the multiplier is 1.                       *)
(***************************************************************************)
EXTENDS Integers, Sequences, FiniteSets

CONSTANTS
  OrderIds, Instruments,
  SymbolOf,        \* instrument |-> symbol of its identity, the underlying's
  Instrument,      \* the instrument of the bridge
  Sizes,           \* quantities of orders
  Limits,          \* requested prices of orders
  Spread,          \* from the underlying price to bid and to ask
  Capital,
  MaxExecutions,   \* bound: executions of the firm
  None

Sides == {"BUY", "SELL"}
Signed(side, n) == IF side = "BUY" THEN n ELSE -n
Tickets == OrderIds \X Sides
Flat == [side |-> None, qty |-> 0, avg |-> None]

Symbols == {SymbolOf[i] : i \in Instruments}

\* A report with the instrument of its command: the firm reads the symbol of
\* the one, the bridge the instrument of the other.
Reports == [exec : Nat, id : OrderIds, instrument : Instruments, side : Sides, qty : Sizes,
            price : Int]

ASSUME FirmAssumption ==
  /\ Instrument \in Instruments /\ IsFiniteSet(Symbols)
  /\ Sizes \subseteq Nat \ {0} /\ Limits \subseteq Nat
  /\ Spread \in Nat /\ Capital \in Nat /\ MaxExecutions \in Nat
  /\ None \notin Sides \cup Reports

VARIABLES
  book,            \* bid and ask; None before the first tick
  account,         \* [balance, realized, unrealized, used, free, positions]
  executions,      \* reports of the ExecutionEngine
  arriving,        \* a report between the broker and the bridge's deduplicator
  aggregate,       \* VirtualPositionAggregate
  seen,            \* execution ids of the deduplicator
  snapshot,        \* of the StateRecoveryEngine, or None
  trace            \* mark: last price of valuation; cash: paid and received by
                   \* the executions; net: bought minus sold per symbol; dropped:
                   \* a closing order was larger than its position; merged:
                   \* another instrument of the bridge's symbol was executed;
                   \* restored: "no", "since" the last valuation, "before" it; lost:
                   \* a report that never reached the aggregate; booked: units per
                   \* ticket

firm == <<book, account, executions, arriving, aggregate, seen, snapshot, trace>>

\* PaperTradingAccount.__init__
NewAccount ==
  [balance |-> Capital, realized |-> 0, unrealized |-> 0, used |-> 0,
   free |-> Capital, positions |-> [s \in Symbols |-> Flat]]

FirmInit ==
  /\ book = None
  /\ account = NewAccount
  /\ executions = <<>>
  /\ arriving = None
  /\ aggregate = Flat
  /\ seen = {}
  /\ snapshot = None
  /\ trace = [mark |-> 0, cash |-> 0, net |-> [s \in Symbols |-> 0], dropped |-> FALSE,
              merged |-> FALSE, restored |-> "no", lost |-> FALSE, booked |-> [t \in Tickets |-> 0]]

-----------------------------------------------------------------------------
\* Sum of f[s] over the symbols.
Total(f) ==
  LET sum[S \in SUBSET Symbols] ==
        IF S = {} THEN 0 ELSE LET s == CHOOSE s \in S : TRUE IN f[s] + sum[S \ {s}]
  IN sum[Symbols]

\* PnLEngine.calculate_unrealized: one price for whatever is held.
Unrealized(positions, price) ==
  Total([s \in Symbols |->
           IF positions[s].qty = 0 THEN 0
           ELSE Signed(positions[s].side, positions[s].qty * (price - positions[s].avg))])

\* MarginEngine.calculate_used_margin
UsedMargin(positions) ==
  Total([s \in Symbols |->
           IF positions[s].qty = 0 THEN 0 ELSE positions[s].qty * positions[s].avg])

\* update_tick_price
Valued(acc, price) ==
  LET unrealized == Unrealized(acc.positions, price)
      used == UsedMargin(acc.positions)
      rest == acc.balance + acc.realized + unrealized - used IN
  [acc EXCEPT !.unrealized = unrealized, !.used = used, !.free = IF rest > 0 THEN rest ELSE 0]

Weighted(old, qty, price) == (old.avg * old.qty + price * qty) \div (old.qty + qty)

\* Slip: the average is that of the two prices.
AddedSlip(position, side, qty, price) ==
  [side |-> side, qty |-> position.qty + qty,
   avg |-> IF position.qty = 0 THEN price ELSE (position.avg + price) \div 2]

\* A position grown by an order of its side.
Added(position, side, qty, price) ==
  [side |-> side, qty |-> position.qty + qty,
   avg |-> IF position.qty = 0 THEN price ELSE Weighted(position, qty, price)]

\* PositionManager.update_position: what an order closes beyond the position
\* is dropped.
Updated(position, side, qty, price) ==
  IF position.qty = 0 \/ position.side = side THEN Added(position, side, qty, price)
  ELSE IF qty < position.qty THEN [position EXCEPT !.qty = @ - qty] ELSE Flat

Gained(position, side, qty, price) ==
  IF position.qty = 0 \/ position.side = side THEN 0
  ELSE Signed(position.side, IF qty < position.qty THEN qty ELSE position.qty)
         * (price - position.avg)

\* CanonicalVSSFCommandContextProvider.build_command: the command goes by the
\* symbol of the instrument's identity.
Symbol(order) == SymbolOf[order.instrument]

\* n more units under a key.
Grown(units, key, n) == [units EXCEPT ![key] = @ + n]

Moved(positions, order, price) ==
  [positions EXCEPT ![Symbol(order)] = Updated(@, order.side, order.qty, price)]

\* apply_execution and the valuation after it; the fee is 0.0.
Executed(acc, order, price) ==
  Valued([acc EXCEPT
            !.realized = @ + Gained(acc.positions[Symbol(order)], order.side, order.qty, price),
            !.positions = Moved(@, order, price)], price)

\* Slip: the average is the price of the last fill.
AppliedLastSlip(position, side, qty, price) ==
  IF position.qty = 0 \/ position.side = side
  THEN [side |-> side, qty |-> position.qty + qty, avg |-> price]
  ELSE IF qty < position.qty THEN [position EXCEPT !.qty = @ - qty]
  ELSE IF qty = position.qty THEN Flat
  ELSE [side |-> side, qty |-> qty - position.qty, avg |-> price]

\* Slip: what an order closes beyond the position is dropped here as well.
AppliedSlip(position, side, qty, price) == Updated(position, side, qty, price)

\* VirtualPositionAggregate.apply_fill: what an order closes beyond the
\* position opens the opposite one.
Applied(position, side, qty, price) ==
  IF position.qty = 0 \/ position.side = side THEN Added(position, side, qty, price)
  ELSE IF qty < position.qty THEN [position EXCEPT !.qty = @ - qty]
  ELSE IF qty = position.qty THEN Flat
  ELSE [side |-> side, qty |-> qty - position.qty, avg |-> price]

-----------------------------------------------------------------------------
\* VirtualSecuritiesFirmRuntime.process_market_data
ProcessMarketData(price) ==
  /\ book' = [bid |-> price - Spread, ask |-> price + Spread]
  /\ account' = Valued(account, price)
  /\ trace' = [trace EXCEPT !.mark = price,
                            !.restored = IF @ = "since" THEN "before" ELSE @]
  /\ UNCHANGED <<executions, arriving, aggregate, seen, snapshot>>

Orders == [id : OrderIds, instrument : Instruments, side : Sides, qty : Sizes, price : Limits]

\* OrderBook.match_order; no price before the first tick.
Match(order) ==
  IF book = None THEN 0 ELSE IF order.side = "BUY" THEN book.ask ELSE book.bid

\* process_order answers None: no margin for the requested price, of a closing
\* order like of any other, or no price.  The bridge fails on it.
Denies(order) == account.free < order.price * order.qty \/ Match(order) <= 0

\* VirtualBroker.submit up to the report.
Submit(order) ==
  LET price == Match(order)
      report == [exec |-> Len(executions) + 1, id |-> order.id,
                 instrument |-> order.instrument, side |-> order.side, qty |-> order.qty,
                 price |-> price]
      held == account.positions[Symbol(order)] IN
  /\ arriving = None
  /\ Len(executions) < MaxExecutions
  /\ ~Denies(order)
  /\ executions' = Append(executions, report)
  /\ account' = Executed(account, order, price)
  /\ arriving' = report
  /\ trace' = [trace EXCEPT
       !.mark = price,
       !.cash = @ - Signed(order.side, order.qty * price),
       !.net = Grown(@, Symbol(order), Signed(order.side, order.qty)),
       !.dropped = @ \/ (held.qty > 0 /\ held.side # order.side /\ order.qty > held.qty),
       !.merged = @ \/ (order.instrument # Instrument /\ Symbol(order) = SymbolOf[Instrument]),
       !.restored = IF @ = "since" THEN "before" ELSE @]
  /\ UNCHANGED <<book, aggregate, seen, snapshot>>

\* VirtualExecutionPositionBridge.submit from there: the deduplicator takes the
\* identity before the fill adapter looks at the instrument, and raises.
Settle ==
  LET new == arriving.exec \notin seen
      fits == arriving.instrument = Instrument IN
  /\ arriving # None
  /\ arriving' = None
  /\ seen' = seen \cup {arriving.exec}
  /\ IF new /\ fits
     THEN /\ aggregate' = Applied(aggregate, arriving.side, arriving.qty, arriving.price)
          /\ trace' = [trace EXCEPT
                         !.booked = Grown(@, <<arriving.id, arriving.side>>, arriving.qty)]
     ELSE UNCHANGED <<aggregate, trace>>
  /\ UNCHANGED <<book, account, executions, snapshot>>

\* The caller is gone before the bridge has settled.
Abandon ==
  /\ arriving # None
  /\ arriving' = None
  /\ trace' = [trace EXCEPT !.lost = TRUE]
  /\ UNCHANGED <<book, account, executions, aggregate, seen, snapshot>>

\* run_settlement: the account is valued at the price; nothing is closed.
RunSettlement(price) ==
  /\ arriving = None
  /\ account' = Valued(account, price)
  /\ trace' = [trace EXCEPT !.mark = price,
                            !.restored = IF @ = "since" THEN "before" ELSE @]
  /\ UNCHANGED <<book, executions, arriving, aggregate, seen, snapshot>>

\* Bound: one snapshot.
CreateSnapshot ==
  /\ arriving = None
  /\ snapshot = None
  /\ snapshot' = [balance |-> account.balance, positions |-> account.positions]
  /\ UNCHANGED <<book, account, executions, arriving, aggregate, seen, trace>>

\* The realized profit, the margins and the aggregate stay as they are.
RestoreFromSnapshot ==
  /\ arriving = None
  /\ snapshot # None
  /\ account' = [account EXCEPT !.balance = snapshot.balance, !.positions = snapshot.positions]
  /\ trace' = [trace EXCEPT !.restored = "since"]
  /\ UNCHANGED <<book, executions, arriving, aggregate, seen, snapshot>>

FirmNext ==
  \/ \E order \in Orders : Submit(order)
  \/ Settle \/ Abandon
  \/ \E price \in Limits : RunSettlement(price)
  \/ CreateSnapshot \/ RestoreFromSnapshot

-----------------------------------------------------------------------------
Positions == {Flat} \cup [side : Sides, qty : Nat \ {0}, avg : Nat]

FirmTypeOK ==
  /\ account.positions \in [Symbols -> Positions]
  /\ aggregate \in Positions
  /\ account.used >= 0 /\ account.free >= 0
  /\ seen \subseteq 1..Len(executions)

\* Profit, realized or not, is what the executions are worth: the money they
\* brought in and, at the price of the last valuation, what they left.  Only a
\* closing order larger than its position, and a restore, break it.
ProfitIsTraded ==
  (~trace.dropped /\ trace.restored = "no") =>
    account.realized + account.unrealized = trace.cash + trace.mark * Total(trace.net)

\* The free margin on which the next order is judged is that of the positions
\* and the profit the account has now, unless they were restored and nothing
\* has been valued since.
MarginIsCurrent ==
  trace.restored # "since" =>
    account = Valued(account, trace.mark)

\* The account tells the truth about the past and for the next order.
AccountIsTrue == ProfitIsTraded /\ MarginIsCurrent

\* The firm's position in the symbol of the bridge's instrument and the
\* aggregate of the bridge are the same position when nothing is arriving, as
\* long as every report arrived, no other instrument of that symbol was executed,
\* no closing order was larger than its position and nothing was restored:
\* orders for other symbols in between do not come between the two.
BooksAgree ==
  (/\ arriving = None /\ ~trace.lost /\ ~trace.merged /\ ~trace.dropped
   /\ trace.restored = "no") => aggregate = account.positions[SymbolOf[Instrument]]

\* What the firm has executed of the bridge's instrument, per ticket.
ExecutedUnits(t) ==
  LET units[n \in 0..Len(executions)] ==
        IF n = 0 THEN 0
        ELSE LET report == executions[n] IN
             units[n - 1] + (IF report.instrument = Instrument /\ <<report.id, report.side>> = t
                             THEN report.qty ELSE 0)
  IN units[Len(executions)]

\* The bridge keeps the promise of settlement: each executed unit is booked at
\* most once, into its order and into the aggregate in one step.
Ledger == INSTANCE ExactlyOnceLedger WITH
  Orders <- Tickets,
  Direction <- [t \in Tickets |-> Signed(t[2], 1)],
  executed <- [t \in Tickets |-> ExecutedUnits(t)],
  booked <- trace.booked,
  held <- Signed(aggregate.side, aggregate.qty)
SettledOnce == Ledger!Spec
=============================================================================
