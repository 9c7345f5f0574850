---------------------- MODULE VirtualEnvironmentProofs ----------------------
(***************************************************************************)
(* The virtual environment, for any scenario, replays, stream length, sleeps,*)
(* symbols, orders, prices and snapshots.                                  *)
(*                                                                         *)
(* The market keeps its ticks and its time in order, beside any trading.  The*)
(* firm and the bridge agree: while a report is arriving the firm is ahead by*)
(* exactly that report.  The account is that of its positions, of its profit*)
(* and of the executions; a total over the symbols is linear, which makes what*)
(* is held worth its units at a price less what they cost.  The bridge is a*)
(* ledger: what is booked and what is arriving was executed.               *)
(***************************************************************************)
EXTENDS VirtualEnvironment, FiniteSetTheorems, SequenceTheorems, TLAPS

ReplayTicks == [seq : Nat, price : Int]
Moments == [seq : Nat, time : Nat]
Emissions == [sleeps : Nat, replayed : Seq(ReplayTicks),
              last : Moments \cup {NoTick}, before : Moments \cup {NoTick}]

MarketTyped ==
  /\ clock \in Nat /\ elapsed \in Nat /\ sequence \in 0..MaxTicks
  /\ running \in BOOLEAN
  /\ replay \in [ticks : Seq(ReplayTicks), cursor : Nat]
  /\ replay.cursor <= Len(replay.ticks)
  /\ stream \in [open : BOOLEAN, index : 0..StreamLength]
  /\ emitted \in Emissions

\* The last tick of the scenario has the present sequence number, and the clock
\* has gone on by its length at least.
LastMoment ==
  emitted.last # NoTick =>
    emitted.last.seq <= sequence /\ emitted.last.time + 500 <= clock

MarketInv ==
  /\ MarketTyped
  /\ LastMoment
  /\ MarketInOrder
-----------------------------------------------------------------------------
LEMMA InitMarket == Init => MarketInv
<1> SUFFICES ASSUME MarketInit PROVE MarketInv
  BY DEF Init
<1>1. MarketTyped
  BY MarketAssumption, EmptySeq DEF MarketInit, MarketTyped, Emissions
<1>2. LastMoment
  BY DEF MarketInit, LastMoment
<1>3. ReplayInOrder
  BY DEF MarketInit, ReplayInOrder
<1>4. ScenarioInOrder
  BY DEF MarketInit, ScenarioInOrder
<1>5. ClockAccountedFor
  BY DEF MarketInit, ClockAccountedFor
<1> QED
  BY <1>1, <1>2, <1>3, <1>4, <1>5 DEF MarketInv, MarketInOrder

\* The prefix that has been handed out grows by the tick behind it.
LEMMA PrefixGrows ==
  ASSUME NEW s \in Seq(ReplayTicks), NEW n \in Nat, n < Len(s)
  PROVE  Append(SubSeq(s, 1, n), s[n + 1]) = SubSeq(s, 1, n + 1)
<1> DEFINE left == Append(SubSeq(s, 1, n), s[n + 1])
           right == SubSeq(s, 1, n + 1)
<1>1. left \in Seq(ReplayTicks) /\ right \in Seq(ReplayTicks)
  BY SubSeqProperties, AppendProperties
<1>2. Len(left) = n + 1 /\ Len(right) = n + 1
  BY SubSeqProperties, AppendProperties
<1>3. ASSUME NEW i \in 1..(n + 1) PROVE left[i] = right[i]
  BY SubSeqProperties, AppendProperties
<1> QED
  BY <1>1, <1>2, <1>3, SeqEqual

LEMMA ScenarioTick ==
  ASSUME MarketInv, NEW price, NextMarketTick(price), UNCHANGED elapsed
  PROVE  /\ clock' \in Nat /\ sequence' \in 0..MaxTicks
         /\ emitted' \in Emissions
         /\ LastMoment' /\ MarketInOrder'
<1> DEFINE moment == [seq |-> sequence + 1, time |-> clock]
<1>1. /\ sequence < MaxTicks
      /\ sequence' = sequence + 1
      /\ clock' = clock + 500
      /\ UNCHANGED replay
      /\ emitted' = [emitted EXCEPT !.before = emitted.last, !.last = moment]
  BY DEF NextMarketTick
<1>2. moment \in Moments /\ moment.seq = sequence + 1 /\ moment.time = clock
  BY DEF Moments, MarketInv, MarketTyped
<1> HIDE DEF moment
<1>3. /\ emitted'.before = emitted.last /\ emitted'.last = moment
      /\ emitted'.sleeps = emitted.sleeps /\ emitted'.replayed = emitted.replayed
      /\ emitted' \in Emissions
  BY <1>1, <1>2 DEF MarketInv, MarketTyped, Emissions
<1>4. clock' \in Nat /\ sequence' \in 0..MaxTicks
  BY <1>1, MarketAssumption DEF MarketInv, MarketTyped
<1>5. LastMoment'
  BY <1>1, <1>2, <1>3, <1>4 DEF LastMoment, MarketInv, MarketTyped, Moments
<1>6. ReplayInOrder'
  BY <1>1, <1>3 DEF ReplayInOrder, MarketInv, MarketInOrder
<1>7. ScenarioInOrder'
  BY <1>2, <1>3, <1>4 DEF ScenarioInOrder, LastMoment, MarketInv, MarketTyped, Emissions, Moments
<1>8. ClockAccountedFor'
  <2>1. /\ clock \in Nat /\ elapsed \in Nat /\ sequence \in Nat
    BY MarketAssumption DEF MarketInv, MarketTyped
  <2>2. 10 * (clock' - 500 * sequence') - elapsed' = 10 * (clock - 500 * sequence) - elapsed
    BY <1>1, <2>1
  <2> QED
    BY <1>3, <2>2 DEF ClockAccountedFor, MarketInv, MarketInOrder
<1> QED
  BY <1>3, <1>4, <1>5, <1>6, <1>7, <1>8 DEF MarketInOrder

LEMMA ReplayTick ==
  ASSUME MarketInv, NextReplayTick, UNCHANGED elapsed
  PROVE  /\ UNCHANGED <<clock, sequence>>
         /\ replay' \in [ticks : Seq(ReplayTicks), cursor : Nat]
         /\ replay'.cursor <= Len(replay'.ticks)
         /\ emitted' \in Emissions
         /\ LastMoment' /\ MarketInOrder'
<1> DEFINE taken == replay.ticks[replay.cursor + 1]
<1>1. /\ ~Exhausted
      /\ UNCHANGED <<clock, sequence>>
      /\ replay' = [replay EXCEPT !.cursor = replay.cursor + 1]
      /\ emitted' = [emitted EXCEPT !.replayed = Append(emitted.replayed, taken)]
  BY DEF NextReplayTick
<1>2. /\ replay.ticks \in Seq(ReplayTicks) /\ replay.cursor \in Nat
      /\ replay.cursor < Len(replay.ticks)
  BY <1>1 DEF Exhausted, MarketInv, MarketTyped
<1>3. taken \in ReplayTicks
  BY <1>2, ElementOfSeq
<1> HIDE DEF taken
<1>4. /\ replay'.cursor = replay.cursor + 1 /\ replay'.ticks = replay.ticks
      /\ replay' \in [ticks : Seq(ReplayTicks), cursor : Nat]
  BY <1>1, <1>2 DEF MarketInv, MarketTyped
<1>5. /\ emitted'.before = emitted.before /\ emitted'.last = emitted.last
      /\ emitted'.sleeps = emitted.sleeps
      /\ emitted'.replayed = Append(emitted.replayed, taken)
      /\ emitted' \in Emissions
  BY <1>1, <1>3, AppendProperties DEF MarketInv, MarketTyped, Emissions
<1>6. ReplayInOrder'
  BY <1>2, <1>4, <1>5, PrefixGrows DEF taken, ReplayInOrder, MarketInv, MarketInOrder
<1>7. LastMoment' /\ ScenarioInOrder' /\ ClockAccountedFor'
  BY <1>1, <1>5 DEF LastMoment, ScenarioInOrder, ClockAccountedFor, MarketInv, MarketInOrder
<1>8. replay'.cursor <= Len(replay'.ticks)
  BY <1>2, <1>4
<1> QED
  BY <1>1, <1>4, <1>5, <1>6, <1>7, <1>8 DEF MarketInOrder

LEMMA FeedKeeps ==
  ASSUME MarketInv, Feed
  PROVE  MarketInv'
<1>1. CASE Step
  <2>1. UNCHANGED elapsed
    BY <1>1 DEF Step, NextMarketTick, NextReplayTick
  <2>2. ASSUME NEW price, NextMarketTick(price), UNCHANGED <<running, stream>>
        PROVE  MarketInv'
    <3>1. UNCHANGED replay
      BY <2>2 DEF NextMarketTick
    <3> QED
      BY <2>1, <2>2, <3>1, ScenarioTick DEF MarketInv, MarketTyped
  <2>3. ASSUME NextReplayTick, UNCHANGED <<running, stream>>
        PROVE  MarketInv'
    BY <2>1, <2>3, ReplayTick DEF MarketInv, MarketTyped
  <2> QED
    BY <1>1, <2>2, <2>3 DEF Step, NextMarketTick, NextReplayTick
<1>2. CASE StreamNext
  <2>1. stream.index < StreamLength /\ stream' = [stream EXCEPT !.index = stream.index + 1]
    BY <1>2 DEF StreamNext
  <2>2. stream' \in [open : BOOLEAN, index : 0..StreamLength]
    BY <2>1, MarketAssumption DEF MarketInv, MarketTyped
  <2>3. UNCHANGED <<elapsed, running>>
    BY <1>2 DEF StreamNext
  <2>4. ASSUME NEW price, NextMarketTick(price) PROVE MarketInv'
    <3>1. UNCHANGED replay
      BY <2>4 DEF NextMarketTick
    <3> QED
      BY <2>2, <2>3, <2>4, <3>1, ScenarioTick DEF MarketInv, MarketTyped
  <2>5. ASSUME NextReplayTick PROVE MarketInv'
    BY <2>2, <2>3, <2>5, ReplayTick DEF MarketInv, MarketTyped
  <2> QED
    BY <1>2, <2>4, <2>5 DEF StreamNext
<1> QED
  BY <1>1, <1>2 DEF Feed

\* What rounding to whole milliseconds is off, in tenths.
LEMMA RoundedProperties ==
  ASSUME NEW tenths \in Nat
  PROVE  /\ Rounded(tenths) \in Nat
         /\ -5 <= 10 * Rounded(tenths) - tenths /\ 10 * Rounded(tenths) - tenths <= 5
<1> DEFINE whole == tenths \div 10
           rest == tenths % 10
<1>1. whole \in Nat /\ rest \in 0..9 /\ tenths = 10 * whole + rest
  BY SMT
<1>2. Rounded(tenths) \in {whole, whole + 1}
  BY DEF Rounded
<1>3. Rounded(tenths) = whole + 1 => rest >= 5
  BY <1>1 DEF Rounded
<1>4. Rounded(tenths) = whole => rest <= 5
  BY <1>1 DEF Rounded
<1> HIDE DEF whole, rest
<1> QED
  BY <1>1, <1>2, <1>3, <1>4

\* Full steps and the rest add up to what was slept.
LEMMA AdvancedIsSlept ==
  ASSUME NEW milliseconds \in Nat
  PROVE  Advanced(milliseconds) = milliseconds
<1>1. TickStep \in Nat \ {0}
  BY MarketAssumption
<1> QED
  BY <1>1 DEF Advanced

\* A sleep is counted, and nothing else of the history moves.
LEMMA OneMoreSleep ==
  ASSUME NEW before \in Emissions
  PROVE  LET after == [before EXCEPT !.sleeps = before.sleeps + 1] IN
         /\ after.sleeps = before.sleeps + 1 /\ after.replayed = before.replayed
         /\ after.last = before.last /\ after.before = before.before
         /\ after \in Emissions
  BY DEF Emissions

LEMMA SleepKeeps ==
  ASSUME MarketInv, NEW tenths \in Sleeps, Sleep(tenths)
  PROVE  MarketInv'
<1> DEFINE slept == Rounded(tenths)
<1>1. tenths \in Nat
  BY MarketAssumption
<1>2. slept \in Nat /\ -5 <= 10 * slept - tenths /\ 10 * slept - tenths <= 5
  BY <1>1, RoundedProperties
<1>3. /\ clock' = clock + slept
      /\ elapsed' = IF slept = 0 THEN elapsed ELSE elapsed + tenths
      /\ emitted' = [emitted EXCEPT !.sleeps = emitted.sleeps + 1]
      /\ UNCHANGED <<sequence, running, replay, stream, tick>>
  BY <1>2, AdvancedIsSlept DEF Sleep
<1> HIDE DEF slept
<1>4. /\ emitted'.sleeps = emitted.sleeps + 1 /\ emitted'.replayed = emitted.replayed
      /\ emitted'.last = emitted.last /\ emitted'.before = emitted.before
      /\ MarketTyped'
  <2>1. clock' \in Nat /\ elapsed' \in Nat
    <3>1. clock \in Nat /\ elapsed \in Nat
      BY DEF MarketInv, MarketTyped
    <3>2. clock' = clock + slept
      BY <1>3
    <3>3. elapsed' = elapsed \/ elapsed' = elapsed + tenths
      BY <1>3
    <3> QED
      BY <1>1, <1>2, <3>1, <3>2, <3>3
  <2>2. /\ emitted'.sleeps = emitted.sleeps + 1 /\ emitted'.replayed = emitted.replayed
        /\ emitted'.last = emitted.last /\ emitted'.before = emitted.before
        /\ emitted' \in Emissions
    <3>1. emitted \in Emissions
      BY DEF MarketInv, MarketTyped
    <3> QED
      BY <1>3, <3>1, OneMoreSleep, Zenon
  <2> QED
    BY <1>3, <2>1, <2>2 DEF MarketInv, MarketTyped
<1>5. LastMoment'
  <2>1. clock \in Nat /\ (emitted.last # NoTick => emitted.last.time \in Nat)
    BY DEF MarketInv, MarketTyped, Emissions, Moments
  <2>2. emitted.last # NoTick => emitted.last.time + 500 <= clock + slept
    BY <1>2, <2>1 DEF MarketInv, LastMoment
  <2> QED
    BY <1>3, <1>4, <2>2 DEF MarketInv, LastMoment
<1>6. ReplayInOrder' /\ ScenarioInOrder'
  BY <1>3, <1>4 DEF ReplayInOrder, ScenarioInOrder, MarketInv, MarketInOrder
<1>7. ClockAccountedFor'
  <2> DEFINE off == 10 * (clock - 500 * sequence) - elapsed
             offnext == 10 * (clock' - 500 * sequence') - elapsed'
  <2>1. -5 * emitted.sleeps <= off /\ off <= 5 * emitted.sleeps
    BY DEF ClockAccountedFor, MarketInv, MarketInOrder
  <2>2. /\ clock \in Nat /\ elapsed \in Nat /\ sequence \in Nat /\ emitted.sleeps \in Nat
    BY MarketAssumption DEF MarketInv, MarketTyped, Emissions
  <2>3. offnext = off \/ offnext = off + (10 * slept - tenths)
    BY <1>1, <1>2, <1>3, <2>2
  <2>4. -5 * (emitted.sleeps + 1) <= offnext /\ offnext <= 5 * (emitted.sleeps + 1)
    BY <1>1, <1>2, <2>1, <2>2, <2>3
  <2> QED
    BY <1>4, <2>4 DEF ClockAccountedFor
<1> QED
  BY <1>4, <1>5, <1>6, <1>7 DEF MarketInv, MarketInOrder

LEMMA ControlKeeps ==
  ASSUME MarketInv, Control
  PROVE  MarketInv'
<1>1. CASE StartStream \/ EndStream \/ \E on \in BOOLEAN : SetRunning(on)
  <2>1. UNCHANGED <<clock, elapsed, sequence, replay, emitted>>
    BY <1>1 DEF StartStream, EndStream, SetRunning
  <2>2. running' \in BOOLEAN
    BY <1>1 DEF StartStream, EndStream, SetRunning, MarketInv, MarketTyped
  <2>3. /\ 0 \in 0..StreamLength
        /\ stream' \in {stream, [open |-> TRUE, index |-> 0], [open |-> FALSE, index |-> 0]}
    BY <1>1, MarketAssumption DEF StartStream, EndStream, SetRunning
  <2>4. stream' \in [open : BOOLEAN, index : 0..StreamLength]
    <3>1. CASE stream' = stream
      BY <3>1 DEF MarketInv, MarketTyped
    <3>2. CASE stream' = [open |-> TRUE, index |-> 0]
      BY <2>3, <3>2
    <3>3. CASE stream' = [open |-> FALSE, index |-> 0]
      BY <2>3, <3>3
    <3> QED
      BY <2>3, <3>1, <3>2, <3>3
  <2> QED
    BY <2>1, <2>2, <2>4 DEF MarketInv, MarketTyped, LastMoment, MarketInOrder,
                            ReplayInOrder, ScenarioInOrder, ClockAccountedFor
<1>2. ASSUME NEW ticks \in Replays \cup {<<>>}, LoadReplay(ticks)
      PROVE  MarketInv'
  <2>1. /\ replay' = [ticks |-> ticks, cursor |-> 0]
        /\ emitted' = [emitted EXCEPT !.replayed = <<>>]
        /\ UNCHANGED <<clock, elapsed, sequence, running, stream, tick>>
    BY <1>2 DEF LoadReplay
  <2>2. ticks \in Seq(ReplayTicks)
    BY MarketAssumption, EmptySeq DEF ReplayTicks
  <2>3. /\ emitted'.replayed = <<>> /\ emitted'.sleeps = emitted.sleeps
        /\ emitted'.last = emitted.last /\ emitted'.before = emitted.before
        /\ emitted' \in Emissions
    BY <2>1, EmptySeq DEF MarketInv, MarketTyped, Emissions
  <2>5. MarketTyped'
    BY <2>1, <2>2, <2>3 DEF MarketInv, MarketTyped
  <2>4. ReplayInOrder'
    BY <2>1, <2>2, <2>3, SubSeqEmpty DEF ReplayInOrder
  <2> QED
    BY <2>1, <2>3, <2>4, <2>5 DEF MarketInv, LastMoment, MarketInOrder, ScenarioInOrder,
                                  ClockAccountedFor
<1> QED
  BY <1>1, <1>2, SleepKeeps DEF Control

LEMMA NextMarket == MarketInv /\ [Next]_vars => MarketInv'
<1> SUFFICES ASSUME MarketInv, [Next]_vars PROVE MarketInv'
  OBVIOUS
<1>1. CASE UNCHANGED market
  BY <1>1 DEF market, MarketInv, MarketTyped, LastMoment, MarketInOrder, ReplayInOrder,
              ScenarioInOrder, ClockAccountedFor
<1> QED
  BY <1>1, FeedKeeps, ControlKeeps DEF Next, Lifecycle, vars
-----------------------------------------------------------------------------
\* Single steps, streams, loads of replays, starts and stops and sleeps, in any
\* order and beside any trading: replayed ticks come once and in order, those of
\* the scenario with growing numbers and times, and the clock is off what was
\* slept by half a millisecond a sleep at most.
THEOREM MarketStaysInOrder == Spec => []MarketInOrder
<1>1. MarketInv => MarketInOrder
  BY DEF MarketInv
<1> QED
  BY <1>1, InitMarket, NextMarket, PTL DEF Spec
-----------------------------------------------------------------------------
(* The firm. *)

AccountTyped(acc) ==
  /\ DOMAIN acc = {"balance", "realized", "unrealized", "used", "free", "positions"}
  /\ DOMAIN acc.positions = Symbols

TraceTyped ==
  DOMAIN trace = {"mark", "cash", "net", "dropped", "merged", "restored", "lost",
                   "booked"}

HeldTyped(held) == DOMAIN held = {"side", "qty", "avg"} /\ held.qty \in Nat

BookTyped == book # None => book.bid \in Int /\ book.ask \in Int

\* Nothing has happened of what the two books are known to part by.
Undisturbed ==
  ~trace.lost /\ ~trace.merged /\ ~trace.dropped /\ trace.restored = "no"

\* What the firm has made of a report, the bridge will make of it.
AheadByArriving ==
  account.positions[SymbolOf[Instrument]] =
    IF arriving # None /\ arriving.instrument = Instrument
    THEN Applied(aggregate, arriving.side, arriving.qty, arriving.price)
    ELSE aggregate

FirmInv ==
  /\ AccountTyped(account)
  /\ TraceTyped
  /\ HeldTyped(aggregate) /\ BookTyped
  /\ executions \in Seq(Reports)
  /\ seen \subseteq 1..Len(executions)
  /\ arriving # None => arriving \in Reports /\ arriving.exec \notin seen
                        /\ arriving.exec \in 1..Len(executions)
  /\ snapshot # None => DOMAIN snapshot.positions = Symbols
  /\ Undisturbed => AheadByArriving
-----------------------------------------------------------------------------
LEMMA BridgeSymbol ==
  /\ SymbolOf[Instrument] \in Symbols
  /\ \A order \in Orders : Symbol(order) \in Symbols
  BY FirmAssumption DEF Symbols, Symbol, Orders

LEMMA InitFirm == Init => FirmInv
<1> SUFFICES ASSUME FirmInit PROVE FirmInv
  BY DEF Init
<1>1. AccountTyped(account) /\ account.positions[SymbolOf[Instrument]] = aggregate
  BY BridgeSymbol DEF FirmInit, NewAccount, AccountTyped
<1>2. TraceTyped /\ HeldTyped(aggregate)
  BY DEF FirmInit, TraceTyped, HeldTyped, Flat
<1> QED
  BY <1>1, <1>2 DEF FirmInit, FirmInv, BookTyped, AheadByArriving

\* A valuation moves money, not positions.
LEMMA ValuedKeepsPositions ==
  ASSUME NEW acc, AccountTyped(acc), NEW price
  PROVE  AccountTyped(Valued(acc, price)) /\ Valued(acc, price).positions = acc.positions
<1> DEFINE unrealized == Unrealized(acc.positions, price)
           used == UsedMargin(acc.positions)
           rest == acc.balance + acc.realized + unrealized - used
           free == IF rest > 0 THEN rest ELSE 0
<1>1. Valued(acc, price) =
        [acc EXCEPT !.unrealized = unrealized, !.used = used, !.free = free]
  BY DEF Valued
<1> HIDE DEF unrealized, used, free
<1> QED
  BY <1>1 DEF AccountTyped

LEMMA BookedAccount ==
  ASSUME NEW acc, AccountTyped(acc), NEW realized,
         NEW moved, DOMAIN moved = Symbols
  PROVE  LET after == [acc EXCEPT !.realized = realized, !.positions = moved]
         IN  AccountTyped(after) /\ after.positions = moved
  BY DEF AccountTyped

LEMMA ExecutedPositions ==
  ASSUME NEW acc, AccountTyped(acc), NEW order \in Orders, NEW price
  PROVE  /\ AccountTyped(Executed(acc, order, price))
         /\ Executed(acc, order, price).positions = Moved(acc.positions, order, price)
<1> DEFINE moved == Moved(acc.positions, order, price)
           gained == Gained(acc.positions[Symbol(order)], order.side, order.qty, price)
           realized == acc.realized + gained
           after == [acc EXCEPT !.realized = realized, !.positions = moved]
<1>1. Executed(acc, order, price) = Valued(after, price)
  BY DEF Executed
<1>2. DOMAIN moved = Symbols
  BY DEF AccountTyped, Moved
<1>3. AccountTyped(after) /\ after.positions = moved
  <2> HIDE DEF moved, realized
  <2> QED
    BY <1>2, BookedAccount
<1> HIDE DEF after
<1> QED
  BY <1>1, <1>3, ValuedKeepsPositions DEF moved

\* Where no order closes more than is held, firm and aggregate have one rule.
LEMMA OneRule ==
  ASSUME NEW held, HeldTyped(held), NEW side, NEW qty \in Nat \ {0}, NEW price,
         ~(held.qty > 0 /\ held.side # side /\ qty > held.qty)
  PROVE  Updated(held, side, qty, price) = Applied(held, side, qty, price)
<1>1. held.qty \in Nat
  BY DEF HeldTyped
<1>2. CASE held.qty = 0 \/ held.side = side
  BY <1>2 DEF Updated, Applied
<1>3. CASE ~(held.qty = 0 \/ held.side = side) /\ qty < held.qty
  BY <1>3 DEF Updated, Applied
<1>4. CASE ~(held.qty = 0 \/ held.side = side) /\ ~(qty < held.qty)
  <2>1. qty = held.qty
    BY <1>1, <1>4
  <2> QED
    BY <1>4, <2>1 DEF Updated, Applied
<1> QED
  BY <1>2, <1>3, <1>4

LEMMA AppliedTyped ==
  ASSUME NEW held, HeldTyped(held), NEW side, NEW qty \in Nat \ {0}, NEW price
  PROVE  HeldTyped(Applied(held, side, qty, price))
<1> DEFINE after == Applied(held, side, qty, price)
<1>1. held.qty \in Nat /\ DOMAIN held = {"side", "qty", "avg"}
  BY DEF HeldTyped
<1>2. CASE held.qty = 0 \/ held.side = side
  <2> DEFINE average == IF held.qty = 0 THEN price ELSE Weighted(held, qty, price)
  <2>1. after = [side |-> side, qty |-> held.qty + qty, avg |-> average]
    BY <1>2 DEF Applied, Added
  <2> HIDE DEF average
  <2> QED
    BY <1>1, <2>1 DEF HeldTyped
<1>3. CASE ~(held.qty = 0 \/ held.side = side) /\ qty < held.qty
  <2>1. after = [held EXCEPT !.qty = held.qty - qty]
    BY <1>3 DEF Applied
  <2>2. held.qty - qty \in Nat
    BY <1>1, <1>3
  <2> QED
    BY <1>1, <2>1, <2>2 DEF HeldTyped
<1>4. CASE ~(held.qty = 0 \/ held.side = side) /\ qty = held.qty
  BY <1>4 DEF Applied, Flat, HeldTyped
<1>5. CASE ~(held.qty = 0 \/ held.side = side) /\ ~(qty < held.qty) /\ qty # held.qty
  <2>1. qty - held.qty \in Nat
    BY <1>1, <1>5
  <2> QED
    BY <1>5, <2>1 DEF Applied, HeldTyped
<1> QED
  BY <1>2, <1>3, <1>4, <1>5

\* A valuation alone, at a tick or a settlement.
LEMMA ValuationKeeps ==
  ASSUME FirmInv, BookTyped', arriving = None, NEW price,
         account' = Valued(account, price),
         trace' = [trace EXCEPT !.mark = price,
                                !.restored = IF @ = "since" THEN "before" ELSE @],
         UNCHANGED <<executions, arriving, aggregate, seen, snapshot>>
  PROVE  FirmInv'
<1>1. AccountTyped(account') /\ account'.positions = account.positions
  BY ValuedKeepsPositions DEF FirmInv
<1>2. /\ TraceTyped'
      /\ trace'.lost = trace.lost /\ trace'.dropped = trace.dropped
      /\ trace'.merged = trace.merged
      /\ trace'.restored = "no" => trace.restored = "no"
  BY DEF FirmInv, TraceTyped
<1>3. Undisturbed' => Undisturbed
  BY <1>2 DEF Undisturbed
<1> QED
  BY <1>1, <1>2, <1>3 DEF FirmInv, HeldTyped, AheadByArriving

LEMMA SubmitKeeps ==
  ASSUME FirmInv, NEW order \in Orders, Submit(order)
  PROVE  FirmInv'
<1> DEFINE price == Match(order)
           report == [exec |-> Len(executions) + 1, id |-> order.id,
                      instrument |-> order.instrument, side |-> order.side,
                      qty |-> order.qty, price |-> price]
           held == account.positions[Symbol(order)]
           too == held.qty > 0 /\ held.side # order.side /\ order.qty > held.qty
           cash == trace.cash - Signed(order.side, order.qty * price)
           net == Grown(trace.net, Symbol(order), Signed(order.side, order.qty))
           dropped == trace.dropped \/ too
           other == order.instrument # Instrument /\ Symbol(order) = SymbolOf[Instrument]
           merged == trace.merged \/ other
           restored == IF trace.restored = "since" THEN "before" ELSE trace.restored
<1>1. /\ arriving = None
      /\ executions' = Append(executions, report)
      /\ account' = Executed(account, order, price)
      /\ arriving' = report
      /\ trace' = [trace EXCEPT !.mark = price, !.cash = cash, !.net = net,
                                !.dropped = dropped, !.merged = merged,
                                !.restored = restored]
      /\ UNCHANGED <<book, aggregate, seen, snapshot>>
  BY DEF Submit
<1>2. /\ Symbol(order) \in Symbols /\ order.side \in Sides
      /\ order.instrument \in Instruments
      /\ order.qty \in Sizes /\ order.qty \in Nat \ {0} /\ order.id \in OrderIds
  BY FirmAssumption, BridgeSymbol DEF Orders
<1>3. TraceTyped' /\ (Undisturbed' => Undisturbed /\ ~too /\ ~other)
  <2>1. /\ DOMAIN trace' = DOMAIN trace
        /\ trace'.lost = trace.lost /\ trace'.dropped = dropped
        /\ trace'.merged = merged /\ trace'.restored = restored
    <3> HIDE DEF price, cash, net, dropped, merged, restored
    <3> QED
      BY <1>1 DEF FirmInv, TraceTyped
  <2>2. restored = "no" => trace.restored = "no"
    OBVIOUS
  <2> HIDE DEF dropped, merged, restored, too, other
  <2>3. ~dropped => ~trace.dropped /\ ~too
    BY DEF dropped
  <2>4. ~merged => ~trace.merged /\ ~other
    BY DEF merged
  <2> QED
    BY <2>1, <2>2, <2>3, <2>4 DEF FirmInv, TraceTyped, Undisturbed
<1>4. report \in Reports /\ report.exec = Len(executions) + 1
  <2>1. Len(executions) \in Nat
    BY DEF FirmInv
  <2>2. price \in Int
    BY DEF FirmInv, BookTyped, Match
  <2> HIDE DEF price
  <2> QED
    BY <1>2, <2>1, <2>2 DEF Reports
<1>5. /\ executions' \in Seq(Reports) /\ Len(executions') = Len(executions) + 1
      /\ seen' \subseteq 1..Len(executions')
      /\ arriving'.exec \notin seen' /\ arriving'.exec \in 1..Len(executions')
  <2>1. executions \in Seq(Reports) /\ seen \subseteq 1..Len(executions)
    BY DEF FirmInv
  <2> HIDE DEF report
  <2> QED
    BY <1>1, <1>4, <2>1
<1>6. /\ AccountTyped(account')
      /\ account'.positions = Moved(account.positions, order, price)
  BY <1>1, ExecutedPositions DEF FirmInv
<1>7. ASSUME Undisturbed, ~too, ~other PROVE AheadByArriving'
  <2> DEFINE ours == SymbolOf[Instrument]
  <2>1. account.positions[ours] = aggregate /\ HeldTyped(aggregate)
    BY <1>1, <1>7 DEF FirmInv, AheadByArriving
  <2>2. arriving' # None
    BY <1>1, <1>4, FirmAssumption
  <2>3. DOMAIN account.positions = Symbols /\ ours \in Symbols
    BY BridgeSymbol DEF FirmInv, AccountTyped
  <2>4. CASE order.instrument = Instrument
    <3>0. Symbol(order) = ours
      BY <2>4 DEF Symbol
    <3>1. account'.positions[ours] = Updated(aggregate, order.side, order.qty, price)
      BY <1>6, <2>1, <2>3, <3>0 DEF Moved
    <3>2. Updated(aggregate, order.side, order.qty, price) =
            Applied(aggregate, order.side, order.qty, price)
      BY <1>2, <1>7, <2>1, <3>0, OneRule
    <3>3. /\ arriving'.instrument = Instrument /\ arriving'.side = order.side
          /\ arriving'.qty = order.qty /\ arriving'.price = price
      BY <1>1, <2>4
    <3> QED
      BY <1>1, <2>2, <3>1, <3>2, <3>3 DEF AheadByArriving
  <2>5. CASE order.instrument # Instrument
    <3>1. account'.positions[ours] = aggregate
      BY <1>6, <1>7, <2>1, <2>3, <2>5 DEF Moved
    <3>2. arriving'.instrument # Instrument
      BY <1>1, <2>5
    <3> QED
      BY <1>1, <3>1, <3>2 DEF AheadByArriving
  <2> QED
    BY <2>4, <2>5
<1>8. HeldTyped(aggregate)' /\ (snapshot' # None => DOMAIN snapshot'.positions = Symbols)
      /\ BookTyped'
  BY <1>1 DEF FirmInv, HeldTyped, BookTyped
<1> HIDE DEF report, too, other
<1> QED
  BY <1>1, <1>3, <1>4, <1>5, <1>6, <1>7, <1>8 DEF FirmInv

LEMMA SettleKeeps ==
  ASSUME FirmInv, Settle
  PROVE  FirmInv'
<1>1. /\ arriving # None /\ arriving' = None
      /\ arriving \in Reports /\ arriving.exec \notin seen
      /\ arriving.exec \in 1..Len(executions)
      /\ seen' = seen \cup {arriving.exec}
      /\ UNCHANGED <<book, account, executions, snapshot>>
  BY DEF Settle, FirmInv
<1>2. arriving.qty \in Nat \ {0}
  BY <1>1, FirmAssumption DEF Reports
<1>3. CASE arriving.instrument = Instrument
  <2> DEFINE booked == Grown(trace.booked, <<arriving.id, arriving.side>>, arriving.qty)
  <2>1. /\ aggregate' = Applied(aggregate, arriving.side, arriving.qty, arriving.price)
        /\ trace' = [trace EXCEPT !.booked = booked]
    BY <1>1, <1>3 DEF Settle
  <2>2. HeldTyped(aggregate)'
    BY <1>2, <2>1, AppliedTyped DEF FirmInv, HeldTyped
  <2> HIDE DEF booked
  <2>3. TraceTyped' /\ (Undisturbed' => Undisturbed)
    BY <2>1 DEF FirmInv, TraceTyped, Undisturbed
  <2>4. Undisturbed => AheadByArriving'
    BY <1>1, <1>3, <2>1 DEF FirmInv, AheadByArriving
  <2> QED
    BY <1>1, <2>2, <2>3, <2>4 DEF FirmInv, AccountTyped, BookTyped
<1>4. CASE arriving.instrument # Instrument
  <2>1. UNCHANGED <<aggregate, trace>>
    BY <1>4 DEF Settle
  <2>2. Undisturbed => AheadByArriving'
    BY <1>1, <1>4, <2>1 DEF FirmInv, AheadByArriving
  <2> QED
    BY <1>1, <2>1, <2>2 DEF FirmInv, AccountTyped, TraceTyped, HeldTyped, BookTyped, Undisturbed
<1> QED
  BY <1>3, <1>4

LEMMA FirmStep ==
  ASSUME FirmInv, FirmNext
  PROVE  FirmInv'
<1>1. CASE Abandon
  <2>1. TraceTyped' /\ ~Undisturbed'
    BY <1>1 DEF Abandon, FirmInv, TraceTyped, Undisturbed
  <2> QED
    BY <1>1, <2>1 DEF Abandon, FirmInv, AccountTyped, HeldTyped, BookTyped
<1>2. ASSUME NEW price \in Limits, RunSettlement(price) PROVE FirmInv'
  BY <1>2, ValuationKeeps DEF RunSettlement, FirmInv, BookTyped
<1>3. CASE CreateSnapshot
  <2>1. snapshot'.positions = account.positions
    BY <1>3 DEF CreateSnapshot
  <2> QED
    BY <1>3, <2>1 DEF CreateSnapshot, FirmInv, AccountTyped, TraceTyped, HeldTyped,
                      BookTyped, Undisturbed, AheadByArriving
<1>4. CASE RestoreFromSnapshot
  <2> DEFINE balance == snapshot.balance
             positions == snapshot.positions
  <2>1. /\ account' = [account EXCEPT !.balance = balance, !.positions = positions]
        /\ DOMAIN positions = Symbols
    BY <1>4 DEF RestoreFromSnapshot, FirmInv
  <2>2. TraceTyped' /\ ~Undisturbed'
    BY <1>4 DEF RestoreFromSnapshot, FirmInv, TraceTyped, Undisturbed
  <2> HIDE DEF balance, positions
  <2>3. AccountTyped(account')
    BY <2>1 DEF FirmInv, AccountTyped
  <2> QED
    BY <1>4, <2>2, <2>3 DEF RestoreFromSnapshot, FirmInv, HeldTyped, BookTyped
<1> QED
  BY <1>1, <1>2, <1>3, <1>4, SubmitKeeps, SettleKeeps DEF FirmNext

\* The price of a tick is a number.
LEMMA TickHasPrice ==
  ASSUME MarketInv, Feed
  PROVE  tick'.price \in Int
<1>1. ASSUME NEW price \in Prices, NextMarketTick(price) PROVE tick'.price \in Int
  BY <1>1, MarketAssumption DEF NextMarketTick
<1>2. ASSUME NextReplayTick PROVE tick'.price \in Int
  <2>1. /\ replay.ticks \in Seq(ReplayTicks)
        /\ replay.cursor + 1 \in 1..Len(replay.ticks)
    BY <1>2 DEF NextReplayTick, Exhausted, MarketInv, MarketTyped
  <2>2. replay.ticks[replay.cursor + 1] \in ReplayTicks
    BY <2>1, ElementOfSeq
  <2> QED
    BY <1>2, <2>2 DEF NextReplayTick, ReplayTicks
<1> QED
  BY <1>1, <1>2 DEF Feed, Step, StreamNext

\* The firm quotes around the price of the tick that was taken.
LEMMA FeedQuotes ==
  ASSUME MarketInv, Feed
  PROVE  BookTyped'
<1>1. book' = [bid |-> tick'.price - Spread, ask |-> tick'.price + Spread]
  BY DEF Feed, ProcessMarketData
<1> QED
  BY <1>1, TickHasPrice, FirmAssumption DEF BookTyped

LEMMA NextFirm == MarketInv /\ FirmInv /\ [Next]_vars => FirmInv'
<1> SUFFICES ASSUME MarketInv, FirmInv, [Next]_vars PROVE FirmInv'
  OBVIOUS
<1>1. CASE UNCHANGED firm
  BY <1>1 DEF firm, FirmInv, AccountTyped, TraceTyped, HeldTyped, BookTyped, Undisturbed,
              AheadByArriving
<1>2. CASE Feed
  BY <1>2, FeedQuotes, ValuationKeeps DEF Feed, ProcessMarketData
<1> QED
  BY <1>1, <1>2, FirmStep DEF Next, Lifecycle, vars
-----------------------------------------------------------------------------
\* As long as every report arrives, no other instrument of the bridge's symbol is
\* executed, no order closes more than is held and nothing is restored, the
\* position the firm keeps under the symbol and the one the bridge keeps of its
\* instrument are equal, side, quantity and average price.
THEOREM FirmAndBridgeAgree == Spec => []BooksAgree
<1>1. FirmInv => BooksAgree
  BY DEF FirmInv, AheadByArriving, Undisturbed, BooksAgree
<1> QED
  BY <1>1, InitMarket, NextMarket, InitFirm, NextFirm, PTL DEF Spec
-----------------------------------------------------------------------------
(* What the totals over the symbols are. *)

\* The recursion of a total, for a function over the sets of symbols.
Part(F, w, S) == IF S = {} THEN 0
                 ELSE LET s == CHOOSE s \in S : TRUE IN w[s] + F[S \ {s}]
Adds(F, w) == F = [S \in SUBSET Symbols |-> Part(F, w, S)]
AddsUpto(F, w, n) ==
  /\ F = [S \in SUBSET Symbols |-> F[S]]
  /\ \A S \in SUBSET Symbols : Cardinality(S) <= n => F[S] = Part(F, w, S)

\* The symbol a total takes first, and those it leaves.
First(S) == CHOOSE s \in S : TRUE
Rest(S) == S \ {First(S)}

LEMMA RestIsSmaller ==
  ASSUME NEW S \in SUBSET Symbols, S # {}
  PROVE  /\ First(S) \in S /\ First(S) \in Symbols
         /\ Rest(S) \in SUBSET Symbols
         /\ Cardinality(S) \in Nat
         /\ Cardinality(Rest(S)) = Cardinality(S) - 1
<1>1. IsFiniteSet(S)
  BY FS_Subset, FirmAssumption
<1>2. First(S) \in S
  BY DEF First
<1> DEFINE s == First(S)
<1>3. s \in S
  BY <1>2
<1> HIDE DEF s
<1>4. Cardinality(S) \in Nat
  BY <1>1, FS_CardinalityType
<1>5. Cardinality(S \ {s}) = Cardinality(S) - 1
  BY <1>1, <1>3, FS_RemoveElement
<1> QED
  BY <1>3, <1>4, <1>5 DEF Rest, s

LEMMA SizesOfSets ==
  \A S \in SUBSET Symbols :
    IsFiniteSet(S) /\ Cardinality(S) \in Nat /\ (Cardinality(S) = 0 <=> S = {})
  BY FirmAssumption, FS_Subset, FS_CardinalityType, FS_EmptySet

\* Induction over the numbers, on a set: a set with 0 and the successor of each
\* of its numbers has them all.
LEMMA Climbs ==
  ASSUME NEW N, 0 \in N, \A n \in Nat : n \in N => n + 1 \in N
  PROVE  Nat \subseteq N
<1> DEFINE Missing == {0..n : n \in Nat \ N}
<1> SUFFICES ASSUME Nat \ N # {} PROVE FALSE
  OBVIOUS
<1>1. Missing # {} /\ Missing \subseteq FiniteSubsetsOf(Nat)
  <2>1. \A n \in Nat : 0..n \in SUBSET Nat /\ IsFiniteSet(0..n)
    BY FS_Interval
  <2>2. \A n \in Nat : 0..n \in FiniteSubsetsOf(Nat)
    BY <2>1 DEF FiniteSubsetsOf
  <2> QED
    BY <2>2
<1>2. PICK X \in Missing : \A Y \in Missing : <<Y, X>> \notin StrictSubsetOrdering(Nat)
  <2> HIDE DEF Missing
  <2> QED
    BY <1>1, WFMin, FS_StrictSubsetOrderingWellFounded
<1>3. PICK x \in Nat \ N : X = 0..x
  BY <1>2
<1>4. x # 0 /\ x - 1 \in Nat /\ (x - 1) + 1 = x /\ x - 1 \notin N
  BY <1>3
<1>5. 0..(x - 1) \in Missing
  BY <1>4
<1> DEFINE A == 0..(x - 1)
           B == 0..x
<1>6. A \in SUBSET Nat /\ B \in SUBSET Nat /\ A \subseteq B /\ x \in B /\ x \notin A
  BY <1>4
<1> HIDE DEF A, B
<1>7. <<A, B>> \in StrictSubsetOrdering(Nat)
  BY <1>6 DEF StrictSubsetOrdering
<1> QED
  BY <1>2, <1>3, <1>5, <1>7 DEF A, B

\* Induction over the sets of symbols, on a set of them.
LEMMA Exhausts ==
  ASSUME NEW P, {} \in P,
         \A S \in SUBSET Symbols : S # {} /\ Rest(S) \in P => S \in P
  PROVE  SUBSET Symbols \subseteq P
<1> DEFINE N == {n \in Nat : \A S \in SUBSET Symbols : Cardinality(S) = n => S \in P}
<1>1. 0 \in N
  BY SizesOfSets
<1>2. ASSUME NEW n \in Nat, n \in N PROVE n + 1 \in N
  <2>1. ASSUME NEW S \in SUBSET Symbols, Cardinality(S) = n + 1 PROVE S \in P
    <3>1. S # {}
      BY <2>1, SizesOfSets
    <3>2. Rest(S) \in SUBSET Symbols /\ Cardinality(Rest(S)) = n
      BY <2>1, <3>1, RestIsSmaller
    <3> QED
      BY <1>2, <3>1, <3>2
  <2> QED
    BY <2>1
<1>3. Nat \subseteq N
  <2> HIDE DEF N
  <2> QED
    BY <1>1, <1>2, Climbs
<1> QED
  BY <1>3, SizesOfSets

\* There is such a function, built up by the size of the set.
LEMMA SumExists ==
  ASSUME NEW w
  PROVE  \E F : Adds(F, w)
<1> DEFINE N == {n \in Nat : \E F : AddsUpto(F, w, n)}
<1>1. 0 \in N
  <2> DEFINE F == [S \in SUBSET Symbols |-> 0]
  <2>1. \A S \in SUBSET Symbols : Cardinality(S) <= 0 => S = {} /\ F[S] = 0
    BY SizesOfSets
  <2>2. F = [S \in SUBSET Symbols |-> F[S]]
    OBVIOUS
  <2> HIDE DEF F
  <2>3. AddsUpto(F, w, 0)
    BY <2>1, <2>2 DEF AddsUpto, Part
  <2> QED
    BY <2>3
<1>2. ASSUME NEW n \in Nat, n \in N PROVE n + 1 \in N
  <2>1. PICK F : AddsUpto(F, w, n)
    BY <1>2
  <2> DEFINE G == [S \in SUBSET Symbols |-> IF Cardinality(S) = n + 1 THEN Part(F, w, S) ELSE F[S]]
  <2>2. \A S \in SUBSET Symbols :
          G[S] = IF Cardinality(S) = n + 1 THEN Part(F, w, S) ELSE F[S]
    OBVIOUS
  <2>3. G = [S \in SUBSET Symbols |-> G[S]]
    OBVIOUS
  <2> HIDE DEF G
  <2>4. ASSUME NEW S \in SUBSET Symbols, Cardinality(S) <= n + 1 PROVE G[S] = Part(G, w, S)
    <3>1. G[S] = Part(F, w, S)
      <4>1. CASE Cardinality(S) = n + 1
        BY <4>1, <2>2
      <4>2. CASE Cardinality(S) <= n
        BY <4>2, <2>1, <2>2, SizesOfSets DEF AddsUpto
      <4> QED
        BY <4>1, <4>2, <2>4, SizesOfSets
    <3>2. CASE S = {}
      BY <3>1, <3>2 DEF Part
    <3>3. CASE S # {}
      <4>1. Rest(S) \in SUBSET Symbols /\ Cardinality(Rest(S)) = Cardinality(S) - 1
        BY <3>3, RestIsSmaller
      <4>2. G[Rest(S)] = F[Rest(S)]
        BY <4>1, <2>2, <2>4, SizesOfSets
      <4>3. Part(G, w, S) = Part(F, w, S)
        BY <3>3, <4>2 DEF First, Rest, Part
      <4> QED
        BY <3>1, <4>3
    <3> QED
      BY <3>2, <3>3
  <2>5. AddsUpto(G, w, n + 1)
    BY <2>3, <2>4 DEF AddsUpto
  <2> QED
    BY <2>5
<1>3. Nat \subseteq N
  <2> HIDE DEF N
  <2> QED
    BY <1>1, <1>2, Climbs
<1>4. Cardinality(Symbols) \in Nat
  BY SizesOfSets
<1>5. PICK F : AddsUpto(F, w, Cardinality(Symbols))
  BY <1>3, <1>4
<1>6. \A S \in SUBSET Symbols : Cardinality(S) <= Cardinality(Symbols)
  BY FirmAssumption, FS_Subset
<1>7. F = [S \in SUBSET Symbols |-> Part(F, w, S)]
  BY <1>5, <1>6 DEF AddsUpto
<1> QED
  BY <1>7 DEF Adds

\* A total is the value of such a function on all symbols.
LEMMA TotalAdds ==
  ASSUME NEW w
  PROVE  \E F : Adds(F, w) /\ Total(w) = F[Symbols]
<1> DEFINE G == CHOOSE F : Adds(F, w)
<1>1. Total(w) = G[Symbols]
  BY DEF Total, Adds, Part
<1>2. Adds(G, w)
  BY SumExists
<1> QED
  BY <1>1, <1>2

LEMMA OneMoreSymbol ==
  ASSUME NEW w, NEW F, Adds(F, w), NEW S \in SUBSET Symbols
  PROVE  /\ S = {} => F[S] = 0
         /\ S # {} => F[S] = w[First(S)] + F[Rest(S)]
  BY DEF Adds, Part, First, Rest

LEMMA NothingAdded ==
  ASSUME NEW w, NEW F, Adds(F, w)
  PROVE  F[{}] = 0
<1>1. {} \in SUBSET Symbols
  OBVIOUS
<1> QED
  BY <1>1 DEF Adds, Part

\* A total of natural numbers is one.
LEMMA TotalIsNatural ==
  ASSUME NEW w \in [Symbols -> Nat]
  PROVE  Total(w) \in Nat
<1>1. PICK F : Adds(F, w) /\ Total(w) = F[Symbols]
  BY TotalAdds
<1> DEFINE P == {S \in SUBSET Symbols : F[S] \in Nat}
<1>2. {} \in P
  BY <1>1, NothingAdded
<1>3. ASSUME NEW S \in SUBSET Symbols, S # {}, Rest(S) \in P PROVE S \in P
  <2>1. F[S] = w[First(S)] + F[Rest(S)]
    BY <1>1, <1>3, OneMoreSymbol
  <2>2. w[First(S)] \in Nat
    BY <1>3, RestIsSmaller
  <2> QED
    BY <1>3, <2>1, <2>2
<1>4. SUBSET Symbols \subseteq P
  <2> HIDE DEF P
  <2> QED
    BY <1>2, <1>3, Exhausts
<1> QED
  BY <1>1, <1>4

\* A total of integers is one.
LEMMA TotalIsInteger ==
  ASSUME NEW w \in [Symbols -> Int]
  PROVE  Total(w) \in Int
<1>1. PICK F : Adds(F, w) /\ Total(w) = F[Symbols]
  BY TotalAdds
<1> DEFINE P == {S \in SUBSET Symbols : F[S] \in Int}
<1>2. {} \in P
  BY <1>1, NothingAdded
<1>3. ASSUME NEW S \in SUBSET Symbols, S # {}, Rest(S) \in P PROVE S \in P
  <2>1. F[S] = w[First(S)] + F[Rest(S)]
    BY <1>1, <1>3, OneMoreSymbol
  <2>2. w[First(S)] \in Int
    BY <1>3, RestIsSmaller
  <2> QED
    BY <1>3, <2>1, <2>2
<1>4. SUBSET Symbols \subseteq P
  <2> HIDE DEF P
  <2> QED
    BY <1>2, <1>3, Exhausts
<1> QED
  BY <1>1, <1>4

\* A total of zeros is zero.
LEMMA TotalOfNothing ==
  ASSUME NEW w, \A s \in Symbols : w[s] = 0
  PROVE  Total(w) = 0
<1>1. PICK F : Adds(F, w) /\ Total(w) = F[Symbols]
  BY TotalAdds
<1> DEFINE P == {S \in SUBSET Symbols : F[S] = 0}
<1>2. {} \in P
  BY <1>1, NothingAdded
<1>3. ASSUME NEW S \in SUBSET Symbols, S # {}, Rest(S) \in P PROVE S \in P
  <2>1. F[S] = w[First(S)] + F[Rest(S)]
    BY <1>1, <1>3, OneMoreSymbol
  <2>2. w[First(S)] = 0
    BY <1>3, RestIsSmaller
  <2> QED
    BY <1>3, <2>1, <2>2
<1>4. SUBSET Symbols \subseteq P
  <2> HIDE DEF P
  <2> QED
    BY <1>2, <1>3, Exhausts
<1> QED
  BY <1>1, <1>4

LEMMA Distributes ==
  ASSUME NEW m \in Int, NEW a \in Int, NEW b \in Int, NEW c \in Int, NEW d \in Int
  PROVE  (m * a - b) + (m * c - d) = m * (a + c) - (b + d)
<1>1. m * (a + c) = m * a + m * c
  OBVIOUS
<1> DEFINE p == m * a
           q == m * c
           r == m * (a + c)
<1>2. p \in Int /\ q \in Int /\ r \in Int /\ r = p + q
  BY <1>1
<1> HIDE DEF p, q, r
<1>3. (p - b) + (q - d) = r - (b + d)
  BY <1>2
<1> QED
  BY <1>3 DEF p, q, r

\* The total of what is bought at one price less what it cost.
LEMMA TotalIsLinear ==
  ASSUME NEW m \in Int, NEW u \in [Symbols -> Int], NEW v \in [Symbols -> Int],
         NEW w, \A s \in Symbols : w[s] = m * u[s] - v[s]
  PROVE  Total(w) = m * Total(u) - Total(v)
<1>1. PICK F : Adds(F, w) /\ Total(w) = F[Symbols]
  BY TotalAdds
<1>2. PICK G : Adds(G, u) /\ Total(u) = G[Symbols]
  BY TotalAdds
<1>3. PICK H : Adds(H, v) /\ Total(v) = H[Symbols]
  BY TotalAdds
<1> DEFINE P == {S \in SUBSET Symbols :
                   G[S] \in Int /\ H[S] \in Int /\ F[S] = m * G[S] - H[S]}
<1>4. {} \in P
  <2>1. F[{}] = 0 /\ G[{}] = 0 /\ H[{}] = 0
    BY <1>1, <1>2, <1>3, NothingAdded
  <2>2. m * 0 - 0 = 0
    OBVIOUS
  <2>3. {} \in SUBSET Symbols /\ 0 \in Int
    OBVIOUS
  <2> QED
    BY <2>1, <2>2, <2>3
<1>5. ASSUME NEW S \in SUBSET Symbols, S # {}, Rest(S) \in P PROVE S \in P
  <2>1. /\ F[S] = w[First(S)] + F[Rest(S)]
        /\ G[S] = u[First(S)] + G[Rest(S)]
        /\ H[S] = v[First(S)] + H[Rest(S)]
    BY <1>1, <1>2, <1>3, <1>5, OneMoreSymbol
  <2> DEFINE a == u[First(S)]
             b == v[First(S)]
             c == G[Rest(S)]
             d == H[Rest(S)]
  <2>2. a \in Int /\ b \in Int /\ w[First(S)] = m * a - b
    BY <1>5, RestIsSmaller
  <2>3. c \in Int /\ d \in Int /\ F[Rest(S)] = m * c - d
    BY <1>5
  <2>4. F[S] = (m * a - b) + (m * c - d) /\ G[S] = a + c /\ H[S] = b + d
    BY <2>1, <2>2, <2>3
  <2> HIDE DEF a, b, c, d
  <2>5. G[S] \in Int /\ H[S] \in Int
    BY <2>2, <2>3, <2>4
  <2>6. F[S] = m * G[S] - H[S]
    BY <2>2, <2>3, <2>4, Distributes
  <2> QED
    BY <2>5, <2>6
<1>6. SUBSET Symbols \subseteq P
  <2> HIDE DEF P
  <2> QED
    BY <1>4, <1>5, Exhausts
<1> QED
  BY <1>1, <1>2, <1>3, <1>6

\* One value more or less moves the total by as much.
LEMMA TotalMoves ==
  ASSUME NEW u \in [Symbols -> Int], NEW w \in [Symbols -> Int],
         NEW key \in Symbols, NEW d \in Int,
         w[key] = u[key] + d, \A s \in Symbols \ {key} : w[s] = u[s]
  PROVE  Total(w) = Total(u) + d
<1>1. PICK F : Adds(F, w) /\ Total(w) = F[Symbols]
  BY TotalAdds
<1>2. PICK G : Adds(G, u) /\ Total(u) = G[Symbols]
  BY TotalAdds
<1> DEFINE P == {S \in SUBSET Symbols :
                   G[S] \in Int /\ F[S] = G[S] + (IF key \in S THEN d ELSE 0)}
<1>4. {} \in P
  <2>1. F[{}] = 0 /\ G[{}] = 0
    BY <1>1, <1>2, NothingAdded
  <2> QED
    BY <2>1
<1>5. ASSUME NEW S \in SUBSET Symbols, S # {}, Rest(S) \in P PROVE S \in P
  <2>1. /\ F[S] = w[First(S)] + F[Rest(S)]
        /\ G[S] = u[First(S)] + G[Rest(S)]
    BY <1>1, <1>2, <1>5, OneMoreSymbol
  <2>2. First(S) \in S /\ First(S) \in Symbols
    BY <1>5, RestIsSmaller
  <2>3. u[First(S)] \in Int /\ w[First(S)] \in Int
    BY <2>2
  <2>4. G[Rest(S)] \in Int /\ F[Rest(S)] = G[Rest(S)] + (IF key \in Rest(S) THEN d ELSE 0)
    BY <1>5
  <2>5. CASE First(S) = key
    <3>1. key \notin Rest(S) /\ key \in S /\ w[First(S)] = u[First(S)] + d
      BY <2>2, <2>5 DEF Rest
    <3> QED
      BY <2>1, <2>3, <2>4, <3>1
  <2>6. CASE First(S) # key
    <3>1. (key \in Rest(S) <=> key \in S) /\ w[First(S)] = u[First(S)]
      BY <2>2, <2>6 DEF Rest
    <3> QED
      BY <2>1, <2>3, <2>4, <3>1
  <2> QED
    BY <2>5, <2>6
<1>6. SUBSET Symbols \subseteq P
  <2> HIDE DEF P
  <2> QED
    BY <1>4, <1>5, Exhausts
<1> QED
  BY <1>1, <1>2, <1>6
-----------------------------------------------------------------------------
(* The types of the firm. *)

Accounts == [balance : Int, realized : Int, unrealized : Int, used : Nat, free : Nat,
             positions : [Symbols -> Positions]]
Traces == [mark : Int, cash : Int, net : [Symbols -> Int], dropped : BOOLEAN, merged : BOOLEAN,
           restored : {"no", "since", "before"}, lost : BOOLEAN, booked : [Tickets -> Nat]]
Snapshots == [balance : Int, positions : [Symbols -> Positions]]

\* A report has a price, since the firm denies an order without one.
FirmTyped ==
  /\ account \in Accounts
  /\ aggregate \in Positions
  /\ arriving # None => arriving.price \in Nat \ {0}
  /\ snapshot # None => snapshot \in Snapshots
  /\ trace \in Traces

LEMMA PositionCases ==
  ASSUME NEW p \in Positions
  PROVE  /\ p.qty = 0 => p = Flat
         /\ p.qty # 0 => p.side \in Sides /\ p.qty \in Nat \ {0} /\ p.avg \in Nat
         /\ p.qty \in Nat
         /\ DOMAIN p = {"side", "qty", "avg"}
  BY DEF Positions, Flat

LEMMA ProductIsNatural ==
  ASSUME NEW a \in Nat, NEW b \in Nat
  PROVE  a * b \in Nat
  OBVIOUS

LEMMA QuotientIsNatural ==
  ASSUME NEW a \in Nat, NEW b \in Nat \ {0}
  PROVE  a \div b \in Nat
  BY SMT

LEMMA WeightedIsNatural ==
  ASSUME NEW p \in Positions, p.qty # 0, NEW qty \in Nat \ {0}, NEW price \in Nat
  PROVE  Weighted(p, qty, price) \in Nat
<1>1. p.qty \in Nat \ {0} /\ p.avg \in Nat
  BY PositionCases
<1> DEFINE a == p.avg * p.qty
           b == price * qty
           c == p.qty + qty
<1>2. a \in Nat /\ b \in Nat
  BY <1>1, ProductIsNatural
<1>3. c \in Nat \ {0}
  BY <1>1
<1> HIDE DEF a, b, c
<1>4. a + b \in Nat
  BY <1>2
<1>5. (a + b) \div c \in Nat
  BY <1>3, <1>4, QuotientIsNatural
<1> QED
  BY <1>5 DEF Weighted, a, b, c

LEMMA AddedIsPosition ==
  ASSUME NEW p \in Positions, NEW side \in Sides, NEW qty \in Nat \ {0}, NEW price \in Nat
  PROVE  Added(p, side, qty, price) \in Positions
<1> DEFINE average == IF p.qty = 0 THEN price ELSE Weighted(p, qty, price)
<1>1. average \in Nat
  BY WeightedIsNatural
<1>2. p.qty + qty \in Nat \ {0}
  BY PositionCases
<1>3. Added(p, side, qty, price) = [side |-> side, qty |-> p.qty + qty, avg |-> average]
  BY DEF Added
<1> HIDE DEF average
<1> QED
  BY <1>1, <1>2, <1>3 DEF Positions

LEMMA ReducedIsPosition ==
  ASSUME NEW p \in Positions, NEW qty \in Nat \ {0}, qty < p.qty
  PROVE  [p EXCEPT !.qty = p.qty - qty] \in Positions
<1>1. p \in [side : Sides, qty : Nat \ {0}, avg : Nat]
  <2>1. p.qty # 0
    BY PositionCases
  <2> QED
    BY <2>1 DEF Positions, Flat
<1>2. p.qty - qty \in Nat \ {0}
  BY <1>1
<1> QED
  BY <1>1, <1>2 DEF Positions

LEMMA UpdatedIsPosition ==
  ASSUME NEW p \in Positions, NEW side \in Sides, NEW qty \in Nat \ {0}, NEW price \in Nat
  PROVE  Updated(p, side, qty, price) \in Positions
<1>1. CASE p.qty = 0 \/ p.side = side
  BY <1>1, AddedIsPosition DEF Updated
<1>2. CASE ~(p.qty = 0 \/ p.side = side) /\ qty < p.qty
  BY <1>2, ReducedIsPosition DEF Updated
<1>3. CASE ~(p.qty = 0 \/ p.side = side) /\ ~(qty < p.qty)
  BY <1>3 DEF Updated, Positions
<1> QED
  BY <1>1, <1>2, <1>3

LEMMA AppliedIsPosition ==
  ASSUME NEW p \in Positions, NEW side \in Sides, NEW qty \in Nat \ {0}, NEW price \in Nat
  PROVE  Applied(p, side, qty, price) \in Positions
<1>1. CASE p.qty = 0 \/ p.side = side \/ qty <= p.qty
  <2>1. p.qty \in Nat
    BY PositionCases
  <2>2. Applied(p, side, qty, price) = Updated(p, side, qty, price)
    BY <1>1, <2>1 DEF Applied, Updated
  <2> QED
    BY <2>2, UpdatedIsPosition
<1>2. CASE ~(p.qty = 0 \/ p.side = side \/ qty <= p.qty)
  <2>1. qty - p.qty \in Nat \ {0} /\ ~(qty < p.qty) /\ qty # p.qty
    BY <1>2, PositionCases
  <2>2. Applied(p, side, qty, price) = [side |-> side, qty |-> qty - p.qty, avg |-> price]
    BY <1>2, <2>1 DEF Applied
  <2> QED
    BY <2>1, <2>2 DEF Positions
<1> QED
  BY <1>1, <1>2

LEMMA SignedIsInteger ==
  ASSUME NEW side, NEW n \in Int
  PROVE  Signed(side, n) \in Int
  BY DEF Signed

LEMMA GainedIsInteger ==
  ASSUME NEW p \in Positions, NEW side \in Sides, NEW qty \in Nat \ {0}, NEW price \in Nat
  PROVE  Gained(p, side, qty, price) \in Int
<1>1. CASE p.qty = 0 \/ p.side = side
  BY <1>1 DEF Gained
<1>2. CASE ~(p.qty = 0 \/ p.side = side)
  <2> DEFINE n == Signed(p.side, IF qty < p.qty THEN qty ELSE p.qty)
             d == price - p.avg
  <2>1. p.qty \in Nat \ {0} /\ p.avg \in Nat
    BY <1>2, PositionCases
  <2>2. (IF qty < p.qty THEN qty ELSE p.qty) \in Int
    BY <2>1
  <2>3. n \in Int
    BY <2>2, SignedIsInteger
  <2>4. d \in Int
    BY <2>1
  <2>5. Gained(p, side, qty, price) = n * d
    BY <1>2 DEF Gained
  <2> HIDE DEF n, d
  <2> QED
    BY <2>3, <2>4, <2>5
<1> QED
  BY <1>1, <1>2
-----------------------------------------------------------------------------
(* What a position is worth: the units it holds, and what they cost. *)

Net(p) == IF p.qty = 0 THEN 0 ELSE Signed(p.side, p.qty)
Cost(p) == IF p.qty = 0 THEN 0 ELSE Signed(p.side, p.qty * p.avg)
Nets(positions) == [s \in Symbols |-> Net(positions[s])]
Costs(positions) == [s \in Symbols |-> Cost(positions[s])]

LEMMA WorthTyped ==
  ASSUME NEW p \in Positions
  PROVE  Net(p) \in Int /\ Cost(p) \in Int
<1>1. CASE p.qty = 0
  BY <1>1 DEF Net, Cost
<1>2. CASE p.qty # 0
  <2>1. p.qty \in Int /\ p.avg \in Int
    BY <1>2, PositionCases
  <2>2. p.qty * p.avg \in Int
    BY <2>1
  <2>3. Signed(p.side, p.qty * p.avg) \in Int /\ Signed(p.side, p.qty) \in Int
    BY <2>1, <2>2, SignedIsInteger
  <2> QED
    BY <2>3 DEF Net, Cost
<1> QED
  BY <1>1, <1>2

LEMMA WorthsTyped ==
  ASSUME NEW positions \in [Symbols -> Positions]
  PROVE  Nets(positions) \in [Symbols -> Int] /\ Costs(positions) \in [Symbols -> Int]
  BY WorthTyped DEF Nets, Costs

\* What is held is worth the price of its units less what they cost.
LEMMA UnrealizedIsWorth ==
  ASSUME NEW positions \in [Symbols -> Positions], NEW price \in Int
  PROVE  Unrealized(positions, price) = price * Total(Nets(positions)) - Total(Costs(positions))
<1> DEFINE w == [s \in Symbols |->
                   IF positions[s].qty = 0 THEN 0
                   ELSE Signed(positions[s].side, positions[s].qty * (price - positions[s].avg))]
<1>1. ASSUME NEW s \in Symbols
      PROVE  w[s] = price * Nets(positions)[s] - Costs(positions)[s]
  <2> DEFINE p == positions[s]
  <2>1. /\ Nets(positions)[s] = Net(p) /\ Costs(positions)[s] = Cost(p)
        /\ w[s] = IF p.qty = 0 THEN 0 ELSE Signed(p.side, p.qty * (price - p.avg))
    BY DEF Nets, Costs
  <2>2. p \in Positions
    OBVIOUS
  <2> HIDE DEF p, w
  <2>3. CASE p.qty = 0
    <3>1. price * 0 - 0 = 0
      OBVIOUS
    <3> QED
      BY <2>1, <2>3, <3>1 DEF Net, Cost
  <2>4. CASE p.qty # 0
    <3>1. p.qty \in Nat /\ p.avg \in Nat
      BY <2>2, <2>4, PositionCases
    <3> DEFINE a == p.qty
               b == p.avg
    <3>2. a \in Int /\ b \in Int
      BY <3>1
    <3>3. w[s] = Signed(p.side, a * (price - b)) /\ Net(p) = Signed(p.side, a)
          /\ Cost(p) = Signed(p.side, a * b)
      BY <2>1, <2>4 DEF Net, Cost
    <3> HIDE DEF a, b
    <3>4. a * (price - b) = price * a - a * b /\ price * (-a) = -(price * a)
      BY <3>2
    <3>5. a * b \in Int /\ price * a \in Int
      BY <3>2
    <3>6. CASE p.side = "BUY"
      BY <2>1, <3>2, <3>3, <3>4, <3>5, <3>6 DEF Signed
    <3>7. CASE p.side # "BUY"
      <4>1. w[s] = -(price * a - a * b) /\ Net(p) = -a /\ Cost(p) = -(a * b)
        BY <3>3, <3>4, <3>7 DEF Signed
      <4> DEFINE c == price * a
                 d == a * b
      <4>2. c \in Int /\ d \in Int /\ price * (-a) = -c
        BY <3>4, <3>5
      <4>3. w[s] = -(c - d) /\ Cost(p) = -d /\ price * Net(p) = -c
        BY <4>1, <4>2
      <4> HIDE DEF c, d
      <4>4. -(c - d) = -c - (-d)
        BY <4>2
      <4> QED
        BY <2>1, <4>3, <4>4
    <3> QED
      BY <3>6, <3>7
  <2> QED
    BY <2>3, <2>4
<1>2. Total(w) = price * Total(Nets(positions)) - Total(Costs(positions))
  <2> HIDE DEF w
  <2> QED
    BY <1>1, WorthsTyped, TotalIsLinear
<1> QED
  BY <1>2 DEF Unrealized

LEMMA UnrealizedIsInteger ==
  ASSUME NEW positions \in [Symbols -> Positions], NEW price \in Int
  PROVE  Unrealized(positions, price) \in Int
<1> DEFINE a == Total(Nets(positions))
           b == Total(Costs(positions))
<1>1. a \in Int /\ b \in Int
  BY WorthsTyped, TotalIsInteger
<1>2. Unrealized(positions, price) = price * a - b
  BY UnrealizedIsWorth
<1> HIDE DEF a, b
<1> QED
  BY <1>1, <1>2

LEMMA UsedMarginIsNatural ==
  ASSUME NEW positions \in [Symbols -> Positions]
  PROVE  UsedMargin(positions) \in Nat
<1> DEFINE w == [s \in Symbols |->
                   IF positions[s].qty = 0 THEN 0 ELSE positions[s].qty * positions[s].avg]
<1>1. w \in [Symbols -> Nat]
  BY PositionCases, ProductIsNatural
<1> HIDE DEF w
<1>2. Total(w) \in Nat
  BY <1>1, TotalIsNatural
<1> QED
  BY <1>2 DEF UsedMargin, w

\* A valuation moves no more than the three values it computes.
LEMMA ValuedTyped ==
  ASSUME NEW acc \in Accounts, NEW price \in Int
  PROVE  /\ Valued(acc, price) \in Accounts
         /\ Valued(acc, price).positions = acc.positions
         /\ Valued(acc, price).balance = acc.balance
         /\ Valued(acc, price).realized = acc.realized
         /\ Valued(acc, price).unrealized = Unrealized(acc.positions, price)
<1> DEFINE unrealized == Unrealized(acc.positions, price)
           used == UsedMargin(acc.positions)
           rest == acc.balance + acc.realized + unrealized - used
           free == IF rest > 0 THEN rest ELSE 0
<1>1. Valued(acc, price) =
        [acc EXCEPT !.unrealized = unrealized, !.used = used, !.free = free]
  BY DEF Valued
<1>2. acc.positions \in [Symbols -> Positions] /\ acc.balance \in Int /\ acc.realized \in Int
  BY DEF Accounts
<1>3. unrealized \in Int /\ used \in Nat
  BY <1>2, UnrealizedIsInteger, UsedMarginIsNatural
<1> HIDE DEF unrealized, used
<1>4. free \in Nat
  BY <1>2, <1>3
<1> HIDE DEF free
<1> DEFINE after == [acc EXCEPT !.unrealized = unrealized, !.used = used, !.free = free]
<1>5. /\ after \in Accounts
      /\ after.positions = acc.positions /\ after.balance = acc.balance
      /\ after.realized = acc.realized /\ after.unrealized = unrealized
  BY <1>3, <1>4 DEF Accounts
<1> HIDE DEF after
<1>6. Valued(acc, price) = after
  BY <1>1 DEF after
<1> QED
  BY <1>5, <1>6 DEF unrealized

\* Valuing twice at a price is valuing once.
LEMMA ValuedTwice ==
  ASSUME NEW acc \in Accounts, NEW price \in Int
  PROVE  Valued(Valued(acc, price), price) = Valued(acc, price)
<1> DEFINE unrealized == Unrealized(acc.positions, price)
           used == UsedMargin(acc.positions)
           rest == acc.balance + acc.realized + unrealized - used
           free == IF rest > 0 THEN rest ELSE 0
           once == Valued(acc, price)
<1>1. once = [acc EXCEPT !.unrealized = unrealized, !.used = used, !.free = free]
  BY DEF Valued
<1>2. once.positions = acc.positions /\ once.balance = acc.balance /\ once.realized = acc.realized
      /\ once \in Accounts
  BY ValuedTyped
<1>3. Valued(once, price) = [once EXCEPT !.unrealized = unrealized, !.used = used, !.free = free]
  <2> HIDE DEF once
  <2> QED
    BY <1>2 DEF Valued
<1> HIDE DEF unrealized, used, free, once
<1>4. [once EXCEPT !.unrealized = unrealized, !.used = used, !.free = free] = once
  BY <1>1, <1>2 DEF Accounts
<1> QED
  BY <1>3, <1>4 DEF once
-----------------------------------------------------------------------------
(* What an execution does to an account. *)

LEMMA OrderTyped ==
  ASSUME NEW order \in Orders
  PROVE  /\ Symbol(order) \in Symbols /\ order.side \in Sides /\ order.id \in OrderIds
         /\ order.qty \in Nat \ {0} /\ order.qty \in Sizes /\ order.price \in Nat
         /\ order.instrument \in Instruments
  BY FirmAssumption, BridgeSymbol DEF Orders

LEMMA MovedTyped ==
  ASSUME NEW positions \in [Symbols -> Positions], NEW order \in Orders, NEW price \in Nat
  PROVE  Moved(positions, order, price) \in [Symbols -> Positions]
<1> DEFINE after == Updated(positions[Symbol(order)], order.side, order.qty, price)
<1>1. after \in Positions
  BY OrderTyped, UpdatedIsPosition
<1>2. Moved(positions, order, price) = [positions EXCEPT ![Symbol(order)] = after]
  BY DEF Moved
<1> HIDE DEF after
<1> QED
  BY <1>1, <1>2

\* It is valued after the positions have moved and the profit is taken.
LEMMA ExecutedTyped ==
  ASSUME NEW acc \in Accounts, NEW order \in Orders, NEW price \in Nat
  PROVE  \E filled \in Accounts :
           /\ Executed(acc, order, price) = Valued(filled, price)
           /\ filled.positions = Moved(acc.positions, order, price)
           /\ filled.realized = acc.realized + Gained(acc.positions[Symbol(order)], order.side, order.qty, price)
<1> DEFINE moved == Moved(acc.positions, order, price)
           gained == Gained(acc.positions[Symbol(order)], order.side, order.qty, price)
           realized == acc.realized + gained
           filled == [acc EXCEPT !.realized = realized, !.positions = moved]
<1>1. acc.positions \in [Symbols -> Positions] /\ acc.realized \in Int
  BY DEF Accounts
<1>2. moved \in [Symbols -> Positions]
  BY <1>1, MovedTyped
<1>3. gained \in Int
  BY <1>1, OrderTyped, GainedIsInteger
<1>4. Executed(acc, order, price) = Valued(filled, price)
  BY DEF Executed
<1>5. realized \in Int
  <2> HIDE DEF gained
  <2> QED
    BY <1>1, <1>3
<1>6. filled \in Accounts /\ filled.realized = realized /\ filled.positions = moved
  <2> HIDE DEF realized, moved
  <2> QED
    BY <1>2, <1>5 DEF Accounts
<1> HIDE DEF filled
<1> QED
  BY <1>4, <1>6

\* The price of an order the firm does not deny.
LEMMA PriceOfOrder ==
  ASSUME FirmInv, NEW order \in Orders, ~Denies(order)
  PROVE  Match(order) \in Nat \ {0}
<1> DEFINE price == Match(order)
<1>1. price \in Int
  BY DEF FirmInv, BookTyped, Match
<1>2. ~(price <= 0)
  BY DEF Denies
<1> HIDE DEF price
<1>3. price \in Nat \ {0}
  BY <1>1, <1>2
<1> QED
  BY <1>3 DEF price

LEMMA InitFirmTyped == Init => FirmTyped
<1> SUFFICES ASSUME FirmInit PROVE FirmTyped
  BY DEF Init
<1>1. account \in Accounts /\ aggregate \in Positions
  BY FirmAssumption DEF FirmInit, NewAccount, Accounts, Positions
<1>2. trace \in Traces
  BY DEF FirmInit, Traces
<1> QED
  BY <1>1, <1>2 DEF FirmInit, FirmTyped

\* The history after a valuation.
LEMMA HistoryAfterValuation ==
  ASSUME NEW before \in Traces, NEW price \in Int
  PROVE  LET after == [before EXCEPT !.mark = price,
                                     !.restored = IF @ = "since" THEN "before" ELSE @] IN
         /\ after \in Traces
         /\ after.mark = price /\ after.restored # "since"
         /\ after.cash = before.cash /\ after.net = before.net /\ after.dropped = before.dropped
         /\ after.booked = before.booked
         /\ after.restored = "no" <=> before.restored = "no"
<1> DEFINE restored == IF before.restored = "since" THEN "before" ELSE before.restored
<1>1. /\ restored \in {"no", "before"} /\ (restored = "no" <=> before.restored = "no")
  BY DEF Traces
<1> HIDE DEF restored
<1>2. LET after == [before EXCEPT !.mark = price, !.restored = restored] IN
         /\ after \in Traces
         /\ after.mark = price /\ after.restored = restored
         /\ after.cash = before.cash /\ after.net = before.net /\ after.dropped = before.dropped
         /\ after.booked = before.booked
  BY <1>1 DEF Traces
<1> QED
  BY <1>1, <1>2 DEF restored

\* The history after an order; it tells whether the order was larger than what
\* it closed.
LEMMA HistoryAfterOrder ==
  ASSUME FirmInv, FirmTyped, NEW order \in Orders, Submit(order)
  PROVE  /\ trace' \in Traces
         /\ trace'.mark = Match(order) /\ trace'.restored # "since"
         /\ trace'.cash = trace.cash - Signed(order.side, order.qty * Match(order))
         /\ trace'.net = Grown(trace.net, Symbol(order), Signed(order.side, order.qty))
         /\ trace'.booked = trace.booked
         /\ trace'.restored = "no" => trace.restored = "no"
         /\ ~trace'.dropped =>
              /\ ~trace.dropped
              /\ LET held == account.positions[Symbol(order)] IN
                 ~(held.qty > 0 /\ held.side # order.side /\ order.qty > held.qty)
<1> DEFINE price == Match(order)
           held == account.positions[Symbol(order)]
           too == held.qty > 0 /\ held.side # order.side /\ order.qty > held.qty
           cash == trace.cash - Signed(order.side, order.qty * price)
           net == Grown(trace.net, Symbol(order), Signed(order.side, order.qty))
           dropped == trace.dropped \/ too
           other == order.instrument # Instrument /\ Symbol(order) = SymbolOf[Instrument]
           merged == trace.merged \/ other
           restored == IF trace.restored = "since" THEN "before" ELSE trace.restored
<1>1. trace' = [trace EXCEPT !.mark = price, !.cash = cash, !.net = net,
                             !.dropped = dropped, !.merged = merged,
                             !.restored = restored]
  BY DEF Submit
<1>2. trace \in Traces
  BY DEF FirmTyped
<1>3. price \in Nat \ {0}
  BY PriceOfOrder DEF Submit
<1>4. /\ order.qty \in Nat \ {0} /\ Symbol(order) \in Symbols
  BY OrderTyped
<1>5. cash \in Int
  <2> HIDE DEF price
  <2>1. order.qty * price \in Int
    BY <1>3, <1>4
  <2>2. Signed(order.side, order.qty * price) \in Int
    BY <2>1, SignedIsInteger
  <2>3. trace.cash \in Int
    BY <1>2 DEF Traces
  <2> QED
    BY <2>2, <2>3
<1>6. net \in [Symbols -> Int]
  <2> DEFINE n == Signed(order.side, order.qty)
  <2>1. n \in Int
    BY <1>4, SignedIsInteger
  <2>2. trace.net \in [Symbols -> Int]
    BY <1>2 DEF Traces
  <2>3. net = [trace.net EXCEPT ![Symbol(order)] = trace.net[Symbol(order)] + n]
    BY DEF Grown
  <2> HIDE DEF n, net
  <2>4. trace.net[Symbol(order)] + n \in Int
    BY <1>4, <2>1, <2>2
  <2> QED
    BY <1>4, <2>2, <2>3, <2>4
<1>7. restored \in {"no", "before"} /\ (restored = "no" => trace.restored = "no")
  BY <1>2 DEF Traces
<1>8. dropped \in BOOLEAN /\ merged \in BOOLEAN
  BY <1>2 DEF Traces
<1>9. ~dropped => ~trace.dropped /\ ~too
  OBVIOUS
<1> HIDE DEF price, cash, net, restored, too, dropped, other, merged
<1>10. /\ trace' \in Traces
       /\ trace'.mark = price /\ trace'.cash = cash /\ trace'.net = net
       /\ trace'.dropped = dropped /\ trace'.restored = restored
       /\ trace'.booked = trace.booked
  <2>1. /\ trace'.mark = price /\ trace'.cash = cash /\ trace'.net = net
        /\ trace'.dropped = dropped /\ trace'.restored = restored
        /\ trace'.booked = trace.booked
    BY <1>1 DEF FirmInv, TraceTyped
  <2>2. price \in Int
    BY <1>3
  <2>3. trace' \in Traces
    BY <1>1, <1>2, <2>2, <1>5, <1>6, <1>7, <1>8 DEF Traces
  <2> QED
    BY <2>1, <2>3
<1> QED
  BY <1>7, <1>9, <1>10 DEF price, cash, net, too

LEMMA SubmitTyped ==
  ASSUME FirmInv, FirmTyped, NEW order \in Orders, Submit(order)
  PROVE  FirmTyped'
<1> DEFINE price == Match(order)
<1>1. price \in Nat \ {0}
  BY PriceOfOrder DEF Submit
<1>2. account' = Executed(account, order, price) /\ arriving'.price = price
      /\ UNCHANGED <<aggregate, snapshot>>
  BY DEF Submit
<1> HIDE DEF price
<1>3. PICK filled \in Accounts : Executed(account, order, price) = Valued(filled, price)
  BY <1>1, ExecutedTyped DEF FirmTyped
<1>4. account' \in Accounts
  BY <1>1, <1>2, <1>3, ValuedTyped
<1>5. trace' \in Traces
  BY HistoryAfterOrder
<1> QED
  BY <1>1, <1>2, <1>4, <1>5 DEF FirmTyped

LEMMA SettleTyped ==
  ASSUME FirmInv, FirmTyped, Settle
  PROVE  FirmTyped'
<1>1. /\ arriving \in Reports /\ arriving.price \in Nat \ {0} /\ arriving' = None
      /\ UNCHANGED <<account, snapshot>>
  BY DEF Settle, FirmInv, FirmTyped
<1>2. arriving.side \in Sides /\ arriving.qty \in Nat \ {0} /\ arriving.id \in OrderIds
  BY <1>1, FirmAssumption DEF Reports
<1>3. CASE UNCHANGED <<aggregate, trace>>
  BY <1>1, <1>3 DEF FirmTyped
<1>4. CASE ~UNCHANGED <<aggregate, trace>>
  <2> DEFINE key == <<arriving.id, arriving.side>>
             booked == Grown(trace.booked, key, arriving.qty)
  <2>1. /\ aggregate' = Applied(aggregate, arriving.side, arriving.qty, arriving.price)
        /\ trace' = [trace EXCEPT !.booked = booked]
    BY <1>4 DEF Settle
  <2>2. aggregate' \in Positions
    BY <1>1, <1>2, <2>1, AppliedIsPosition DEF FirmTyped
  <2>3. trace.booked \in [Tickets -> Nat] /\ key \in Tickets
    BY <1>2 DEF FirmTyped, Traces, Tickets
  <2>4. booked = [trace.booked EXCEPT ![key] = trace.booked[key] + arriving.qty]
    BY DEF Grown
  <2> HIDE DEF key, booked
  <2>5. trace.booked[key] + arriving.qty \in Nat
    BY <1>2, <2>3
  <2>6. booked \in [Tickets -> Nat]
    BY <2>3, <2>4, <2>5
  <2>7. trace' \in Traces
    BY <2>1, <2>6 DEF FirmTyped, Traces
  <2> QED
    BY <1>1, <2>2, <2>7 DEF FirmTyped
<1> QED
  BY <1>3, <1>4

LEMMA RestoreTyped ==
  ASSUME FirmTyped, RestoreFromSnapshot
  PROVE  FirmTyped'
<1> DEFINE balance == snapshot.balance
           positions == snapshot.positions
<1>1. account' = [account EXCEPT !.balance = balance, !.positions = positions]
      /\ trace' = [trace EXCEPT !.restored = "since"]
      /\ UNCHANGED <<arriving, aggregate, snapshot>>
  BY DEF RestoreFromSnapshot
<1>2. balance \in Int /\ positions \in [Symbols -> Positions]
  BY DEF RestoreFromSnapshot, FirmTyped, Snapshots
<1> HIDE DEF balance, positions
<1>3. account' \in Accounts
  BY <1>1, <1>2 DEF FirmTyped, Accounts
<1>4. trace' \in Traces
  BY <1>1 DEF FirmTyped, Traces
<1> QED
  BY <1>1, <1>3, <1>4 DEF FirmTyped

LEMMA ValuationTyped ==
  ASSUME FirmTyped, NEW price \in Int,
         account' = Valued(account, price),
         trace' = [trace EXCEPT !.mark = price,
                                !.restored = IF @ = "since" THEN "before" ELSE @],
         UNCHANGED <<arriving, aggregate, snapshot>>
  PROVE  FirmTyped'
<1>1. account' \in Accounts
  BY ValuedTyped DEF FirmTyped
<1>2. trace' \in Traces
  BY HistoryAfterValuation DEF FirmTyped
<1> QED
  BY <1>1, <1>2 DEF FirmTyped

LEMMA NextFirmTyped == MarketInv /\ FirmInv /\ FirmTyped /\ [Next]_vars => FirmTyped'
<1> SUFFICES ASSUME MarketInv, FirmInv, FirmTyped, [Next]_vars PROVE FirmTyped'
  OBVIOUS
<1>1. CASE UNCHANGED firm
  BY <1>1 DEF firm, FirmTyped
<1>2. CASE Feed
  BY <1>2, TickHasPrice, ValuationTyped DEF Feed, ProcessMarketData
<1>3. ASSUME NEW price \in Limits, RunSettlement(price) PROVE FirmTyped'
  <2>1. price \in Int
    BY FirmAssumption
  <2> QED
    BY <1>3, <2>1, ValuationTyped DEF RunSettlement
<1>4. CASE Abandon
  <2>1. trace' \in Traces
    BY <1>4 DEF Abandon, FirmTyped, Traces
  <2> QED
    BY <1>4, <2>1 DEF Abandon, FirmTyped
<1>5. CASE CreateSnapshot
  <2>1. snapshot' \in Snapshots
    BY <1>5 DEF CreateSnapshot, FirmTyped, Accounts, Snapshots
  <2> QED
    BY <1>5, <2>1 DEF CreateSnapshot, FirmTyped
<1> QED
  BY <1>1, <1>2, <1>3, <1>4, <1>5, SubmitTyped, SettleTyped, RestoreTyped DEF Next, FirmNext, Lifecycle, vars
-----------------------------------------------------------------------------
BundleTyped ==
  /\ bundle \in [connected : BOOLEAN, running : BOOLEAN]
  /\ bundle.running => bundle.connected

LEMMA InitBundle == Init => BundleTyped
  BY DEF Init, BundleTyped

LEMMA NextBundle == BundleTyped /\ [Next]_vars => BundleTyped'
<1> SUFFICES ASSUME BundleTyped, [Next]_vars PROVE BundleTyped'
  OBVIOUS
<1>1. CASE UNCHANGED bundle
  BY <1>1 DEF BundleTyped
<1>2. CASE Lifecycle
  <2>1. CASE Shutdown
    BY <2>1 DEF Shutdown, BundleTyped
  <2>5. CASE Restart
    BY <2>5 DEF Restart, BundleTyped
  <2>2. CASE Connect
    BY <2>2 DEF Connect, BundleTyped
  <2>3. CASE Start
    BY <2>3 DEF Start, BundleTyped
  <2>4. CASE Stop
    BY <2>4 DEF Stop, BundleTyped
  <2> QED
    BY <1>2, <2>1, <2>2, <2>3, <2>4, <2>5 DEF Lifecycle
<1> QED
  BY <1>1, <1>2 DEF Next, Feed, vars

\* Whatever the market, the traders and the callers of the bundle do, the
\* positions and the aggregate are positions, the margins are never negative,
\* the deduplicator knows no report that was not made, and the bundle does not
\* run unless it is connected.
THEOREM EnvironmentTyped == Spec => []TypeOK
<1>1. MarketInv => MarketTypeOK
  BY DEF MarketInv, MarketTyped, MarketTypeOK
<1>2. FirmInv /\ FirmTyped => FirmTypeOK
  BY DEF FirmInv, FirmTyped, FirmTypeOK, Accounts
<1>3. MarketInv /\ FirmInv /\ FirmTyped /\ BundleTyped => TypeOK
  BY <1>1, <1>2 DEF BundleTyped, TypeOK
<1> QED
  BY <1>3, InitMarket, NextMarket, InitFirm, NextFirm, InitFirmTyped, NextFirmTyped, InitBundle,
     NextBundle, PTL DEF Spec
-----------------------------------------------------------------------------
(* The account is that of its positions and its executions. *)

LEMMA InitMargin == Init => MarginIsCurrent
<1> SUFFICES ASSUME FirmInit PROVE account = Valued(account, trace.mark)
  BY DEF Init, MarginIsCurrent
<1>1. account = NewAccount /\ trace.mark = 0
  BY DEF FirmInit
<1> DEFINE positions == [s \in Symbols |-> Flat]
<1>2. /\ NewAccount.positions = positions /\ NewAccount.balance = Capital
      /\ NewAccount.realized = 0 /\ NewAccount.unrealized = 0 /\ NewAccount.used = 0
      /\ NewAccount.free = Capital
  BY DEF NewAccount
<1>3. Unrealized(positions, 0) = 0 /\ UsedMargin(positions) = 0
  BY TotalOfNothing DEF Unrealized, UsedMargin, Flat
<1>4. (IF Capital + 0 + 0 - 0 > 0 THEN Capital + 0 + 0 - 0 ELSE 0) = Capital
  BY FirmAssumption
<1> HIDE DEF positions
<1>5. Valued(NewAccount, 0) = [NewAccount EXCEPT !.unrealized = 0, !.used = 0, !.free = Capital]
  BY <1>2, <1>3, <1>4 DEF Valued
<1>6. [NewAccount EXCEPT !.unrealized = 0, !.used = 0, !.free = Capital] = NewAccount
  BY <1>2 DEF NewAccount
<1> QED
  BY <1>1, <1>5, <1>6

\* Every step that moves the account, other than a restore, ends in a valuation.
LEMMA NextMargin == MarketInv /\ FirmInv /\ FirmTyped /\ MarginIsCurrent /\ [Next]_vars => MarginIsCurrent'
<1> SUFFICES ASSUME MarketInv, FirmInv, FirmTyped, MarginIsCurrent, [Next]_vars
             PROVE  MarginIsCurrent'
  OBVIOUS
<1>1. ASSUME NEW acc \in Accounts, NEW price \in Int, account' = Valued(acc, price), trace'.mark = price
      PROVE  MarginIsCurrent'
  BY <1>1, ValuedTwice DEF MarginIsCurrent
<1>2. ASSUME UNCHANGED account, trace'.mark = trace.mark,
             trace'.restored = trace.restored
      PROVE  MarginIsCurrent'
  BY <1>2 DEF MarginIsCurrent
<1>3. account \in Accounts /\ trace \in Traces
  BY DEF FirmTyped
<1>4. CASE Feed
  <2>1. tick'.price \in Int
    BY <1>4, TickHasPrice
  <2>2. trace'.mark = tick'.price /\ account' = Valued(account, tick'.price)
    BY <1>3, <1>4, <2>1, HistoryAfterValuation DEF Feed, ProcessMarketData
  <2> QED
    BY <1>1, <1>3, <2>1, <2>2
<1>5. ASSUME NEW price \in Limits, RunSettlement(price) PROVE MarginIsCurrent'
  <2>1. price \in Int
    BY FirmAssumption
  <2>2. trace'.mark = price /\ account' = Valued(account, price)
    BY <1>3, <1>5, <2>1, HistoryAfterValuation DEF RunSettlement
  <2> QED
    BY <1>1, <1>3, <2>1, <2>2
<1>6. ASSUME NEW order \in Orders, Submit(order) PROVE MarginIsCurrent'
  <2> DEFINE price == Match(order)
  <2>1. price \in Nat \ {0}
    BY <1>6, PriceOfOrder DEF Submit
  <2>2. account' = Executed(account, order, price) /\ trace'.mark = price
    BY <1>6, HistoryAfterOrder DEF Submit
  <2> HIDE DEF price
  <2>3. PICK filled \in Accounts : Executed(account, order, price) = Valued(filled, price)
    BY <1>3, <2>1, ExecutedTyped
  <2> QED
    BY <1>1, <2>1, <2>2, <2>3
<1>7. CASE Settle
  <2>1. UNCHANGED account
    BY <1>7 DEF Settle
  <2>2. trace'.mark = trace.mark /\ trace'.restored = trace.restored
    BY <1>3, <1>7 DEF Settle, Traces
  <2> QED
    BY <1>2, <2>1, <2>2
<1>8. CASE Abandon \/ CreateSnapshot
  <2>1. UNCHANGED account /\ trace'.mark = trace.mark /\ trace'.restored = trace.restored
    BY <1>3, <1>8 DEF Abandon, CreateSnapshot, Traces
  <2> QED
    BY <1>2, <2>1
<1>9. CASE RestoreFromSnapshot
  BY <1>3, <1>9 DEF RestoreFromSnapshot, MarginIsCurrent, Traces
<1>10. CASE UNCHANGED firm
  BY <1>10 DEF firm, MarginIsCurrent
<1> QED
  BY <1>4, <1>5, <1>6, <1>7, <1>8, <1>9, <1>10 DEF Next, FirmNext, Lifecycle, vars

\* Whatever is traded, settled, lost and restored: the margin on which the next
\* order is judged is that of the positions and of the profit the account has
\* now, unless they have been restored and nothing was valued since.
THEOREM MarginStaysCurrent == Spec => []MarginIsCurrent
  BY InitMarket, NextMarket, InitFirm, NextFirm, InitFirmTyped, NextFirmTyped, InitMargin,
     NextMargin, PTL DEF Spec
-----------------------------------------------------------------------------
\* The average of an order and the position it adds to is a whole number.  The
\* code averages in floating point, the model in whole points, rounding down:
\* this says of a behaviour that nothing is rounded in it.
WholeAverages ==
  \A order \in Orders :
    LET held == account.positions[Symbol(order)] IN
    Submit(order) /\ held.qty > 0 /\ held.side = order.side =>
      (held.qty + order.qty) * Weighted(held, order.qty, Match(order)) =
        held.qty * held.avg + order.qty * Match(order)

\* While nothing was dropped or restored, the firm holds what it bought less
\* what it sold, and has realized what it was paid and what it still holds cost.
Traded ==
  (~trace.dropped /\ trace.restored = "no") =>
    /\ trace.net = Nets(account.positions)
    /\ account.realized = trace.cash + Total(Costs(account.positions))

\* What one order does to the position it meets, if it closes no more than there
\* is: its units move the net, and its money the cost or the profit.
LEMMA OneOrder ==
  ASSUME NEW p \in Positions, NEW side \in Sides, NEW qty \in Nat \ {0}, NEW price \in Nat \ {0},
         ~(p.qty > 0 /\ p.side # side /\ qty > p.qty),
         p.qty > 0 /\ p.side = side =>
           (p.qty + qty) * Weighted(p, qty, price) = p.qty * p.avg + qty * price
  PROVE  LET after == Updated(p, side, qty, price) IN
         /\ Net(after) = Net(p) + Signed(side, qty)
         /\ Cost(after) = Cost(p) + Gained(p, side, qty, price) + Signed(side, qty * price)
<1> DEFINE after == Updated(p, side, qty, price)
           paid == qty * price
<1>1. paid \in Nat
  BY ProductIsNatural
<1>2. p.qty \in Nat
  BY PositionCases
<1>3. CASE p.qty = 0
  <2>1. after = [side |-> side, qty |-> 0 + qty, avg |-> price]
    BY <1>3 DEF Updated, Added
  <2>2. after.side = side /\ after.qty = qty /\ after.avg = price
    BY <2>1
  <2>3. Gained(p, side, qty, price) = 0 /\ Net(p) = 0 /\ Cost(p) = 0
    BY <1>3 DEF Gained, Net, Cost
  <2>4. Net(after) = Signed(side, qty) /\ Cost(after) = Signed(side, paid)
    BY <2>2 DEF Net, Cost
  <2>5. Signed(side, qty) \in Int /\ Signed(side, paid) \in Int
    BY <1>1, SignedIsInteger
  <2> HIDE DEF after, paid
  <2>6. /\ Net(after) = Net(p) + Signed(side, qty)
        /\ Cost(after) = Cost(p) + Gained(p, side, qty, price) + Signed(side, paid)
    BY <2>3, <2>4, <2>5
  <2> QED
    BY <2>6 DEF after, paid
<1>4. CASE p.qty > 0 /\ p.side = side
  <2> DEFINE average == Weighted(p, qty, price)
             held == p.qty * p.avg
             total == (p.qty + qty) * average
  <2>1. after = [side |-> side, qty |-> p.qty + qty, avg |-> average]
    BY <1>4 DEF Updated, Added
  <2>2. p.avg \in Nat /\ average \in Nat
    BY <1>4, PositionCases, WeightedIsNatural
  <2>3. held \in Nat /\ total = held + paid
    BY <1>2, <1>4, <2>2, ProductIsNatural
  <2> HIDE DEF average
  <2>4. after.side = side /\ after.qty = p.qty + qty /\ after.avg = average
    BY <2>1
  <2>5. Gained(p, side, qty, price) = 0
    BY <1>4 DEF Gained
  <2>6. Net(p) = Signed(side, p.qty) /\ Cost(p) = Signed(side, held)
    BY <1>4 DEF Net, Cost
  <2>7. Net(after) = Signed(side, p.qty + qty) /\ Cost(after) = Signed(side, total)
    BY <1>2, <2>4 DEF Net, Cost
  <2> HIDE DEF after, paid, held, total
  <2>8. /\ Net(after) = Net(p) + Signed(side, qty)
        /\ Cost(after) = Cost(p) + Gained(p, side, qty, price) + Signed(side, paid)
    BY <1>1, <1>2, <2>3, <2>5, <2>6, <2>7 DEF Signed
  <2> QED
    BY <2>8 DEF after, paid
<1>5. CASE p.qty > 0 /\ p.side # side
  <2>1. /\ p.side \in Sides /\ p.avg \in Nat /\ p.qty \in Nat \ {0} /\ qty <= p.qty
    BY <1>5, PositionCases
  <2> DEFINE closed == qty * p.avg
             held == p.qty * p.avg
             left == (p.qty - qty) * p.avg
             gain == qty * (price - p.avg)
  <2>2. closed \in Int /\ held \in Int /\ left = held - closed /\ gain = paid - closed
    <3> DEFINE a == p.qty
               b == p.avg
    <3>1. a \in Int /\ b \in Int
      BY <2>1
    <3> HIDE DEF a, b
    <3>2. qty * b \in Int /\ a * b \in Int /\ (a - qty) * b = a * b - qty * b
          /\ qty * (price - b) = qty * price - qty * b
      BY <3>1
    <3> QED
      BY <3>2 DEF a, b
  <2>3. Net(p) = Signed(p.side, p.qty) /\ Cost(p) = Signed(p.side, held)
    BY <2>1 DEF Net, Cost
  <2>4. Gained(p, side, qty, price) = Signed(p.side, qty) * (price - p.avg)
    BY <1>5, <2>1 DEF Gained
  <2>5. Signed(p.side, qty) * (price - p.avg) = Signed(p.side, gain)
    <3> DEFINE d == price - p.avg
    <3>1. d \in Int
      BY <2>1
    <3> HIDE DEF d
    <3>2. (-qty) * d = -(qty * d)
      BY <3>1
    <3>3. Signed(p.side, qty) * d = Signed(p.side, qty * d)
      BY <3>2 DEF Signed
    <3> QED
      BY <3>3 DEF d
  <2>6. Net(after) = Signed(p.side, p.qty - qty) /\ Cost(after) = Signed(p.side, left)
    <3>1. CASE qty < p.qty
      <4> DEFINE n == p.qty - qty
      <4>1. after = [p EXCEPT !.qty = n]
        BY <1>5, <3>1 DEF Updated
      <4>2. n # 0
        BY <2>1, <3>1
      <4>3. DOMAIN p = {"side", "qty", "avg"}
        BY PositionCases
      <4> HIDE DEF n
      <4>4. after.side = p.side /\ after.qty = n /\ after.avg = p.avg
        BY <4>1, <4>3
      <4>5. Net(after) = Signed(p.side, n) /\ Cost(after) = Signed(p.side, n * p.avg)
        BY <4>2, <4>4 DEF Net, Cost
      <4> QED
        BY <4>5 DEF n
    <3>2. CASE ~(qty < p.qty)
      <4>1. after = Flat /\ qty = p.qty
        BY <1>5, <2>1, <3>2 DEF Updated
      <4>2. Net(after) = 0 /\ Cost(after) = 0
        BY <4>1 DEF Net, Cost, Flat
      <4>3. p.qty - qty = 0 /\ left = 0
        BY <2>1, <4>1
      <4> QED
        BY <4>2, <4>3 DEF Signed
    <3> QED
      BY <3>1, <3>2
  <2>7. Signed(p.side, paid) = -Signed(side, paid) /\ Signed(p.side, qty) = -Signed(side, qty)
    BY <1>1, <1>5, <2>1 DEF Sides, Signed
  <2> DEFINE gained == Gained(p, side, qty, price)
  <2>8. gained = Signed(p.side, gain)
    BY <2>4, <2>5
  <2> HIDE DEF after, paid, closed, held, left, gain, gained
  <2>9. Net(after) = Net(p) + Signed(side, qty)
    BY <2>1, <2>3, <2>6, <2>7 DEF Signed
  <2>10. Cost(after) = Cost(p) + gained + Signed(side, paid)
    BY <1>1, <1>5, <2>1, <2>2, <2>3, <2>6, <2>8 DEF Signed, Sides
  <2> QED
    BY <2>9, <2>10 DEF after, paid, gained
<1> QED
  BY <1>2, <1>3, <1>4, <1>5
-----------------------------------------------------------------------------
LEMMA InitTraded == Init => Traded
<1> SUFFICES ASSUME FirmInit PROVE Traded
  BY DEF Init
<1>1. /\ account.positions = [s \in Symbols |-> Flat] /\ account.realized = 0
      /\ trace.net = [s \in Symbols |-> 0] /\ trace.cash = 0
  BY DEF FirmInit, NewAccount
<1>2. \A s \in Symbols : Nets(account.positions)[s] = 0 /\ Costs(account.positions)[s] = 0
  BY <1>1 DEF Nets, Costs, Net, Cost, Flat
<1>3. Total(Costs(account.positions)) = 0
  BY <1>2, TotalOfNothing
<1>4. Nets(account.positions) = trace.net
  BY <1>1, <1>2 DEF Nets
<1> QED
  BY <1>1, <1>3, <1>4 DEF Traded

\* Where neither the positions nor what was traded moves.
LEMMA TradedStays ==
  ASSUME Traded,
         account'.positions = account.positions, account'.realized = account.realized,
         trace'.net = trace.net, trace'.cash = trace.cash, trace'.dropped = trace.dropped,
         trace'.restored = "no" => trace.restored = "no"
  PROVE  Traded'
<1> SUFFICES ASSUME ~trace'.dropped, trace'.restored = "no"
             PROVE  /\ trace'.net = Nets(account'.positions)
                    /\ account'.realized = trace'.cash + Total(Costs(account'.positions))
  BY DEF Traded
<1> QED
  BY DEF Traded

LEMMA SubmitTrades ==
  ASSUME FirmInv, FirmTyped, Traded, NEW order \in Orders, Submit(order), WholeAverages
  PROVE  Traded'
<1> SUFFICES ASSUME ~trace'.dropped, trace'.restored = "no"
             PROVE  /\ trace'.net = Nets(account'.positions)
                    /\ account'.realized = trace'.cash + Total(Costs(account'.positions))
  BY DEF Traded
<1> DEFINE price == Match(order)
           symbol == Symbol(order)
           side == order.side
           qty == order.qty
           before == account.positions
           held == before[symbol]
           after == Updated(held, side, qty, price)
           moved == Moved(before, order, price)
           gained == Gained(held, side, qty, price)
           units == Signed(side, qty)
           paid == Signed(side, qty * price)
<1>1. /\ price \in Nat \ {0} /\ account' = Executed(account, order, price)
      /\ symbol \in Symbols /\ side \in Sides /\ qty \in Nat \ {0}
  BY PriceOfOrder, OrderTyped DEF Submit
<1>2. /\ trace'.cash = trace.cash - paid
      /\ trace'.net = [trace.net EXCEPT ![symbol] = trace.net[symbol] + units]
      /\ trace.restored = "no" /\ ~trace.dropped
      /\ ~(held.qty > 0 /\ held.side # side /\ qty > held.qty)
  BY HistoryAfterOrder DEF Grown
<1>3. trace.net = Nets(before) /\ account.realized = trace.cash + Total(Costs(before))
  BY <1>2 DEF Traded
<1>4. before \in [Symbols -> Positions] /\ held \in Positions /\ account \in Accounts
  BY <1>1 DEF FirmTyped, Accounts
<1>5. held.qty > 0 /\ held.side = side =>
        (held.qty + qty) * Weighted(held, qty, price) = held.qty * held.avg + qty * price
  BY DEF WholeAverages
<1>6. account'.positions = moved /\ account'.realized = account.realized + gained
  <2>1. PICK filled \in Accounts : /\ account' = Valued(filled, price)
                                   /\ filled.positions = moved
                                   /\ filled.realized = account.realized + gained
    <3> HIDE DEF price
    <3> QED
      BY <1>1, <1>4, ExecutedTyped
  <2> QED
    BY <1>1, <2>1, ValuedTyped
<1>7. moved = [before EXCEPT ![symbol] = after] /\ moved \in [Symbols -> Positions]
  BY <1>1, <1>4, MovedTyped DEF Moved
<1>8. after \in Positions /\ gained \in Int
  BY <1>1, <1>4, UpdatedIsPosition, GainedIsInteger
<1>9. Net(after) = Net(held) + units /\ Cost(after) = Cost(held) + gained + paid
  <2> HIDE DEF price, symbol, side, qty, before, held
  <2> QED
    BY <1>1, <1>2, <1>4, <1>5, OneOrder, ZenonT(30)
<1>10. paid \in Int /\ trace.cash \in Int
  <2>1. qty * price \in Int
    BY <1>1
  <2> QED
    BY <2>1, SignedIsInteger DEF FirmTyped, Traces
<1> HIDE DEF price, symbol, side, qty, before, held, after, moved, gained, units, paid
<1>11. trace'.net = Nets(moved)
  <2>1. /\ Nets(moved)[symbol] = Net(after)
        /\ \A s \in Symbols \ {symbol} : Nets(moved)[s] = Net(before[s])
    BY <1>1, <1>4, <1>7 DEF Nets
  <2>2. /\ Nets(before)[symbol] = Net(held)
        /\ \A s \in Symbols \ {symbol} : Nets(before)[s] = Net(before[s])
    BY <1>1 DEF Nets, held
  <2>3. trace'.net = [s \in Symbols |-> IF s = symbol THEN Net(held) + units ELSE Net(before[s])]
    BY <1>1, <1>2, <1>3, <2>2 DEF Nets
  <2>4. Nets(moved) = [s \in Symbols |-> IF s = symbol THEN Net(held) + units ELSE Net(before[s])]
    BY <1>9, <2>1 DEF Nets
  <2> QED
    BY <2>3, <2>4
<1>12. Total(Costs(moved)) = Total(Costs(before)) + (gained + paid)
  <2>1. Costs(moved) \in [Symbols -> Int] /\ Costs(before) \in [Symbols -> Int]
    BY <1>4, <1>7, WorthsTyped
  <2>2. Costs(moved)[symbol] = Cost(after) /\ Costs(before)[symbol] = Cost(held)
    BY <1>1, <1>4, <1>7 DEF Costs, held
  <2>3. \A s \in Symbols \ {symbol} : Costs(moved)[s] = Costs(before)[s]
    BY <1>4, <1>7 DEF Costs
  <2>4. Cost(held) \in Int
    BY <1>4, WorthTyped
  <2>5. gained + paid \in Int /\ Costs(moved)[symbol] = Costs(before)[symbol] + (gained + paid)
    BY <1>8, <1>9, <1>10, <2>2, <2>4
  <2> QED
    BY <1>1, <2>1, <2>3, <2>5, TotalMoves
<1>13. account'.realized = trace'.cash + Total(Costs(moved))
  <2> DEFINE total == Total(Costs(before))
             cash == trace.cash
  <2>1. total \in Int
    BY <1>4, WorthsTyped, TotalIsInteger
  <2>2. account'.realized = (cash + total) + gained
    BY <1>3, <1>6
  <2>3. trace'.cash + Total(Costs(moved)) = (cash - paid) + (total + (gained + paid))
    BY <1>2, <1>12
  <2>4. cash \in Int
    BY <1>10
  <2> HIDE DEF total, cash
  <2>5. (cash + total) + gained = (cash - paid) + (total + (gained + paid))
    BY <1>8, <1>10, <2>1, <2>4
  <2> QED
    BY <2>2, <2>3, <2>5
<1> QED
  BY <1>6, <1>11, <1>13

LEMMA NextTraded ==
  /\ MarketInv /\ FirmInv /\ FirmTyped /\ Traded
  /\ [Next]_vars /\ [WholeAverages]_vars
  => Traded'
<1> SUFFICES ASSUME MarketInv, FirmInv, FirmTyped, Traded, [Next]_vars, [WholeAverages]_vars
             PROVE  Traded'
  OBVIOUS
<1>1. account \in Accounts /\ trace \in Traces
  BY DEF FirmTyped
<1>2. CASE UNCHANGED firm
  BY <1>2 DEF firm, Traded
<1>3. CASE WholeAverages
  <2>1. ASSUME NEW price \in Int, account' = Valued(account, price),
               trace' = [trace EXCEPT !.mark = price,
                                      !.restored = IF @ = "since" THEN "before" ELSE @]
        PROVE  Traded'
    BY <1>1, <2>1, ValuedTyped, HistoryAfterValuation, TradedStays
  <2>2. CASE Feed
    BY <2>1, <2>2, TickHasPrice DEF Feed, ProcessMarketData
  <2>3. ASSUME NEW price \in Limits, RunSettlement(price) PROVE Traded'
    <3>1. price \in Int
      BY FirmAssumption
    <3> QED
      BY <2>1, <2>3, <3>1 DEF RunSettlement
  <2>4. ASSUME NEW order \in Orders, Submit(order) PROVE Traded'
    BY <1>3, <2>4, SubmitTrades
  <2>5. CASE Settle \/ Abandon \/ CreateSnapshot
    <3>1. UNCHANGED account
      BY <2>5 DEF Settle, Abandon, CreateSnapshot
    <3>2. /\ trace'.net = trace.net /\ trace'.cash = trace.cash /\ trace'.dropped = trace.dropped
          /\ trace'.restored = trace.restored
      BY <1>1, <2>5 DEF Settle, Abandon, CreateSnapshot, Traces
    <3> QED
      BY <3>1, <3>2, TradedStays
  <2>6. CASE RestoreFromSnapshot
    <3>1. trace'.restored = "since"
      BY <1>1, <2>6 DEF RestoreFromSnapshot, Traces
    <3> QED
      BY <3>1 DEF Traded
  <2> QED
    BY <1>2, <2>2, <2>3, <2>4, <2>5, <2>6 DEF Next, FirmNext, Lifecycle, vars
<1> QED
  BY <1>2, <1>3 DEF vars

\* Where no average is rounded: profit, realized or not, is what the executions
\* brought in and, at the price of the last valuation, what they left, until a
\* closing order larger than its position or a restore; and the margins are
\* those of the positions the account has now.
THEOREM AccountStaysTrue == Spec /\ [][WholeAverages]_vars => []AccountIsTrue
<1>1. FirmTyped /\ Traded /\ MarginIsCurrent => AccountIsTrue
  <2> SUFFICES ASSUME FirmTyped, Traded, MarginIsCurrent,
                      ~trace.dropped, trace.restored = "no"
               PROVE  account.realized + account.unrealized = trace.cash + trace.mark * Total(trace.net)
    BY DEF AccountIsTrue, ProfitIsTraded
  <2> DEFINE positions == account.positions
             price == trace.mark
             units == Total(Nets(positions))
             cost == Total(Costs(positions))
             cash == trace.cash
  <2>1. account \in Accounts /\ positions \in [Symbols -> Positions]
        /\ price \in Int /\ cash \in Int
    BY DEF FirmTyped, Accounts, Traces
  <2>2. units \in Int /\ cost \in Int
    BY <2>1, WorthsTyped, TotalIsInteger
  <2>3. account.unrealized = price * units - cost
    <3>1. account = Valued(account, price)
      BY DEF MarginIsCurrent
    <3>2. account.unrealized = Unrealized(positions, price)
      BY <2>1, <3>1, ValuedTyped
    <3> HIDE DEF price, positions
    <3> QED
      BY <2>1, <3>2, UnrealizedIsWorth
  <2>4. Total(trace.net) = units /\ account.realized = cash + cost
    BY DEF Traded
  <2> HIDE DEF positions, price, units, cost, cash
  <2>5. price * units \in Int
    BY <2>1, <2>2
  <2>6. (cash + cost) + (price * units - cost) = cash + price * units
    BY <2>1, <2>2, <2>5
  <2> QED
    BY <2>3, <2>4, <2>6 DEF price, cash
<1> QED
  BY <1>1, InitMarket, NextMarket, InitFirm, NextFirm, InitFirmTyped, NextFirmTyped, InitMargin,
     NextMargin, InitTraded, NextTraded, PTL DEF Spec
-----------------------------------------------------------------------------
(* What the firm has executed, as the reports come. *)

\* The units of a report that are those of a ticket.
Counts(report, t) ==
  IF report.instrument = Instrument /\ <<report.id, report.side>> = t THEN report.qty ELSE 0

\* The recursion of ExecutedUnits, for a function over 0..m.
Counted(U, reports, t, m) ==
  U = [n \in 0..m |-> IF n = 0 THEN 0 ELSE U[n - 1] + Counts(reports[n], t)]
UnitsOf(reports, t) == (CHOOSE U : Counted(U, reports, t, Len(reports)))[Len(reports)]

LEMMA ExecutedIsUnits == \A t : ExecutedUnits(t) = UnitsOf(executions, t)
  BY DEF ExecutedUnits, UnitsOf, Counted, Counts

LEMMA CountedSteps ==
  ASSUME NEW U, NEW reports, NEW t, NEW m \in Nat, Counted(U, reports, t, m)
  PROVE  /\ U[0] = 0
         /\ \A n \in 1..m : U[n] = U[n - 1] + Counts(reports[n], t)
<1>1. \A n \in 0..m : U[n] = IF n = 0 THEN 0 ELSE U[n - 1] + Counts(reports[n], t)
  BY DEF Counted
<1> QED
  BY <1>1

LEMMA CountedExists ==
  ASSUME NEW reports, NEW t, NEW m \in Nat
  PROVE  \E U : Counted(U, reports, t, m)
<1> DEFINE N == {n \in Nat : \E U : Counted(U, reports, t, n)}
<1>1. 0 \in N
  <2> DEFINE U == [n \in 0..0 |-> 0]
  <2>1. [n \in 0..0 |-> IF n = 0 THEN 0 ELSE U[n - 1] + Counts(reports[n], t)] = U
    OBVIOUS
  <2> HIDE DEF U
  <2>2. Counted(U, reports, t, 0)
    BY <2>1 DEF Counted
  <2> QED
    BY <2>2
<1>2. ASSUME NEW k \in Nat, k \in N PROVE k + 1 \in N
  <2>1. PICK U : Counted(U, reports, t, k)
    BY <1>2
  <2> DEFINE V == [n \in 0..(k + 1) |->
                     IF n <= k THEN U[n] ELSE U[k] + Counts(reports[k + 1], t)]
  <2>2. \A n \in 0..(k + 1) : V[n] = IF n <= k THEN U[n] ELSE U[k] + Counts(reports[k + 1], t)
    OBVIOUS
  <2>3. V = [n \in 0..(k + 1) |-> V[n]]
    OBVIOUS
  <2> HIDE DEF V
  <2>4. ASSUME NEW n \in 0..(k + 1)
        PROVE  V[n] = IF n = 0 THEN 0 ELSE V[n - 1] + Counts(reports[n], t)
    <3>1. CASE n = 0
      BY <2>1, <2>2, <3>1, CountedSteps
    <3>2. CASE n \in 1..k
      <4>1. V[n] = U[n] /\ V[n - 1] = U[n - 1]
        BY <2>2, <3>2
      <4> QED
        BY <2>1, <3>2, <4>1, CountedSteps
    <3>3. CASE n = k + 1
      <4>1. V[n] = U[k] + Counts(reports[n], t) /\ V[n - 1] = U[k]
        BY <2>2, <3>3
      <4> QED
        BY <3>3, <4>1
    <3> QED
      BY <3>1, <3>2, <3>3
  <2>5. Counted(V, reports, t, k + 1)
    BY <2>3, <2>4 DEF Counted
  <2> QED
    BY <2>5
<1>3. Nat \subseteq N
  <2> HIDE DEF N
  <2> QED
    BY <1>1, <1>2, Climbs
<1> QED
  BY <1>3

\* The counts of reports and of more of them agree on the first.
LEMMA CountsAgree ==
  ASSUME NEW t, NEW p, NEW q, NEW k \in Nat, NEW m \in Nat, k <= m,
         \A i \in 1..k : p[i] = q[i],
         NEW U, Counted(U, p, t, k), NEW V, Counted(V, q, t, m)
  PROVE  U[k] = V[k]
<1> DEFINE N == {i \in Nat : i <= k => U[i] = V[i]}
<1>1. 0 \in N
  BY CountedSteps
<1>2. ASSUME NEW i \in Nat, i \in N PROVE i + 1 \in N
  <2>1. CASE i + 1 <= k
    <3>1. i + 1 \in 1..k /\ i + 1 \in 1..m /\ (i + 1) - 1 = i /\ i <= k
      BY <2>1
    <3>2. U[i + 1] = U[i] + Counts(p[i + 1], t)
      BY <3>1, CountedSteps
    <3>3. V[i + 1] = V[i] + Counts(q[i + 1], t)
      BY <3>1, CountedSteps
    <3> QED
      BY <1>2, <3>1, <3>2, <3>3
  <2> QED
    BY <2>1
<1>3. Nat \subseteq N
  <2> HIDE DEF N
  <2> QED
    BY <1>1, <1>2, Climbs
<1> QED
  BY <1>3

LEMMA CountsNatural ==
  ASSUME NEW report \in Reports, NEW t
  PROVE  Counts(report, t) \in Nat
  BY FirmAssumption DEF Counts, Reports

LEMMA UnitsCounted ==
  ASSUME NEW reports \in Seq(Reports), NEW t
  PROVE  \E U : Counted(U, reports, t, Len(reports)) /\ UnitsOf(reports, t) = U[Len(reports)]
<1>1. Len(reports) \in Nat
  OBVIOUS
<1> QED
  BY <1>1, CountedExists DEF UnitsOf

LEMMA UnitsNatural ==
  ASSUME NEW reports \in Seq(Reports), NEW t
  PROVE  UnitsOf(reports, t) \in Nat
<1>1. PICK U : Counted(U, reports, t, Len(reports)) /\ UnitsOf(reports, t) = U[Len(reports)]
  BY UnitsCounted
<1> DEFINE N == {i \in Nat : i <= Len(reports) => U[i] \in Nat}
<1>2. Len(reports) \in Nat
  OBVIOUS
<1>3. 0 \in N
  BY <1>1, <1>2, CountedSteps
<1>4. ASSUME NEW i \in Nat, i \in N PROVE i + 1 \in N
  <2>1. CASE i + 1 <= Len(reports)
    <3>1. i + 1 \in 1..Len(reports) /\ (i + 1) - 1 = i
      BY <1>2, <2>1
    <3>2. U[i + 1] = U[i] + Counts(reports[i + 1], t)
      BY <1>1, <1>2, <3>1, CountedSteps
    <3>3. reports[i + 1] \in Reports
      BY <3>1, ElementOfSeq
    <3> QED
      BY <1>2, <1>4, <2>1, <3>2, <3>3, CountsNatural
  <2> QED
    BY <2>1
<1>5. Nat \subseteq N
  <2> HIDE DEF N
  <2> QED
    BY <1>3, <1>4, Climbs
<1> QED
  BY <1>1, <1>2, <1>5

LEMMA NoUnits ==
  ASSUME NEW t
  PROVE  UnitsOf(<<>>, t) = 0
<1>1. <<>> \in Seq(Reports) /\ Len(<<>>) = 0
  OBVIOUS
<1>2. PICK U : Counted(U, <<>>, t, 0) /\ UnitsOf(<<>>, t) = U[0]
  BY <1>1, UnitsCounted
<1> QED
  BY <1>2, CountedSteps

\* Another report adds its units.
LEMMA UnitsGrow ==
  ASSUME NEW reports \in Seq(Reports), NEW report \in Reports, NEW t
  PROVE  UnitsOf(Append(reports, report), t) = UnitsOf(reports, t) + Counts(report, t)
<1> DEFINE k == Len(reports)
           more == Append(reports, report)
<1>1. k \in Nat /\ more \in Seq(Reports) /\ Len(more) = k + 1 /\ more[k + 1] = report
      /\ \A i \in 1..k : reports[i] = more[i]
  BY AppendProperties
<1>2. PICK U : Counted(U, reports, t, k) /\ UnitsOf(reports, t) = U[k]
  BY UnitsCounted
<1> HIDE DEF k, more
<1>3. PICK V : Counted(V, more, t, k + 1) /\ UnitsOf(more, t) = V[k + 1]
  BY <1>1, UnitsCounted
<1>4. U[k] = V[k]
  <2>1. k + 1 \in Nat /\ k <= k + 1
    BY <1>1
  <2> QED
    BY <1>1, <1>2, <1>3, <2>1, CountsAgree
<1>5. V[k + 1] = V[k] + Counts(report, t)
  <2>1. k + 1 \in Nat /\ k + 1 \in 1..(k + 1) /\ (k + 1) - 1 = k
    BY <1>1
  <2> QED
    BY <1>1, <1>3, <2>1, CountedSteps
<1> QED
  BY <1>2, <1>3, <1>4, <1>5 DEF more
-----------------------------------------------------------------------------
(* The bridge books what the firm has executed, and what is arriving is still *)
(* to be booked.                                                             *)

Pending(t) == IF arriving # None THEN Counts(arriving, t) ELSE 0

BookedFits ==
  \A t \in Tickets : trace.booked[t] + Pending(t) <= UnitsOf(executions, t)

LEMMA InitBooked == Init => BookedFits
<1> SUFFICES ASSUME FirmInit PROVE BookedFits
  BY DEF Init
<1>1. \A t \in Tickets : trace.booked[t] = 0 /\ Pending(t) = 0
  BY DEF FirmInit, Pending
<1>2. \A t : UnitsOf(executions, t) = 0
  BY NoUnits DEF FirmInit
<1> QED
  BY <1>1, <1>2 DEF BookedFits

LEMMA BookedNatural ==
  ASSUME FirmInv, FirmTyped, NEW t \in Tickets
  PROVE  /\ trace.booked[t] \in Nat /\ Pending(t) \in Nat /\ UnitsOf(executions, t) \in Nat
         /\ trace.booked \in [Tickets -> Nat]
  BY CountsNatural, UnitsNatural DEF FirmInv, FirmTyped, Traces, Pending

\* A report that is made and a report that is booked.
LEMMA SubmitReports ==
  ASSUME FirmInv, FirmTyped, NEW order \in Orders, Submit(order)
  PROVE  /\ arriving = None /\ arriving' # None /\ arriving' \in Reports
         /\ executions' = Append(executions, arriving')
         /\ trace'.booked = trace.booked /\ UNCHANGED aggregate
<1> DEFINE price == Match(order)
           report == [exec |-> Len(executions) + 1, id |-> order.id,
                      instrument |-> order.instrument, side |-> order.side,
                      qty |-> order.qty, price |-> price]
<1>1. /\ arriving = None /\ arriving' = report
      /\ executions' = Append(executions, report)
      /\ UNCHANGED aggregate
  BY DEF Submit
<1>0. /\ order.instrument \in Instruments /\ order.side \in Sides /\ order.id \in OrderIds
      /\ order.qty \in Sizes
  BY OrderTyped
<1>2. report \in Reports
  <2>1. price \in Int
    BY PriceOfOrder DEF Submit
  <2>2. Len(executions) \in Nat
    BY DEF FirmInv
  <2> HIDE DEF price
  <2> QED
    BY <1>0, <2>1, <2>2 DEF Reports
<1>3. report # None
  BY <1>2, FirmAssumption
<1> HIDE DEF report
<1> QED
  BY <1>1, <1>2, <1>3, HistoryAfterOrder

LEMMA AppliedMoves ==
  ASSUME NEW p \in Positions, NEW side \in Sides, NEW qty \in Nat \ {0}, NEW price
  PROVE  LET after == Applied(p, side, qty, price) IN
         Signed(after.side, after.qty) = Signed(p.side, p.qty) + Signed(side, qty)
<1> DEFINE after == Applied(p, side, qty, price)
<1>1. p.qty \in Nat /\ DOMAIN p = {"side", "qty", "avg"} /\ (p.qty # 0 => p.side \in Sides)
  BY PositionCases
<1>2. CASE p.qty = 0 \/ p.side = side
  <2> DEFINE average == IF p.qty = 0 THEN price ELSE Weighted(p, qty, price)
  <2>1. after = [side |-> side, qty |-> p.qty + qty, avg |-> average]
    BY <1>2 DEF Applied, Added
  <2> HIDE DEF average
  <2>2. after.side = side /\ after.qty = p.qty + qty
    BY <2>1
  <2> HIDE DEF after
  <2>3. Signed(after.side, after.qty) = Signed(p.side, p.qty) + Signed(side, qty)
    BY <1>1, <1>2, <2>2 DEF Signed
  <2> QED
    BY <2>3 DEF after
<1>3. CASE ~(p.qty = 0 \/ p.side = side)
  <2>1. after.qty \in Int /\ Signed(after.side, after.qty) = Signed(p.side, p.qty - qty)
    <3>1. CASE qty < p.qty
      <4> DEFINE n == p.qty - qty
      <4>1. after = [p EXCEPT !.qty = n]
        BY <1>3, <3>1 DEF Applied
      <4>2. n \in Int
        BY <1>1
      <4> HIDE DEF n, after
      <4>3. after.qty = n /\ after.side = p.side
        BY <1>1, <4>1
      <4> QED
        BY <4>2, <4>3 DEF n
    <3>2. CASE qty = p.qty
      <4>1. after = Flat
        BY <1>3, <3>2 DEF Applied
      <4>2. p.qty - qty = 0
        BY <1>1, <3>2
      <4> HIDE DEF after
      <4> QED
        BY <4>1, <4>2 DEF Flat, Signed
    <3>3. CASE qty > p.qty
      <4>1. ~(qty < p.qty) /\ qty # p.qty
        BY <1>1, <3>3
      <4>2. after = [side |-> side, qty |-> qty - p.qty, avg |-> price]
        BY <1>3, <4>1 DEF Applied
      <4> HIDE DEF after
      <4>3. after.side = side /\ after.qty = qty - p.qty
        BY <4>2
      <4>4. p.side \in Sides /\ p.side # side
        BY <1>1, <1>3
      <4> QED
        BY <1>1, <4>3, <4>4 DEF Signed, Sides
    <3> QED
      BY <1>1, <3>1, <3>2, <3>3
  <2> HIDE DEF after
  <2>2. p.side \in Sides /\ p.side # side
    BY <1>1, <1>3
  <2>3. Signed(after.side, after.qty) = Signed(p.side, p.qty) + Signed(side, qty)
    BY <1>1, <2>1, <2>2 DEF Signed, Sides
  <2> QED
    BY <2>3 DEF after
<1> QED
  BY <1>2, <1>3

LEMMA SettleBooks ==
  ASSUME FirmInv, FirmTyped, Settle
  PROVE  /\ arriving # None /\ arriving \in Reports /\ arriving' = None
         /\ UNCHANGED executions
         /\ arriving.instrument # Instrument => UNCHANGED <<aggregate, trace>>
         /\ arriving.instrument = Instrument =>
              /\ <<arriving.id, arriving.side>> \in Tickets
              /\ trace'.booked = Grown(trace.booked, <<arriving.id, arriving.side>>, arriving.qty)
              /\ Signed(aggregate'.side, aggregate'.qty) =
                   Signed(aggregate.side, aggregate.qty) + Signed(arriving.side, arriving.qty)
<1>1. /\ arriving # None /\ arriving \in Reports /\ arriving' = None
      /\ arriving.exec \notin seen /\ UNCHANGED executions
  BY DEF Settle, FirmInv
<1>2. arriving.side \in Sides /\ arriving.qty \in Nat \ {0} /\ arriving.id \in OrderIds
  BY <1>1, FirmAssumption DEF Reports
<1>3. CASE arriving.instrument # Instrument
  BY <1>1, <1>3 DEF Settle
<1>4. CASE arriving.instrument = Instrument
  <2> DEFINE booked == Grown(trace.booked, <<arriving.id, arriving.side>>, arriving.qty)
  <2>1. /\ aggregate' = Applied(aggregate, arriving.side, arriving.qty, arriving.price)
        /\ trace' = [trace EXCEPT !.booked = booked]
    BY <1>1, <1>4 DEF Settle
  <2>2. Signed(aggregate'.side, aggregate'.qty) =
          Signed(aggregate.side, aggregate.qty) + Signed(arriving.side, arriving.qty)
    BY <1>2, <2>1, AppliedMoves DEF FirmTyped
  <2>3. <<arriving.id, arriving.side>> \in Tickets
    BY <1>2 DEF Tickets
  <2> HIDE DEF booked
  <2>4. trace'.booked = booked
    BY <2>1 DEF FirmTyped, Traces
  <2> QED
    BY <1>1, <1>4, <2>2, <2>3, <2>4 DEF booked
<1> QED
  BY <1>3, <1>4

\* The other steps of the firm book and execute nothing.
Idle ==
  /\ UNCHANGED <<executions, aggregate>>
  /\ trace'.booked = trace.booked
  /\ arriving' = None \/ UNCHANGED arriving

LEMMA OthersIdle ==
  ASSUME FirmTyped, [Next]_vars,
         ~\E order \in Orders : Submit(order), ~Settle
  PROVE  Idle
<1>1. CASE UNCHANGED firm
  BY <1>1 DEF firm, Idle
<1>2. ASSUME NEW price, trace' = [trace EXCEPT !.mark = price,
                                    !.restored = IF @ = "since" THEN "before" ELSE @]
      PROVE  trace'.booked = trace.booked
  <2> DEFINE restored == IF trace.restored = "since" THEN "before" ELSE trace.restored
  <2>1. trace' = [trace EXCEPT !.mark = price, !.restored = restored]
    BY <1>2
  <2> HIDE DEF restored
  <2> QED
    BY <2>1 DEF FirmTyped, Traces
<1>3. CASE Feed
  BY <1>2, <1>3 DEF Feed, ProcessMarketData, Idle
<1>4. ASSUME NEW price \in Limits, RunSettlement(price) PROVE Idle
  BY <1>2, <1>4 DEF RunSettlement, Idle
<1>5. CASE Abandon \/ CreateSnapshot \/ RestoreFromSnapshot
  BY <1>5 DEF Abandon, CreateSnapshot, RestoreFromSnapshot, FirmTyped, Traces, Idle
<1> QED
  BY <1>1, <1>3, <1>4, <1>5 DEF Next, FirmNext, Lifecycle, vars

LEMMA NextBooked == FirmInv /\ FirmTyped /\ FirmInv' /\ FirmTyped' /\ BookedFits /\ [Next]_vars => BookedFits'
<1> SUFFICES ASSUME FirmInv, FirmTyped, FirmInv', FirmTyped', BookedFits, [Next]_vars, NEW t \in Tickets
             PROVE  trace'.booked[t] + Pending(t)' <= UnitsOf(executions', t)
  BY DEF BookedFits
<1>1. trace.booked[t] + Pending(t) <= UnitsOf(executions, t)
  BY DEF BookedFits
<1>2. trace.booked[t] \in Nat /\ Pending(t) \in Nat /\ UnitsOf(executions, t) \in Nat
  BY BookedNatural
<1>3. Pending(t)' = IF arriving' # None THEN Counts(arriving', t) ELSE 0
  BY DEF Pending
<1>4. ASSUME NEW order \in Orders, Submit(order)
      PROVE  trace'.booked[t] + Pending(t)' <= UnitsOf(executions', t)
  <2>1. /\ arriving = None /\ arriving' # None /\ arriving' \in Reports
        /\ executions' = Append(executions, arriving') /\ trace'.booked = trace.booked
    BY <1>4, SubmitReports
  <2>2. UnitsOf(executions', t) = UnitsOf(executions, t) + Counts(arriving', t)
    BY <2>1, UnitsGrow DEF FirmInv
  <2>3. Counts(arriving', t) \in Nat
    BY <2>1, CountsNatural
  <2>4. Pending(t) = 0 /\ Pending(t)' = Counts(arriving', t)
    BY <1>3, <2>1 DEF Pending
  <2> QED
    BY <1>1, <1>2, <2>1, <2>2, <2>3, <2>4
<1>5. CASE Settle
  <2>1. /\ arriving # None /\ arriving \in Reports /\ arriving' = None /\ UNCHANGED executions
    BY <1>5, SettleBooks
  <2>2. Pending(t)' = 0 /\ Pending(t) = Counts(arriving, t)
    BY <1>3, <2>1 DEF Pending
  <2>3. trace'.booked[t] = trace.booked[t] \/ trace'.booked[t] = trace.booked[t] + Pending(t)
    <3>1. CASE arriving.instrument # Instrument
      BY <1>5, <3>1, SettleBooks
    <3>2. CASE arriving.instrument = Instrument
      <4> DEFINE key == <<arriving.id, arriving.side>>
      <4>1. key \in Tickets /\ trace'.booked = Grown(trace.booked, key, arriving.qty)
        BY <1>5, <3>2, SettleBooks
      <4>2. trace.booked \in [Tickets -> Nat]
        BY BookedNatural
      <4>3. Pending(t) = IF key = t THEN arriving.qty ELSE 0
        BY <2>2, <3>2 DEF Counts
      <4> HIDE DEF key
      <4> QED
        BY <4>1, <4>2, <4>3 DEF Grown
    <3> QED
      BY <3>1, <3>2
  <2> QED
    BY <1>1, <1>2, <2>1, <2>2, <2>3
<1>6. CASE Idle
  <2>1. Pending(t)' = Pending(t) \/ Pending(t)' = 0
    BY <1>3, <1>6 DEF Idle, Pending
  <2> QED
    BY <1>1, <1>2, <1>6, <2>1 DEF Idle
<1> QED
  BY <1>4, <1>5, <1>6, OthersIdle
-----------------------------------------------------------------------------
(* The refinement, step by step. *)

LEMMA SignedNothing ==
  ASSUME NEW side, NEW n \in Int, n + n = n
  PROVE  Signed(side, n) = 0
  BY DEF Signed

LEMMA LedgerStart == Init => Ledger!Init
<1> SUFFICES ASSUME FirmInit PROVE Ledger!Init
  BY DEF Init
<1>1. \A t \in Tickets : ExecutedUnits(t) = 0
  BY ExecutedIsUnits, NoUnits DEF FirmInit
<1>2. Signed(aggregate.side, aggregate.qty) = 0
  <2>1. aggregate.qty = 0
    BY DEF FirmInit, Flat
  <2>2. aggregate.qty \in Int /\ aggregate.qty + aggregate.qty = aggregate.qty
    BY <2>1
  <2> QED
    BY <2>2, SignedNothing
<1>3. trace.booked = [t \in Tickets |-> 0]
  BY DEF FirmInit
<1> QED
  BY <1>1, <1>2, <1>3 DEF Ledger!Init

\* What the ledger sees of the firm and of the bridge.
ExecutedByTicket == [t \in Tickets |-> ExecutedUnits(t)]
HeldByBridge == Signed(aggregate.side, aggregate.qty)

LEMMA ExecutedNow ==
  /\ ExecutedByTicket = [t \in Tickets |-> UnitsOf(executions, t)]
  /\ ExecutedByTicket' = [t \in Tickets |-> UnitsOf(executions', t)]
<1>1. ExecutedByTicket = [t \in Tickets |-> UnitsOf(executions, t)]
  BY ExecutedIsUnits DEF ExecutedByTicket
<1>2. ExecutedByTicket' = [t \in Tickets |-> UnitsOf(executions', t)]
  BY DEF ExecutedByTicket, ExecutedUnits, UnitsOf, Counted, Counts
<1> QED
  BY <1>1, <1>2
-----------------------------------------------------------------------------
\* Each step maps to a step of the ledger, or to none.
LEMMA LedgerStep ==
  ASSUME FirmInv, FirmTyped, BookedFits, [Next]_vars
  PROVE  [Ledger!Next]_Ledger!vars
<1>1. CASE Idle
  <2>1. ExecutedByTicket' = ExecutedByTicket
    BY <1>1, ExecutedNow DEF Idle
  <2>2. HeldByBridge' = HeldByBridge /\ trace'.booked = trace.booked
    BY <1>1 DEF Idle, HeldByBridge
  <2> QED
    BY <2>1, <2>2 DEF Ledger!vars, ExecutedByTicket, HeldByBridge
<1>2. ASSUME NEW order \in Orders, Submit(order)
      PROVE  [Ledger!Next]_Ledger!vars
  <2> DEFINE key == <<arriving'.id, arriving'.side>>
  <2>1. /\ arriving' \in Reports /\ executions' = Append(executions, arriving')
        /\ trace'.booked = trace.booked /\ HeldByBridge' = HeldByBridge
    BY <1>2, SubmitReports DEF HeldByBridge
  <2>2. \A t : UnitsOf(executions', t) = UnitsOf(executions, t) + Counts(arriving', t)
    BY <2>1, UnitsGrow DEF FirmInv
  <2>3. \A t : UnitsOf(executions, t) \in Nat
    BY UnitsNatural DEF FirmInv
  <2>4. CASE arriving'.instrument = Instrument
    <3>1. key \in Tickets /\ arriving'.qty \in Nat \ {0}
      BY <2>1, FirmAssumption DEF Tickets, Reports
    <3>2. \A t : Counts(arriving', t) = IF t = key THEN arriving'.qty ELSE 0
      BY <2>4 DEF Counts
    <3> HIDE DEF key
    <3>3. ExecutedByTicket'[key] > ExecutedByTicket[key]
      BY <2>2, <2>3, <3>1, <3>2, ExecutedNow
    <3>4. ExecutedByTicket' = [ExecutedByTicket EXCEPT ![key] = ExecutedByTicket'[key]]
      BY <2>2, <2>3, <3>1, <3>2, ExecutedNow
    <3>5. Ledger!Execute(key)
      BY <2>1, <3>3, <3>4 DEF Ledger!Execute, ExecutedByTicket, HeldByBridge
    <3> QED
      BY <3>1, <3>5 DEF Ledger!Next
  <2>5. CASE arriving'.instrument # Instrument
    <3>1. \A t : Counts(arriving', t) = 0
      BY <2>5 DEF Counts
    <3>2. ExecutedByTicket' = ExecutedByTicket
      BY <2>2, <2>3, <3>1, ExecutedNow
    <3> QED
      BY <2>1, <3>2 DEF Ledger!vars, ExecutedByTicket, HeldByBridge
  <2> QED
    BY <2>4, <2>5
<1>3. CASE Settle
  <2> DEFINE key == <<arriving.id, arriving.side>>
             qty == arriving.qty
  <2>1. /\ arriving # None /\ arriving \in Reports /\ UNCHANGED executions
    BY <1>3, SettleBooks
  <2>2. ExecutedByTicket' = ExecutedByTicket
    BY <2>1, ExecutedNow
  <2>3. CASE arriving.instrument # Instrument
    <3>1. UNCHANGED <<aggregate, trace>>
      BY <1>3, <2>3, SettleBooks
    <3> QED
      BY <2>2, <3>1 DEF Ledger!vars, ExecutedByTicket
  <2>4. CASE arriving.instrument = Instrument
    <3>1. /\ key \in Tickets /\ trace'.booked = Grown(trace.booked, key, qty)
          /\ HeldByBridge' = HeldByBridge + Signed(arriving.side, qty)
      BY <1>3, <2>4, SettleBooks DEF HeldByBridge
    <3>2. qty \in Nat \ {0} /\ arriving.side \in Sides
      BY <2>1, FirmAssumption DEF Reports
    <3>3. trace.booked \in [Tickets -> Nat]
      BY DEF FirmTyped, Traces
    <3>4. trace.booked[key] + qty <= ExecutedByTicket[key] /\ ExecutedByTicket[key] \in Nat
      <4>1. Pending(key) = qty
        BY <2>1, <2>4 DEF Pending, Counts
      <4> HIDE DEF key, qty
      <4>2. trace.booked[key] + Pending(key) <= UnitsOf(executions, key)
        BY <3>1 DEF BookedFits
      <4>3. UnitsOf(executions, key) \in Nat
        BY UnitsNatural DEF FirmInv
      <4> QED
        BY <3>1, <4>1, <4>2, <4>3, ExecutedNow
    <3>5. [t \in Tickets |-> Signed(t[2], 1)][key] * qty = Signed(arriving.side, qty)
      <4>1. [t \in Tickets |-> Signed(t[2], 1)][key] = Signed(arriving.side, 1)
        BY <3>1
      <4>2. Signed(arriving.side, 1) * qty = Signed(arriving.side, qty)
        BY <3>2 DEF Signed
      <4> QED
        BY <4>1, <4>2
    <3> HIDE DEF key, qty
    <3>6. /\ trace'.booked[key] = trace.booked[key] + qty
          /\ trace'.booked = [trace.booked EXCEPT ![key] = trace'.booked[key]]
      BY <3>1, <3>3 DEF Grown
    <3>7. trace'.booked[key] \in trace.booked[key] + 1 .. ExecutedByTicket[key]
      BY <3>1, <3>2, <3>3, <3>4, <3>6
    <3>8. trace'.booked[key] - trace.booked[key] = qty
      BY <3>1, <3>2, <3>3, <3>6
    <3>9. HeldByBridge' = HeldByBridge + [t \in Tickets |-> Signed(t[2], 1)][key] * (trace'.booked[key] - trace.booked[key])
      BY <3>1, <3>5, <3>8
    <3>10. Ledger!Book(key)
      BY <2>2, <3>6, <3>7, <3>9 DEF Ledger!Book, ExecutedByTicket, HeldByBridge
    <3> QED
      BY <3>1, <3>10 DEF Ledger!Next
  <2> QED
    BY <2>3, <2>4
<1> QED
  BY <1>1, <1>2, <1>3, OthersIdle

\* The bridge keeps the promise of settlement, whatever the market, the orders
\* and the callers do: what the firm has executed of the instrument is booked at
\* most once, in the order and in the aggregate in the same step, and nothing is
\* booked that was not executed.
THEOREM BridgeIsLedger == Spec => SettledOnce
<1>1. /\ MarketInv /\ FirmInv /\ FirmTyped /\ BookedFits /\ [Next]_vars
      => /\ MarketInv' /\ FirmInv' /\ FirmTyped' /\ BookedFits'
         /\ [Ledger!Next]_Ledger!vars
  BY NextMarket, NextFirm, NextFirmTyped, NextBooked, LedgerStep
<1> QED
  BY <1>1, InitMarket, InitFirm, InitFirmTyped, InitBooked, LedgerStart, PTL
     DEF Spec, SettledOnce, Ledger!Spec
=============================================================================
