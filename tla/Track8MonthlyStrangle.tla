------------------------- MODULE Track8MonthlyStrangle -------------------------
(***************************************************************************)
(* core/strategy/track8_macro_regime_monthly_strangle.py.  evaluate_input  *)
(* runs its parts one after the other, each on the state the part before   *)
(* left: a part maps [s, out], the state and the signals so far, to the    *)
(* next.  Prices are in half points, money in tenths of the multiplier.    *)
(***************************************************************************)
EXTENDS StrategyBasics

CONSTANTS
  DaysToExpiry,     \* dte of each date of the feed, the bound of the feed
  Prices, Budgets,
  Profits,          \* current_pnl - total_fees
  ProfitTarget

VARIABLES clock, state, signals,
  history   \* held: strangles bought and not closed by the signals, nor taken
            \* back by a reset; best: highest value of the present strikes

vars == <<clock, state, signals, history>>

Offset == 30

Track8State ==
  [active : BOOLEAN, date : {0} \cup DOMAIN DaysToExpiry, spent : Nat, call : Int,
   put : Int, quantity_call : Nat, quantity_put : Nat, high : Nat, counter : Nat]

Fresh == [active |-> FALSE, date |-> 0, spent |-> 0, call |-> 0, put |-> 0,
          quantity_call |-> 0, quantity_put |-> 0, high |-> 0, counter |-> 0]
NoHistory == [held |-> 0, best |-> 0]

Init ==
  /\ clock = [date |-> 1, time |-> 900]
  /\ state = Fresh
  /\ signals = {}
  /\ history = NoHistory

Inputs == [date : DOMAIN DaysToExpiry, time : {900, 1515}, price : Prices,
           budget : Budgets, regime : {"NORMAL", "HIGH_VOL"}, pnl : Profits,
           vol : {10, 15}, guarded : BOOLEAN]

Dte(d) == DaysToExpiry[d.date]

Also(r, s, signal) == [s |-> s, out |-> r.out \cup {signal}]
Silently(r, s) == [s |-> s, out |-> r.out]

\* The strikes around the money.
Struck(s, d) == [s EXCEPT !.call = Nearest(d.price, 5) + Offset,
                          !.put = Nearest(d.price, 5) - Offset]

\* Quantities a budget pays for: more puts than calls.
Calls(d) == Larger(1, (2 * d.budget) \div (IF d.regime = "HIGH_VOL" THEN 84 ELSE 69))
Puts(d) == IF d.regime = "HIGH_VOL" THEN 2 * Calls(d) ELSE (3 * Calls(d)) \div 2
Cost(d) == 12 * Calls(d) + 15 * Puts(d)

\* Another date than that of the entry clears the state.
Entry(r, d) ==
  LET s == IF r.s.date \notin {0, d.date} THEN Fresh ELSE r.s IN
  IF s.active \/ Dte(d) < 15 \/ d.budget < 8 \/ d.budget < Cost(d)
  THEN Silently(r, s)
  ELSE Also(r, Struck([s EXCEPT !.active = TRUE, !.date = d.date, !.spent = Cost(d),
                                !.quantity_call = Calls(d), !.quantity_put = Puts(d)], d),
            "BUY_LIMIT_TRANCHE")

MacroProtection(r, d) ==
  IF d.regime = "HIGH_VOL" THEN Also(r, r.s, "MACRO_HEDGE_SCALE_UP") ELSE r

Value(s, d) ==
  5 * Intrinsic(s.put, s.call, d.price) * Larger(s.quantity_call, s.quantity_put)

Enough(s, d) == 10 * Value(s, d) >= s.spent * (IF d.vol < 13 THEN 18 ELSE 25)

\* Slip: the position is given up and no signal sent.
TakenSlip(r) == Silently(r, Fresh)
Taken(r) == Also(r, Fresh, "TAKE_PROFIT")

TakeProfit(r, d) ==
  LET high == Larger(r.s.high, Value(r.s, d)) IN
  IF ~r.s.active \/ ~Enough(r.s, d) THEN r
  ELSE IF Fallen(Value(r.s, d), high, r.s.spent)
  THEN Taken(r)
  ELSE IF r.s.high = 0 \/ 100 * high >= 101 * r.s.high
  THEN Also(r, [r.s EXCEPT !.high = high], "UPDATE_TRAILING")
  ELSE Silently(r, [r.s EXCEPT !.high = high])

\* Slip: the mark of the old strikes is kept.
ProfitRebuildSlip(r, d) ==
  IF ~r.s.active \/ d.guarded \/ d.pnl < ProfitTarget THEN r
  ELSE Also(Also(r, r.s, "DYNAMIC_PROFIT_TAKE"), Struck(r.s, d), "DYNAMIC_REBUILD_FENCE")
ProfitRebuild(r, d) ==
  IF ~r.s.active \/ d.guarded \/ d.pnl < ProfitTarget THEN r
  ELSE Also(Also(r, r.s, "DYNAMIC_PROFIT_TAKE"),
            Struck([r.s EXCEPT !.high = 0], d), "DYNAMIC_REBUILD_FENCE")

Near(strike, price) == strike > 0 /\ 100 * Magnitude(price - strike) <= 3 * strike

ExpiryCutoff(r, d) ==
  CASE ~r.s.active -> r
    [] r.s.active /\ Cancelling(d.time) -> Also(r, r.s, "CANCEL_PENDING_TRANCHES")
    [] r.s.active /\ ~Cancelling(d.time) /\ Dte(d) > 4 -> r
    [] OTHER ->
       IF Near(r.s.call, d.price) \/ Near(r.s.put, d.price) \/ d.vol >= 15
       THEN Also(r, [r.s EXCEPT !.counter = @ + 1], "HOLD_LONG_ATTACK")
       ELSE IF r.s.counter > 0
       THEN Also(r, [r.s EXCEPT !.counter = @ - 1], "HOLD_HYSTERESIS")
       ELSE Also(r, Fresh, "FLAT_STRANGLE")

\* The parts in order.
Evaluated(s, d) ==
  ExpiryCutoff(ProfitRebuild(TakeProfit(MacroProtection(Entry(
    [s |-> s, out |-> {}], d), d), d), d), d)

Bought(out) == IF "BUY_LIMIT_TRANCHE" \in out THEN 1 ELSE 0
Closed(out) == IF {"TAKE_PROFIT", "FLAT_STRANGLE"} \cap out # {} THEN 1 ELSE 0

SameStrikes(s, t) == s.active /\ t.active /\ s.call = t.call /\ s.date = t.date

Evaluate(d) ==
  LET r == Evaluated(state, d) IN
  /\ Follows(clock, d)
  /\ clock' = At(d)
  /\ state' = r.s
  /\ signals' = r.out
  /\ history' = [held |-> history.held + Bought(r.out) - Closed(r.out),
                 best |-> IF ~r.s.active THEN 0
                          ELSE IF SameStrikes(state, r.s) /\ "DYNAMIC_REBUILD_FENCE" \notin r.out
                          THEN Larger(history.best, Value(r.s, d))
                          ELSE IF "DYNAMIC_REBUILD_FENCE" \in r.out THEN 0
                          ELSE Value(r.s, d)]

Believed(s) == IF s.active THEN 1 ELSE 0

Reset ==
  /\ state' = Fresh
  /\ signals' = {}
  /\ history' = [held |-> history.held - Believed(state), best |-> 0]
  /\ UNCHANGED clock

Next == (\E d \in Inputs : Evaluate(d)) \/ Reset

Spec == Init /\ [][Next]_vars

-----------------------------------------------------------------------------
TypeOK ==
  /\ clock \in [date : DOMAIN DaysToExpiry, time : {900, 1515}]
  /\ state \in Track8State
  /\ state.active <=> state.date # 0
  /\ state.active <=> state.quantity_call > 0
  /\ state.active \/ state = Fresh
  /\ history \in [held : Int, best : Nat]

\* On one date the strategy's belief and its signals move together: whatever
\* it takes in or gives up, a signal says so, the profit it takes and the
\* flattening at the expiry included (evaluate_take_profit and
\* evaluate_expiry_cutoff both clear the state).  Another date drops the
\* position without a signal.
StrangleMovesWithSignals ==
  clock'.date = clock.date
    => history'.held - history.held = Believed(state') - Believed(state)

\* The trailing stop is of the present strikes: its mark was reached by them,
\* and is a profit of at least 1.8 times what was spent.
StopOfPresentStrikes ==
  state.high > 0 => /\ state.high <= history.best
                    /\ 10 * state.high >= 18 * state.spent
=============================================================================
