-------------------------- MODULE Track5GapDivergence --------------------------
(***************************************************************************)
(* core/strategy/track5_gap_divergence.py: a position against the opening  *)
(* gap, with a target, a stop, a holding limit and a trailing lock.        *)
(* Prices are relative to the previous close, in hundredths of the daily   *)
(* standard deviation.                                                     *)
(***************************************************************************)
EXTENDS StrategyBasics

CONSTANTS
  OpenPrices,       \* opening gaps
  Prices,           \* later prices
  MaxTicks,         \* 30 in the code
  None

VARIABLES state, signals,
  last              \* price of the last tick the open position was judged by

vars == <<state, signals, last>>

Track5State ==
  [direction : {None, "LONG", "SHORT"}, entry : Int, stop : Int, ticks : Nat,
   peak : Int, trailing : BOOLEAN, stage : 0..2]

Fresh == [direction |-> None, entry |-> 0, stop |-> 0, ticks |-> 0, peak |-> 0,
          trailing |-> FALSE, stage |-> 0]

Init ==
  /\ state = Fresh
  /\ signals = {}
  /\ last = None

EffectiveZ(regime) ==
  CASE regime = "HIGH_VOL" -> 180 [] regime = "NORMAL" -> 110 [] OTHER -> 150

StopDistance == 80
TrailThreshold == 30
TrailReversal == 10

StopOf(direction, open) ==
  IF direction = "SHORT" THEN open + StopDistance ELSE open - StopDistance

Inside(z, regime) == Magnitude(z) >= EffectiveZ(regime) /\ Magnitude(z) < 400

\* evaluate_gap; the target is the previous close.
EnterGap(open, regime) ==
  LET direction == IF open > 0 THEN "SHORT" ELSE "LONG" IN
  /\ state.direction = None
  /\ Inside(open, regime)
  /\ state' = [Fresh EXCEPT !.direction = direction, !.entry = open,
                            !.stop = StopOf(direction, open)]
  /\ signals' = {direction}
  /\ last' = None

IgnoreGap(open, regime) ==
  /\ state.direction # None \/ ~Inside(open, regime)
  /\ signals' = {}
  /\ UNCHANGED <<state, last>>

Pnl(s, price) == IF s.direction = "SHORT" THEN s.entry - price ELSE price - s.entry

\* open_ticks, peak_pnl and trailing_active after a tick at price.
Judged(price) ==
  LET pnl == Pnl(state, price) IN
  [state EXCEPT !.ticks = @ + 1, !.peak = Larger(@, pnl),
                !.trailing = @ \/ pnl >= TrailThreshold]

Reached(s, price) ==
  IF s.direction = "SHORT" THEN price <= 0 \/ price >= s.stop
                           ELSE price >= 0 \/ price <= s.stop

\* Percentage of the reversal that is tolerated.
Scale(pnl) ==
  CASE pnl >= 100 -> 67 [] 30 <= pnl /\ pnl < 100 -> 80 [] OTHER -> 100

\* Slip: the reversal is measured from the entry.
GaveBackSlip(s, price) ==
  s.trailing /\ -100 * Pnl(s, price) >= TrailReversal * Scale(Pnl(s, price))
GaveBack(s, price) ==
  s.trailing /\ 100 * (s.peak - Pnl(s, price)) >= TrailReversal * Scale(Pnl(s, price))

Closes(price) ==
  \/ Reached(state, price)
  \/ state.ticks + 1 >= MaxTicks
  \/ GaveBack(Judged(price), price)

Close(price) ==
  /\ state.direction # None
  /\ Closes(price)
  /\ state' = Fresh
  /\ signals' = {"CLOSE"}
  /\ last' = None

\* The stages at which part of the gain is offered to the market.
Stage(s, price) ==
  CASE s.stage = 0 /\ 4 * Pnl(s, price) >= 3 * TrailThreshold -> 1
    [] s.stage = 1 /\ 2 * Pnl(s, price) >= 3 * TrailThreshold -> 2
    [] OTHER -> s.stage

Keep(price) ==
  LET s == Judged(price) IN
  /\ state.direction # None
  /\ ~Closes(price)
  /\ state' = [s EXCEPT !.stage = Stage(s, price)]
  /\ signals' = IF Stage(s, price) # s.stage THEN {"LIQUIDITY"} ELSE {}
  /\ last' = price

Reset ==
  /\ state' = Fresh
  /\ signals' = {}
  /\ last' = None

\* evaluate_input: a tick without a current price, or with no position open,
\* is judged by the gap alone.
Next ==
  \/ \E open \in OpenPrices, regime \in {"NORMAL", "HIGH_VOL", "OTHER"} :
       EnterGap(open, regime) \/ IgnoreGap(open, regime)
  \/ \E price \in Prices : Close(price) \/ Keep(price)
  \/ Reset

Spec == Init /\ [][Next]_vars

-----------------------------------------------------------------------------
TypeOK ==
  /\ state \in Track5State
  /\ state.ticks < MaxTicks
  /\ state.direction = None => state = Fresh
  /\ last \in Prices \cup {None}

\* A position that outlives a tick is strictly between its target and its
\* stop; a new one has its entry between them.
InsideBarriers ==
  state.direction # None =>
    LET price == IF last = None THEN state.entry ELSE last IN
    IF state.direction = "SHORT" THEN 0 < price /\ price < state.stop
                                 ELSE state.stop < price /\ price < 0

\* Once the trailing lock is armed, a position that outlives a tick has given
\* back less than the reversal from its best profit, and is still in profit.
ProfitLocked ==
  state.trailing =>
    /\ state.peak - Pnl(state, last) < TrailReversal
    /\ Pnl(state, last) > 0
=============================================================================
