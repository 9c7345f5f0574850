--------------------------- MODULE Track1TailDefense ---------------------------
(***************************************************************************)
(* core/strategy/track1_tail_defense.py: option fences built at the first  *)
(* tick, a futures hedge when the price nears the inner (put) fence, its   *)
(* unwinding, the D-4 cutoff.  Prices are in quarter points.               *)
(***************************************************************************)
EXTENDS StrategyBasics

CONSTANTS
  Days,             \* bound: last date of the feed
  Prices,
  MaxHedges,        \* max_hedge_allowed
  None

VARIABLES clock, state, signals,
  history           \* sold: futures sold by the signals less bought back;
                    \* entries: hedges opened on this date

vars == <<clock, state, signals, history>>

Track1State ==
  [market_opened : BOOLEAN, base_price : Prices \cup {None}, fence_distance : {30, 50},
   fence : {None, "PUT"}, hedge : {None, "SELL"}, entry : Prices \cup {None},
   count : 0..MaxHedges, count_date : 1..Days \cup {None}]

Fresh == [market_opened |-> FALSE, base_price |-> None, fence_distance |-> 30,
          fence |-> None, hedge |-> None, entry |-> None,
          count |-> 0, count_date |-> None]

NoHistory == [sold |-> 0, entries |-> 0]

Init ==
  /\ clock = [date |-> 1, time |-> 900]
  /\ state = Fresh
  /\ signals = {}
  /\ history = NoHistory

\* A tick, always with its time: expiring is days_to_expiry <= 4, vol says how
\* active_vol compares with base_vol, quantity is the futures quantity that
\* delta_to_mini_futures_qty gives.
Inputs == [date : 1..Days, time : {900}, expiring : BOOLEAN,
           vol : {None, "low", "high"}, momentum : BOOLEAN, quantity : {0, 1},
           price : Prices]

Counted(s, d) ==
  IF s.count_date # d.date
  THEN [s EXCEPT !.count = 0, !.count_date = d.date]
  ELSE s

Distanced(s, d) ==
  IF d.vol = None THEN s
  ELSE [s EXCEPT !.fence_distance = IF d.vol = "high" THEN 50 ELSE 30]

Approaching(s, d) == 10 * (s.base_price - d.price) >= 9 * s.fence_distance

Hedged(s, d) ==
  IF d.quantity > 0
  THEN [s EXCEPT !.hedge = "SELL", !.entry = d.price, !.count = @ + 1]
  ELSE s

Reverted(s, d) == s.hedge = "SELL" /\ d.price - s.entry >= 6

Emit(s, out, sold, entered) ==
  /\ state' = s
  /\ signals' = out
  /\ history' = [sold |-> history.sold + sold,
                 entries |-> entered +
                   IF clock'.date # clock.date THEN 0 ELSE history.entries]

\* Four days before expiry the fence is given up, whatever else is open.
Cutoff(d) ==
  LET s == Counted(state, d) IN
  /\ d.expiring
  /\ Emit([s EXCEPT !.fence = None], IF s.fence = None THEN {} ELSE {"FLAT"}, 0, 0)

Open(d) ==
  LET s == Distanced(Counted(state, d), d) IN
  /\ ~d.expiring /\ ~s.market_opened
  /\ Emit([s EXCEPT !.market_opened = TRUE, !.base_price = d.price, !.fence = "PUT"],
          {"CALL OUTER", "PUT OUTER", "PUT INNER"}, 0, 0)

Unfenced(d) ==
  LET s == Distanced(Counted(state, d), d) IN
  /\ ~d.expiring /\ s.market_opened /\ s.fence = None
  /\ Emit(s, {}, 0, 0)

Hedge(d) ==
  LET s == Distanced(Counted(state, d), d) IN
  /\ ~d.expiring /\ s.market_opened /\ s.fence # None
  /\ Approaching(s, d) /\ s.hedge = None
  /\ d.momentum /\ s.count < MaxHedges
  /\ IF d.quantity > 0
     THEN Emit(Hedged(s, d), {"SELL"}, 1, 1)
     ELSE Emit(Hedged(s, d), {}, 0, 0)

Watch(d) ==
  LET s == Distanced(Counted(state, d), d) IN
  /\ ~d.expiring /\ s.market_opened /\ s.fence # None
  /\ ~(Approaching(s, d) /\ s.hedge = None /\ d.momentum /\ s.count < MaxHedges)
  /\ IF Reverted(s, d)
     THEN Emit([s EXCEPT !.hedge = None, !.entry = None], {"FUTURES_UNWIND"}, -1, 0)
     ELSE Emit(s, {}, 0, 0)

Evaluate(d) ==
  /\ Follows(clock, d)
  /\ clock' = At(d)
  /\ Cutoff(d) \/ Open(d) \/ Unfenced(d) \/ Hedge(d) \/ Watch(d)

Reset ==
  /\ state' = Fresh
  /\ signals' = {}
  /\ history' = NoHistory
  /\ UNCHANGED clock

Next == (\E d \in Inputs : Evaluate(d)) \/ Reset

Spec == Init /\ [][Next]_vars

-----------------------------------------------------------------------------
\* The record the strategy keeps has the fields of Track1State; a hedge has an
\* entry price, and no date counts more hedges than allowed.
TypeOK ==
  /\ clock \in [date : 1..Days, time : {900}]
  /\ state \in Track1State
  /\ (state.hedge = None) <=> (state.entry = None)
  /\ state.fence # None => state.base_price # None
  /\ history \in [sold : Int, entries : Int]

\* The futures hedge the strategy takes itself to hold is the net of the
\* futures signals it has emitted: a trigger that is rolled back (no
\* quantity), an unwinding and the D-4 cutoff leave the two in agreement.
HedgeIsSignalled == history.sold = IF state.hedge = None THEN 0 ELSE 1

\* No more hedges than allowed are opened on one date, however often they are
\* unwound and the market falls again.
HedgesPerDay == history.entries <= MaxHedges
=============================================================================
