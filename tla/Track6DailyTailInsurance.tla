----------------------- MODULE Track6DailyTailInsurance -----------------------
(***************************************************************************)
(* core/strategy/track6_daily_tail_insurance.py: a strangle bought on a    *)
(* volatility spike, its trailing profit stop and the daily cutoff.        *)
(* Prices are in hundredths of a point; the multiplier cancels out, so a   *)
(* premium is 100.                                                         *)
(***************************************************************************)
EXTENDS StrategyBasics

CONSTANTS
  Days,         \* bound: last date of the feed
  Prices,
  None

VARIABLES clock, state, signals,
  history       \* peak: highest value since the stop was armed, value: the
                \* value at the last tick that judged the position

vars == <<clock, state, signals, history>>

Offset == 1250
Premium == 100

Track6State ==
  [active : BOOLEAN, put : Int, call : Int, high : Nat, armed : BOOLEAN]

Fresh == [active |-> FALSE, put |-> 0, call |-> 0, high |-> 0, armed |-> FALSE]
NoHistory == [peak |-> 0, value |-> None]

Init ==
  /\ clock = [date |-> 1, time |-> 900]
  /\ state = Fresh
  /\ signals = {}
  /\ history = NoHistory

Inputs == [date : 1..Days, time : {900, 1500, 1512, 1515, 1520}, price : Prices,
           funded : BOOLEAN, spike : BOOLEAN, calm : BOOLEAN]

Finish(out) == state' = Fresh /\ signals' = out /\ history' = NoHistory
Quiet(out) == signals' = out /\ UNCHANGED <<state, history>>

Buys(d) == ~Cancelling(d.time) /\ d.funded /\ d.spike

\* evaluate_buy: every tick of the cancelling minutes cancels what is pending.
Buy(d) ==
  /\ ~state.active
  /\ Buys(d)
  /\ state' = [Fresh EXCEPT !.active = TRUE, !.put = Nearest(d.price, 250) - Offset,
                            !.call = Nearest(d.price, 250) + Offset]
  /\ signals' = {"BUY_INSURANCE"}
  /\ history' = NoHistory

Wait(d) ==
  /\ ~state.active
  /\ ~Buys(d)
  /\ Quiet(IF Cancelling(d.time) THEN {"CANCEL"} ELSE {})

\* evaluate_expiry_cutoff.
CutoffLimit(d) ==
  /\ state.active
  /\ 1500 <= d.time /\ d.time < 1515
  /\ Quiet({"CLOSE_LIMIT"})

CutoffFallback(d) ==
  /\ state.active
  /\ d.time >= 1515
  /\ Finish({"CLOSE_FALLBACK"})

Value(d) == Intrinsic(state.put, state.call, d.price)

Armed(d) == state.armed \/ 100 * Value(d) >= Premium * (IF d.calm THEN 150 ELSE 200)

High(d) == Larger(state.high, Value(d))

\* The mark is only moved by rises of at least one percent.
Moves(d) == state.high = 0 \/ 100 * High(d) >= 101 * state.high

\* evaluate_take_profit, reached before 15:00 only.
NotArmed(d) ==
  /\ state.active /\ d.time < 1500
  /\ ~Armed(d)
  /\ signals' = {}
  /\ history' = [history EXCEPT !.value = Value(d)]
  /\ UNCHANGED state

Stop(d) ==
  /\ state.active /\ d.time < 1500
  /\ Armed(d)
  /\ High(d) > 0 /\ Fallen(Value(d), High(d), Premium)
  /\ Finish({"CLOSE"})

Trail(d) ==
  /\ state.active /\ d.time < 1500
  /\ Armed(d)
  /\ ~(High(d) > 0 /\ Fallen(Value(d), High(d), Premium))
  /\ state' = [state EXCEPT !.armed = TRUE, !.high = IF Moves(d) THEN High(d) ELSE @]
  /\ signals' = IF Moves(d) THEN {"UPDATE_TRAILING"} ELSE {}
  /\ history' = [peak |-> Larger(history.peak, Value(d)), value |-> Value(d)]

Evaluate(d) ==
  /\ Follows(clock, d)
  /\ clock' = At(d)
  /\ \/ Buy(d) \/ Wait(d)
     \/ CutoffLimit(d) \/ CutoffFallback(d)
     \/ NotArmed(d) \/ Stop(d) \/ Trail(d)

Reset == Finish({}) /\ UNCHANGED clock

Next == (\E d \in Inputs : Evaluate(d)) \/ Reset

Spec == Init /\ [][Next]_vars

-----------------------------------------------------------------------------
TypeOK ==
  /\ clock \in [date : 1..Days, time : {900, 1500, 1512, 1515, 1520}]
  /\ state \in Track6State
  /\ state.armed => state.active
  /\ ~state.active => state = Fresh
  /\ signals \subseteq {"BUY_INSURANCE", "CANCEL", "CLOSE_LIMIT", "CLOSE_FALLBACK",
                        "CLOSE", "UPDATE_TRAILING"}
  /\ history \in [peak : Nat, value : Nat \cup {None}]

\* The high-water mark, which moves in steps of one percent, is never more
\* than one percent below the highest value since the stop was armed, and
\* never above it.
WatermarkTracksPeak ==
  state.armed => /\ state.high <= history.peak
                 /\ 100 * history.peak < 101 * state.high

\* An armed stop works: a position that outlives a tick before 15:00 is worth
\* more than the
\* trailing stop of its mark, however far the value falls at once.
ArmedStopFires == state.armed => ~Fallen(history.value, state.high, Premium)
=============================================================================
