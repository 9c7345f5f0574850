---------------------------- MODULE StrategyBasics ----------------------------
(***************************************************************************)
(* What the strategy tracks share: the order in which a feed delivers      *)
(* ticks, strikes and intrinsic values, the graded trailing ratio.         *)
(* Prices are integers in a unit each track chooses; a time of day is the  *)
(* number its digits make (15:12 is 1512).                                 *)
(***************************************************************************)
EXTENDS Integers

Larger(a, b) == IF a >= b THEN a ELSE b
Magnitude(a) == IF a < 0 THEN -a ELSE a

\* The feed is in order: later the same day, or on the next day.
Follows(clock, data) ==
  \/ data.date = clock.date /\ data.time >= clock.time
  \/ data.date = clock.date + 1

At(data) == [date |-> data.date, time |-> data.time]

\* The closing minutes in which pending tranches are cancelled.
Cancelling(time) == 1515 <= time /\ time < 1520

\* Nearest strike; Grid is the strike interval.
Nearest(price, grid) == ((price + grid \div 2) \div grid) * grid

\* What a strangle is worth if exercised.
Intrinsic(put, call, price) == Larger(0, put - price) + Larger(0, price - call)

\* Percentage of the high-water mark at which a gain is locked in.
TrailingPercent(high, spent) ==
  LET base == Larger(1, spent) IN
  CASE high >= 2 * base          -> 90
    [] high < 2 * base /\ 10 * high >= 13 * base -> 88
    [] OTHER                     -> 85

\* A value has fallen to the trailing stop of the high-water mark.
Fallen(value, high, spent) == 100 * value <= high * TrailingPercent(high, spent)
=============================================================================
