---------------------- MODULE Track3StatisticalArbitrage ----------------------
(***************************************************************************)
(* core/strategy/track3_statistical_arbitrage.py: entry and exit of a      *)
(* spread by its z-score, with cooldowns after an exit, a trailing profit  *)
(* lock and the 15:15 flatten.  z-scores are in tenths; money is in        *)
(* thousands of won; the volatility ratio is 1.                            *)
(***************************************************************************)
EXTENDS StrategyBasics

CONSTANTS
  Days,                 \* bound: last date of the feed
  ZMagnitudes,          \* the z-scores of the feed, without their sign
  Profits,              \* effective_pnl of an open spread
  Nets,                 \* expected net profit of an entry
  MaxHoldingTicks,      \* max_holding_ticks, 300 in the code
  StopCooldown, ExitCooldown,  \* 40 and 20 in the code
  PremiumSpent, ExitCost,      \* ExitCost: fees and round trip cost of an exit
  None

VARIABLES clock, state, signals,
  history   \* since: ticks since the last exit of this date, due: its
            \* cooldown, late: a valid tick was seen at 15:15 or later,
            \* z: the last valid z-score of a held spread

vars == <<clock, state, signals, history>>

Track3State ==
  [active : {None, "SHORT_SPREAD", "LONG_SPREAD"}, quantity : 0..2,
   cooldown : 0..StopCooldown, holding : 0..MaxHoldingTicks,
   last_exit : Int \cup {None}, high : Int, date : 1..Days \cup {None}]

Fresh == [active |-> None, quantity |-> 0, cooldown |-> 0, holding |-> 0,
          last_exit |-> None, high |-> 0, date |-> None]

NoHistory == [since |-> 0, due |-> 0, late |-> FALSE, z |-> 0]

Init ==
  /\ clock = [date |-> 1, time |-> 900]
  /\ state = Fresh
  /\ signals = {}
  /\ history = NoHistory

ZScores == ZMagnitudes \cup {-z : z \in ZMagnitudes}

Regimes == {"NORMAL", "HIGH_VOLATILITY", "GAP", "EXTREME_MOVE"}

\* What detect_market_regime and the regime table of evaluate_input give:
\* the entry threshold, the least net profit and the quantity.
Threshold(regime) ==
  CASE regime = "NORMAL" -> 20 [] regime = "HIGH_VOLATILITY" -> 24
    [] regime = "GAP" -> 22    [] OTHER -> 9990
MinProfit2(regime) ==   \* twice, to stay integer
  CASE regime = "NORMAL" -> 30 [] regime = "HIGH_VOLATILITY" -> 45
    [] regime = "GAP" -> 39    [] OTHER -> 90
Quantity(d) ==
  CASE d.regime = "EXTREME_MOVE" -> 0
    [] d.regime = "NORMAL" /\ Magnitude(d.z) >= 25 /\ d.size_up -> 2
    [] OTHER -> 1

\* Ticks, split by what the code reads of them: without and with a spread.
FlatInputs == [date : 1..Days, time : {900, 1500, 1515}, valid : {TRUE}, z : ZScores,
               regime : Regimes, settled : BOOLEAN, size_up : BOOLEAN, net : Nets]
HeldInputs == [date : 1..Days, time : {900, 1515}, valid : {TRUE}, z : ZScores,
               regime : Regimes \ {"EXTREME_MOVE"}, pnl : Profits]
InvalidInputs == [date : 1..Days, time : {900, 1500, 1515}, valid : {FALSE}]

\* A new date drops the position and the cooldown.
Dated(s, d) ==
  IF d.date = s.date THEN s
  ELSE [s EXCEPT !.date = d.date, !.cooldown = 0, !.holding = 0, !.active = None,
                 !.quantity = 0, !.last_exit = None]

\* Slip: only a valid tick is stopped by the cooldown, so it runs off twice as fast.
CooledSlip(s) == [s EXCEPT !.cooldown = Larger(0, @ - 2)]
Cooled(s) == [s EXCEPT !.cooldown = Larger(0, @ - 1)]

Current(d) == Cooled(Dated(state, d))

\* since, due and late belong to one date.
Remember(d, since, due, late) ==
  LET same == d.date = state.date IN
  history' = [since |-> IF same THEN since ELSE 0, due |-> IF same THEN due ELSE 0,
              late |-> late \/ (same /\ history.late),
              z |-> IF state'.active = None \/ state'.holding = 0 THEN 0
                    ELSE IF d.valid THEN d.z ELSE history.z]

Later(d) == IF history.since < history.due THEN history.since + 1 ELSE history.since

Quiet(d, s) ==
  /\ state' = s
  /\ signals' = {}
  /\ Remember(d, Later(d), history.due, d.valid /\ d.time >= 1515)

EntryBlocked(s, d) ==
  d.time >= 1500 \/ d.regime = "EXTREME_MOVE" \/ s.cooldown > 0

EntryAllowed(s, d) ==
  /\ ~EntryBlocked(s, d)
  /\ d.regime = "GAP" => d.settled
  /\ s.last_exit # None => Magnitude(d.z - s.last_exit) >= 8
  /\ 2 * d.net >= MinProfit2(d.regime)
  /\ Magnitude(d.z) >= Threshold(d.regime)

Enter(d) ==
  LET s == Current(d)
      position == IF d.z > 0 THEN "SHORT_SPREAD" ELSE "LONG_SPREAD" IN
  /\ s.active = None
  /\ EntryAllowed(s, d)
  /\ state' = [s EXCEPT !.active = position, !.quantity = Quantity(d),
                        !.holding = 0, !.high = 0]
  /\ signals' = {"EXECUTE_STAT_ARB"}
  /\ Remember(d, Later(d), history.due, d.time >= 1515)

StayFlat(d) ==
  LET s == Current(d) IN
  /\ s.active = None
  /\ ~EntryAllowed(s, d)
  /\ Quiet(d, s)

\* A tick with a spread open.
Held(d) ==
  LET s == Current(d) IN [s EXCEPT !.holding = @ + 1,
    !.high = IF d.time >= 1515 THEN @ ELSE Larger(@, d.pnl)]

\* _close.  The signal closes one contract.
Close(d, cooldown) ==
  LET s == Held(d) IN
  /\ state' = [s EXCEPT !.last_exit = d.z, !.active = None, !.quantity = 0,
                        !.cooldown = cooldown, !.holding = 0]
  /\ signals' = {"CLOSE_STAT_ARB"}
  /\ Remember(d, 0, cooldown, d.time >= 1515)

Locked(s, d) == s.high > 30 /\ Fallen(d.pnl, s.high, PremiumSpent)

Stopped(s, d) ==
  \/ s.active = "SHORT_SPREAD" /\ d.z >= 35
  \/ s.active = "LONG_SPREAD" /\ d.z <= -35

Converged(s, d) ==
  \/ s.active = "SHORT_SPREAD" /\ d.z <= 2
  \/ s.active = "LONG_SPREAD" /\ d.z >= -2

Profitable(d) ==
  \/ d.pnl - ExitCost >= -5
  \/ d.regime = "HIGH_VOLATILITY" /\ d.pnl > 10
  \/ d.regime = "GAP" /\ d.pnl > 5

\* The exits in the order in which the code tries them.
ExitCooldownOf(s, d) ==
  CASE d.time >= 1515                 -> ExitCooldown
    [] d.time < 1515 /\ Locked(s, d)  -> ExitCooldown
    [] d.time < 1515 /\ ~Locked(s, d) /\ Stopped(s, d) -> StopCooldown
    [] OTHER                          -> ExitCooldown

Exits(s, d) ==
  \/ d.time >= 1515
  \/ Locked(s, d)
  \/ Stopped(s, d)
  \/ s.holding >= MaxHoldingTicks
  \/ Converged(s, d) /\ Profitable(d)

Exit(d) ==
  /\ Current(d).active # None
  /\ Exits(Held(d), d)
  /\ Close(d, ExitCooldownOf(Held(d), d))

Keep(d) ==
  /\ Current(d).active # None
  /\ ~Exits(Held(d), d)
  /\ Quiet(d, Held(d))

EvaluateInvalid(d) == Quiet(d, Current(d))

Tick(d) == Follows(clock, d) /\ clock' = At(d)

Reset ==
  /\ state' = Fresh
  /\ signals' = {}
  /\ history' = NoHistory
  /\ UNCHANGED clock

Next ==
  \/ \E d \in FlatInputs : Tick(d) /\ (Enter(d) \/ StayFlat(d))
  \/ \E d \in HeldInputs : Tick(d) /\ (Exit(d) \/ Keep(d))
  \/ \E d \in InvalidInputs : Tick(d) /\ EvaluateInvalid(d)
  \/ Reset

Spec == Init /\ [][Next]_vars

-----------------------------------------------------------------------------
TypeOK ==
  /\ clock \in [date : 1..Days, time : {900, 1500, 1515}]
  /\ state \in Track3State
  /\ (state.active = None) <=> (state.quantity = 0)
  /\ state.active = None => state.holding = 0
  /\ state.holding < MaxHoldingTicks
  /\ history \in [since : Nat, due : Nat, late : BOOLEAN, z : Int]

\* Once a tick with a valid z-score has been evaluated at 15:15 or later, no
\* spread is open for the rest of the day.
FlatAfterClose == history.late => state.active = None

\* An entry follows the last exit of the day by at least the ticks of its
\* cooldown, which a tick without a valid z-score also counts down.
CooldownKept ==
  "EXECUTE_STAT_ARB" \in signals' /\ state'.date = state.date
    => history.since + 1 >= history.due

\* A spread that has been held through a tick is within its stop.
StopHonoured ==
  state.active # None /\ state.holding > 0 =>
    IF state.active = "SHORT_SPREAD" THEN history.z < 35 ELSE history.z > -35
=============================================================================
