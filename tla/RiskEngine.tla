------------------------------- MODULE RiskEngine -------------------------------
(***************************************************************************)
(* core/risk/risk_engine.py: the judgement of one order against the kill   *)
(* switch, the limits, an account and the positions it is shown.  A        *)
(* judgement is the quantity approved, 0 for DENY; REDUCE is a quantity    *)
(* below the one asked for.  The margin calculator is external and taken   *)
(* to be proportional to the quantity; money is in units of MarginUnit.    *)
(***************************************************************************)
EXTENDS Integers, FiniteSets

CONSTANTS
  MaxOrderQty, MaxDailyLoss, MaxPositionPerInstrument,
  MaxMarginPercent,     \* max_margin_utilization_ratio
  MarginUnit,           \* margin of one contract
  KeyOf                 \* an instrument's get_instrument_key()

\* RiskConfig.__post_init__ admits no other configuration.
ConfigAdmitted ==
  /\ MaxOrderQty \in Nat \ {0}
  /\ MaxDailyLoss \in Nat \ {0}
  /\ MaxPositionPerInstrument \in Nat \ {0}
  /\ MaxMarginPercent \in 1..100
  /\ MarginUnit \in Nat \ {0}

ASSUME RiskConfigAssumption == ConfigAdmitted

Sides == {"BUY", "SELL"}

\* The state of the engine; free and used are what the account reports.
Engines == [kill : BOOLEAN, loss : Nat]
Accounts == [balance : Int, realized : Int, used : Nat, free : Int]
Holdings == [side : Sides \cup {"FLAT"}, qty : Nat]
Nothing == [side |-> "FLAT", qty |-> 0]

TotalLoss(engine, account) ==
  engine.loss + (IF account.realized < 0 THEN -account.realized ELSE 0)

\* calculate_expected_position: what is held under the key; if nothing is, the
\* only holding there is stands in for it, or none.
Current(key, positions) ==
  IF key \in DOMAIN positions THEN positions[key]
  ELSE IF Cardinality(DOMAIN positions) = 1
  THEN positions[CHOOSE held \in DOMAIN positions : TRUE]
  ELSE Nothing

ExpectedQty(side, qty, current) ==
  IF current.qty = 0 \/ current.side = side THEN current.qty + qty
  ELSE IF qty <= current.qty THEN current.qty - qty ELSE qty - current.qty

\* Slip: what is held is within the limit, not what would be.
WithinPositionSlip(side, qty, current, reducible) ==
  IF current.qty <= MaxPositionPerInstrument THEN qty ELSE 0

\* What the position limit leaves of an order, if it may be reduced.
WithinPosition(side, qty, current, reducible) ==
  LET capacity == MaxPositionPerInstrument - current.qty IN
  IF ExpectedQty(side, qty, current) <= MaxPositionPerInstrument THEN qty
  ELSE IF reducible /\ 0 < capacity /\ capacity < qty THEN capacity ELSE 0

\* What the free margin leaves of it.
WithinMargin(qty, account, reducible) ==
  LET affordable == account.free \div MarginUnit IN
  IF MarginUnit * qty <= account.free THEN qty
  ELSE IF reducible /\ 0 < affordable /\ affordable < qty THEN affordable ELSE 0

\* An account without balance counts as fully used.
RatioExceeded(qty, account) ==
  IF account.balance > 0
  THEN 100 * (account.used + MarginUnit * qty) > MaxMarginPercent * account.balance
  ELSE 100 > MaxMarginPercent

\* Slip: the kill switch is not asked.
StoppedSlip(engine, account) == TotalLoss(engine, account) >= MaxDailyLoss
Stopped(engine, account) ==
  engine.kill \/ TotalLoss(engine, account) >= MaxDailyLoss

\* evaluate_order.  diet is the sensor's is_margin_diet_required, hedge the
\* order's tag RISK_HEDGE.
ApprovedQty(order, engine, account, positions, diet, reducible) ==
  LET current == Current(KeyOf[order.instrument], positions)
      placed == WithinPosition(order.side, order.qty, current, reducible)
      afforded == WithinMargin(placed, account, reducible) IN
  IF \/ Stopped(engine, account)
     \/ order.qty <= 0 \/ order.qty > MaxOrderQty
     \/ placed = 0 \/ afforded = 0
     \/ RatioExceeded(afforded, account)
     \/ diet /\ ~order.hedge
  THEN 0 ELSE afforded
=============================================================================
