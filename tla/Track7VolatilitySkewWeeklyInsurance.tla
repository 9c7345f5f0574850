------------------ MODULE Track7VolatilitySkewWeeklyInsurance ------------------
(***************************************************************************)
(* core/strategy/track7_volatility_skew_weekly_insurance.py: a weekly      *)
(* strangle and a skew arbitrage in one state, cleared together by         *)
(* reset().  Skews are in tenths.                                          *)
(***************************************************************************)
EXTENDS StrategyBasics, FiniteSets

CONSTANTS
  Days,         \* bound: last date of the feed
  Skews,        \* put_iv - call_iv
  ExpiryMode,   \* "D-4" or "D-0 CUTOFF"
  None

VARIABLES clock, state, signals,
  history       \* insurance and skew: positions opened by the signals and not
                \* closed by them; fallbacks: market orders of this skew entry

vars == <<clock, state, signals, history>>

Track7State ==
  [insurance : BOOLEAN, bought : 1..Days \cup {None}, skew : BOOLEAN, pending : BOOLEAN]

Fresh == [insurance |-> FALSE, bought |-> None, skew |-> FALSE, pending |-> FALSE]
NoHistory == [insurance |-> 0, skew |-> 0, fallbacks |-> 0]

Init ==
  /\ clock = [date |-> 1, time |-> 900]
  /\ state = Fresh
  /\ signals = {}
  /\ history = NoHistory

Inputs == [date : 1..Days, time : {900, 1500, 1515, 1520}, week_start : BOOLEAN,
           funded : BOOLEAN, expiry : BOOLEAN, skew : Skews \cup {None},
           timeout : BOOLEAN, crossing : BOOLEAN]

\* evaluate_expiry_cutoff.
D4Cutoff(d) == ExpiryMode = "D-4" /\ state.bought = d.date /\ d.time >= 1500
CutoffMarket(d) == D4Cutoff(d) \/ (d.expiry /\ d.time >= 1515)
CutoffLimit(d) == ~D4Cutoff(d) /\ d.expiry /\ 1500 <= d.time /\ d.time < 1515

\* reset(): the insurance is closed by the signal, the skew position is not.
CloseInsurance(d) ==
  /\ state.insurance /\ CutoffMarket(d)
  /\ state' = Fresh
  /\ signals' = {"CLOSE_WEEKLY_INSURANCE"}
  /\ history' = [history EXCEPT !.insurance = @ - 1]

LimitInsurance(d) ==
  /\ state.insurance /\ CutoffLimit(d)
  /\ signals' = {"CLOSE_WEEKLY_INSURANCE_LIMIT"}
  /\ UNCHANGED <<state, history>>

\* evaluate_insurance_buy, called without insurance only.
Buys(d) == ~state.insurance /\ ~Cancelling(d.time) /\ d.week_start /\ d.funded

InsurancePart(d) ==
  IF Buys(d) THEN {"BUY_LIMIT_WEEKLY_INSURANCE"}
  ELSE IF ~state.insurance /\ Cancelling(d.time) THEN {"CANCEL"} ELSE {}

\* evaluate_skew_arbitrage.
Enters(d) == d.skew # None /\ ~state.skew /\ Magnitude(d.skew) >= 30

FallsBack(d) == d.skew # None /\ state.skew /\ state.pending /\ d.timeout

Leaves(d) ==
  /\ d.skew # None /\ state.skew /\ ~FallsBack(d)
  /\ Magnitude(d.skew) > 80 \/ Magnitude(d.skew) <= 5

SkewPart(d) ==
  (IF Enters(d) THEN {"ENTER_SKEW_ARB_LIMIT"} ELSE {})
    \cup (IF FallsBack(d) THEN {"ENTER_SKEW_ARB_FALLBACK_MARKET"} ELSE {})
    \cup (IF Leaves(d) THEN {"CLOSE_SKEW_ARB"} ELSE {})

\* evaluate_preemptive_take_profit, of insurance held or just bought.
TakeProfitPart(d) ==
  IF (state.insurance \/ Buys(d)) /\ d.crossing THEN {"PREEMPTIVE_LIMIT_TAKE_PROFIT"} ELSE {}

Trade(d) ==
  /\ ~(state.insurance /\ (CutoffMarket(d) \/ CutoffLimit(d)))
  /\ history.skew < 2      \* bound: a forgotten skew position and a second one
  /\ state' = [insurance |-> state.insurance \/ Buys(d),
               bought |-> IF Buys(d) THEN d.date ELSE state.bought,
               skew |-> (state.skew \/ Enters(d)) /\ ~Leaves(d),
               pending |-> (state.pending \/ Enters(d)) /\ ~FallsBack(d) /\ ~Leaves(d)]
  /\ signals' = InsurancePart(d) \cup SkewPart(d) \cup TakeProfitPart(d)
  /\ history' = [insurance |-> history.insurance + (IF Buys(d) THEN 1 ELSE 0),
                 skew |-> history.skew + (IF Enters(d) THEN 1 ELSE 0)
                                       - (IF Leaves(d) THEN 1 ELSE 0),
                 fallbacks |-> IF Enters(d) THEN 0 ELSE
                               history.fallbacks + (IF FallsBack(d) THEN 1 ELSE 0)]

Evaluate(d) ==
  /\ Follows(clock, d)
  /\ clock' = At(d)
  /\ CloseInsurance(d) \/ LimitInsurance(d) \/ Trade(d)

Reset ==
  /\ state' = Fresh
  /\ signals' = {}
  /\ history' = NoHistory
  /\ UNCHANGED clock

Next == (\E d \in Inputs : Evaluate(d)) \/ Reset

Spec == Init /\ [][Next]_vars

-----------------------------------------------------------------------------
TypeOK ==
  /\ clock \in [date : 1..Days, time : {900, 1500, 1515, 1520}]
  /\ state \in Track7State
  /\ state.insurance <=> state.bought # None
  /\ state.pending => state.skew
  /\ history \in [insurance : Int, skew : Nat, fallbacks : Nat]

\* Insurance is bought and closed in turn: what the strategy believes to hold
\* is what its signals hold, over expiries, re-entries and the limit attempts
\* that come before a market close.
InsuranceSignalled == history.insurance = IF state.insurance THEN 1 ELSE 0

\* The strategy never takes itself to hold a skew position its signals did not
\* open, and one entry is sent to the market at most once after its limit
\* order has timed out.
SkewSentOnce ==
  /\ state.skew => history.skew > 0
  /\ history.fallbacks <= 1
=============================================================================
