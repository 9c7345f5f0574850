----------------------------- MODULE StrategyTracks -----------------------------
(***************************************************************************)
(* The strategy tracks, each with a feed of its own: the behaviour chooses *)
(* a track and runs it.  The tracks share no state (StrategyOrchestrator   *)
(* keeps one object for each), so nothing is lost by running one at a      *)
(* time; and what every one of them promises can be said once.             *)
(*                                                                         *)
(* The unit of prices and the bounds of each feed are those of the track's *)
(* module.                                                                 *)
(***************************************************************************)
EXTENDS Integers

CONSTANTS
  Days, None,
  TailPrices, MaxHedges,
  ZMagnitudes, SpreadProfits, Nets, MaxHoldingTicks, StopCooldown, ExitCooldown,
  SpreadPremium, ExitCost,
  MaxGapTicks, GapOpenings, GapPrices,
  InsurancePrices,
  Skews, ExpiryMode,
  DaysToExpiry, StranglePrices, Budgets, StrangleProfits, StrangleTarget,
  EventProfits, EventTarget, EventPremium

ASSUME DaysAssumption == Days \in Nat \ {0}
\* None is Python's None: no price, no date, no position.
ASSUME NoneAssumption ==
  None \notin Int \cup {"PUT", "SELL", "LONG", "SHORT", "LONG_SPREAD", "SHORT_SPREAD"}
ASSUME TailAssumption == TailPrices \subseteq Int /\ MaxHedges \in Nat
\* 300 ticks, 40 and 20 ticks in the code.
ASSUME SpreadAssumption ==
  /\ ZMagnitudes \cup SpreadProfits \cup Nets \cup {SpreadPremium, ExitCost} \subseteq Int
  /\ MaxHoldingTicks \in Nat \ {0}
  /\ StopCooldown \in Nat /\ ExitCooldown \in 0..StopCooldown
ASSUME GapAssumption == GapOpenings \cup GapPrices \subseteq Int /\ MaxGapTicks \in Nat \ {0}
ASSUME InsuranceAssumption == InsurancePrices \subseteq Int
ASSUME SkewAssumption == Skews \subseteq Int
ASSUME StrangleAssumption ==
  /\ StranglePrices \cup Budgets \cup StrangleProfits \cup {StrangleTarget} \subseteq Int
  /\ 1 \in DOMAIN DaysToExpiry /\ DOMAIN DaysToExpiry \subseteq Nat \ {0}
  /\ \A date \in DOMAIN DaysToExpiry : DaysToExpiry[date] \in Int
ASSUME EventAssumption == EventProfits \cup {EventTarget, EventPremium} \subseteq Int

VARIABLES track, clock, state, signals, history

vars == <<track, clock, state, signals, history>>

T1 == INSTANCE Track1TailDefense WITH Prices <- TailPrices
T3 == INSTANCE Track3StatisticalArbitrage
        WITH Profits <- SpreadProfits, PremiumSpent <- SpreadPremium
T5 == INSTANCE Track5GapDivergence
        WITH last <- history, MaxTicks <- MaxGapTicks,
             OpenPrices <- GapOpenings, Prices <- GapPrices
T6 == INSTANCE Track6DailyTailInsurance WITH Prices <- InsurancePrices
T7 == INSTANCE Track7VolatilitySkewWeeklyInsurance
T8 == INSTANCE Track8MonthlyStrangle
        WITH Prices <- StranglePrices, Profits <- StrangleProfits,
             ProfitTarget <- StrangleTarget
T9 == INSTANCE Track9EventOvernightInsurance
        WITH Profits <- EventProfits, ProfitTarget <- EventTarget,
             PremiumSpent <- EventPremium

Init ==
  \/ track = 1 /\ T1!Init
  \/ track = 3 /\ T3!Init
  \/ track = 5 /\ T5!Init /\ clock = None
  \/ track = 6 /\ T6!Init
  \/ track = 7 /\ T7!Init
  \/ track = 8 /\ T8!Init
  \/ track = 9 /\ T9!Init

Next ==
  /\ UNCHANGED track
  /\ \/ track = 1 /\ T1!Next
     \/ track = 3 /\ T3!Next
     \/ track = 5 /\ T5!Next /\ UNCHANGED clock
     \/ track = 6 /\ T6!Next
     \/ track = 7 /\ T7!Next
     \/ track = 8 /\ T8!Next
     \/ track = 9 /\ T9!Next

Spec == Init /\ [][Next]_vars

-----------------------------------------------------------------------------
TypeOK ==
  CASE track = 1 -> T1!TypeOK
    [] track = 3 -> T3!TypeOK
    [] track = 5 -> T5!TypeOK
    [] track = 6 -> T6!TypeOK
    [] track = 7 -> T7!TypeOK
    [] track = 8 -> T8!TypeOK
    [] track = 9 -> T9!TypeOK

\* A strategy keeps its own record of what it holds and never hears of fills.
\* The record is the net of its signals: nothing is taken as held that no
\* signal asked for (a hedge without quantity, an entry over budget), nothing
\* is given up that no signal closes, within a date.
BeliefIsSignalled ==
  /\ track = 1 => T1!HedgeIsSignalled
  /\ track = 7 => T7!InsuranceSignalled
BeliefMovesWithSignals ==
  [][ /\ track = 8 => T8!StrangleMovesWithSignals
      /\ track = 9 => T9!EventMovesWithSignals ]_vars

\* A gain is locked: once its trailing stop is armed, a position that outlives
\* a tick has given back less of its best value than the stop allows, however
\* far the market falls between two ticks.
GainLocked ==
  /\ track = 5 => T5!ProfitLocked
  /\ track = 6 => T6!ArmedStopFires
  /\ track = 9 => T9!EventLocked

\* The high-water mark a stop is judged by is that of the present position
\* (rebuilt strikes start a new one) and within one percent of its best value.
MarkOfPresentPosition ==
  /\ track = 6 => T6!WatermarkTracksPeak
  /\ track = 8 => T8!StopOfPresentStrikes

\* A position that outlives a tick is strictly inside the barriers it was
\* opened with.
WithinBarriers ==
  /\ track = 3 => T3!StopHonoured
  /\ track = 5 => T5!InsideBarriers

\* What is meant for once in a while is sent no more often: the hedges of a
\* date, the market fallback of a limit order, the early sale and the re-entry
\* of a day.
Rationed ==
  /\ track = 1 => T1!HedgesPerDay
  /\ track = 7 => T7!SkewSentOnce
  /\ track = 9 => T9!OncePerDay

\* Track 3 is flat once 15:15 has been seen, and re-enters a date only after
\* the cooldown of its last exit.
FlatAfterClose == track = 3 => T3!FlatAfterClose
CooldownRespected == [][ track = 3 => T3!CooldownKept ]_vars

\* A strategy's record follows its signals, state by state or step by step.
BeliefFollowsSignals == []BeliefIsSignalled /\ BeliefMovesWithSignals

\* No stop, trailing or fixed, is overrun by what a tick skips, or judged by the
\* mark of an earlier position.
StopsHonoured == GainLocked /\ WithinBarriers /\ MarkOfPresentPosition

\* Nothing is entered too often, too late in the day, or too soon again.
EntriesRationed == [](Rationed /\ FlatAfterClose) /\ CooldownRespected
=============================================================================
