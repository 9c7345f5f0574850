----------------------------- MODULE DecisionArbiter -----------------------------
(***************************************************************************)
(* core/decision/decision_arbiter.py: of the signals of one tick on one    *)
(* instrument, the first in rank sets the side; the others follow or are   *)
(* rejected.  Signals are [id, track, instrument, side, qty]; their ids,   *)
(* which the caller refuses to be equal, are numbers.  Instruments are     *)
(* told apart as the arbiter does it, by asset, strike and option type.    *)
(***************************************************************************)
EXTENDS Integers, FiniteSets

\* STRATEGY_PRIORITY_MAP; any other track has priority 99.
Priority(track) ==
  CASE track \in {"HEDGE_DELTA", "HEDGE_TAIL"} -> 1
    [] track = "Track1" -> 2
    [] track \in {"Track6", "Track9"} -> 3
    [] track \in {"Track3", "Track4"} -> 4
    [] track \in {"Track7", "Track8"} -> 5
    [] track \in {"Track2", "Track5"} -> 6
    [] OTHER -> 99

\* Slip: the smaller quantity comes first.
BeforeSlip(s, t) ==
  \/ Priority(s.track) < Priority(t.track)
  \/ Priority(s.track) = Priority(t.track) /\ s.qty < t.qty
  \/ Priority(s.track) = Priority(t.track) /\ s.qty = t.qty /\ s.id < t.id

\* The order in which signals claim instruments.
Before(s, t) ==
  \/ Priority(s.track) < Priority(t.track)
  \/ Priority(s.track) = Priority(t.track) /\ s.qty > t.qty
  \/ Priority(s.track) = Priority(t.track) /\ s.qty = t.qty /\ s.id < t.id

\* The signal whose claim stands: none on its instrument comes before it.
Claims(s, signals) ==
  \A t \in signals : t.instrument = s.instrument => ~Before(t, s)

Approved(signals) ==
  { s \in signals : \E c \in signals :
      c.instrument = s.instrument /\ Claims(c, signals) /\ c.side = s.side }

Rejected(signals) == signals \ Approved(signals)

\* The approved signals in the order in which they become commands.
Ranked(signals) ==
  LET approved == Approved(signals)
      Rank(s) == Cardinality({t \in approved : Before(t, s)}) + 1 IN
  [n \in 1..Cardinality(approved) |-> CHOOSE s \in approved : Rank(s) = n]
=============================================================================
