-------------------- MODULE Track9EventOvernightInsurance --------------------
(***************************************************************************)
(* core/strategy/track9_event_overnight_insurance.py: the overnight        *)
(* insurance, its early sale and re-entry, the event strangle with its     *)
(* trailing stop, the rebuilding of the fence.  evaluate_input runs the    *)
(* five parts in order, each on the state and the signals, [s, out], the   *)
(* part before left.  Money is in thousands.                               *)
(***************************************************************************)
EXTENDS StrategyBasics

CONSTANTS
  Days,             \* bound: last date of the feed
  Profits,          \* current_pnl - total_fees
  ProfitTarget,
  PremiumSpent

VARIABLES clock, state, signals,
  history   \* of this date: early sales, re-entries; held: event strangles
            \* bought and not closed by the signals, nor taken back by a
            \* reset; best, last: highest and last profit of the present event

vars == <<clock, state, signals, history>>

TargetInsurance == 1
EventFloor == 50

Phases == {"OVERNIGHT_HEDGE", "EARLY_PROFIT_TAKEN", "REHEDGE_ACTIVE",
           "MARKET_STABILIZATION_MONITORING", "EVENT_ACTIVE", "EVENT_TRAILING_STOP",
           "EVENT_CLOSED"}
Track9State == [active : BOOLEAN, early : BOOLEAN, reentered : BOOLEAN, phase : Phases,
                high : Int, date : 0..Days]

Fresh == [active |-> FALSE, early |-> FALSE, reentered |-> FALSE,
          phase |-> "OVERNIGHT_HEDGE", high |-> 0, date |-> 0]
NoHistory == [early |-> 0, reentries |-> 0, held |-> 0, best |-> 0, last |-> 0]

Init ==
  /\ clock = [date |-> 1, time |-> 905]
  /\ state = Fresh
  /\ signals = {}
  /\ history = NoHistory

\* short: the market is stable and the target exceeds what exists; event: what
\* the event part is told (upcoming or a spike of iv, the same over budget, a
\* crush of iv).
Inputs == [date : 1..Days, time : {905, 910, 930}, insured : 0..2, short : BOOLEAN,
           event : {"quiet", "upcoming", "over_budget", "crush"},
           pnl : Profits, guarded : BOOLEAN]

Also(r, s, signal) == [s |-> s, out |-> r.out \cup {signal}]
Silently(r, s) == [s |-> s, out |-> r.out]

\* Slip: only the first date is taken over.
SyncedSlip(s, d) == IF s.date = 0 THEN [s EXCEPT !.date = d.date] ELSE s
\* Another date clears the state.
Synced(s, d) ==
  IF s.date = d.date THEN s ELSE [Fresh EXCEPT !.date = d.date]

Insurance(r, d) ==
  Also(r, Synced(r.s, d),
       CASE d.insured = TargetInsurance -> "HOLD_INSURANCE"
         [] d.insured < TargetInsurance -> "ADD_INSURANCE"
         [] d.insured > TargetInsurance -> "REDUCE_INSURANCE")

Early(r, d) ==
  CASE r.s.early -> r
    [] ~r.s.early /\ d.time <= 905 /\ d.insured > 0 ->
         Also(r, [r.s EXCEPT !.early = TRUE, !.phase = "EARLY_PROFIT_TAKEN"],
              "EARLY_PROFIT_TAKE")
    [] ~r.s.early /\ d.time > 905 ->
         Silently(r, [r.s EXCEPT !.phase = "MARKET_STABILIZATION_MONITORING"])
    [] OTHER -> r

Reentry(r, d) ==
  IF d.time >= 930 /\ ~r.s.reentered /\ d.short
  THEN Also(r, [r.s EXCEPT !.reentered = TRUE, !.phase = "REHEDGE_ACTIVE"], "REHEDGE_ENTRY")
  ELSE r

\* Slip: the event is taken as entered before its budget is judged.
EnterSlip(r, d) ==
  IF d.event \in {"quiet", "crush"} THEN r
  ELSE Also(r, [r.s EXCEPT !.active = TRUE, !.high = Larger(0, d.pnl), !.phase = "EVENT_ACTIVE"],
            IF d.event = "over_budget" THEN "EVENT_BUDGET_BLOCKED" ELSE "ENTER_EVENT_STRANGLE")
Enter(r, d) ==
  CASE d.event = "over_budget" -> Also(r, r.s, "EVENT_BUDGET_BLOCKED")
    [] d.event = "upcoming" ->
         Also(r, [r.s EXCEPT !.active = TRUE, !.high = Larger(0, d.pnl),
                             !.phase = "EVENT_ACTIVE"], "ENTER_EVENT_STRANGLE")
    [] OTHER -> r

Follow(r, d) ==
  LET high == Larger(r.s.high, d.pnl) IN
  CASE high > EventFloor /\ Fallen(d.pnl, high, PremiumSpent) ->
         Also(r, [r.s EXCEPT !.active = FALSE, !.phase = "EVENT_TRAILING_STOP"],
              "CLOSE_EVENT_STRANGLE")
    [] ~(high > EventFloor /\ Fallen(d.pnl, high, PremiumSpent)) /\ d.event = "crush" ->
         Also(r, [r.s EXCEPT !.active = FALSE, !.phase = "EVENT_CLOSED"],
              "CLOSE_EVENT_STRANGLE")
    [] OTHER -> Silently(r, [r.s EXCEPT !.high = high])

Event(r, d) == IF r.s.active THEN Follow(r, d) ELSE Enter(r, d)

ProfitRebuild(r, d) ==
  IF d.guarded \/ d.pnl < ProfitTarget THEN r
  ELSE Also(Also(r, r.s, "DYNAMIC_PROFIT_TAKE"),
            [r.s EXCEPT !.reentered = TRUE, !.phase = "REHEDGE_ACTIVE"],
            "DYNAMIC_REBUILD_FENCE")

Evaluated(s, d) ==
  ProfitRebuild(Event(Reentry(Early(Insurance(
    [s |-> s, out |-> {}], d), d), d), d), d)

One(signal, out) == IF signal \in out THEN 1 ELSE 0

\* What the signals of the date amount to.
Recorded(h, s, out, d) ==
  [early |-> h.early + One("EARLY_PROFIT_TAKE", out),
   reentries |-> h.reentries + One("REHEDGE_ENTRY", out),
   held |-> history.held + One("ENTER_EVENT_STRANGLE", out)
                         - One("CLOSE_EVENT_STRANGLE", out),
   best |-> CASE ~s.active -> 0
              [] "ENTER_EVENT_STRANGLE" \in out -> Larger(0, d.pnl)
              [] OTHER -> Larger(h.best, d.pnl),
   last |-> IF s.active /\ "ENTER_EVENT_STRANGLE" \notin out THEN d.pnl ELSE 0]

Evaluate(d) ==
  LET r == Evaluated(state, d) IN
  /\ Follows(clock, d)
  /\ clock' = At(d)
  /\ state' = r.s
  /\ signals' = r.out
  /\ history' = Recorded(IF d.date = clock.date THEN history ELSE NoHistory, r.s, r.out, d)

Believed(s) == IF s.active THEN 1 ELSE 0

Reset ==
  /\ state' = Fresh
  /\ signals' = {}
  /\ history' = [NoHistory EXCEPT !.held = history.held - Believed(state)]
  /\ UNCHANGED clock

Next == (\E d \in Inputs : Evaluate(d)) \/ Reset

Spec == Init /\ [][Next]_vars

-----------------------------------------------------------------------------
TypeOK ==
  /\ clock \in [date : 1..Days, time : {905, 910, 930}]
  /\ state \in Track9State
  /\ state.active => state.date # 0
  /\ state.date \in {0, clock.date}
  /\ history \in [early : Nat, reentries : Nat, held : Int, best : Int, last : Int]

\* The insurance is sold early once a day and bought back once a day, however
\* many ticks repeat the conditions and whatever the event part, which
\* overwrites the phase, does in between.
OncePerDay == history.early <= 1 /\ history.reentries <= 1

\* The event's mark is the highest profit since it was entered, and an event
\* that outlives a tick has not given back more of it than the stop allows.
EventLocked ==
  state.active =>
    /\ state.high = history.best
    /\ history.last # 0 /\ state.high > EventFloor
         => ~Fallen(history.last, state.high, PremiumSpent)

\* On one date the event strangle the strategy takes itself to hold and its
\* signals move together, whatever the budget refuses.
EventMovesWithSignals ==
  clock'.date = clock.date
    => history'.held - history.held = Believed(state') - Believed(state)
=============================================================================
