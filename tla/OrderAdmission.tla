----------------------------- MODULE OrderAdmission -----------------------------
(***************************************************************************)
(* From a tick, or a plan of several legs, to orders: the strategies       *)
(* (core/strategy/orchestrator.py), the arbiter, the commands, the risk    *)
(* gate and the router, as LiveRuntimeTickEntry.process_tick and the       *)
(* multi-leg seams string them together.  Each call takes one snapshot of  *)
(* the account and the positions, judges all its orders by it, and is not  *)
(* interrupted; fills and rejections of the broker come between calls.     *)
(***************************************************************************)
EXTENDS RiskEngine, DecisionArbiter, SequencesExt

CONSTANTS
  Tracks,           \* strategies, in registry order: a sequence of ids
  Templates,        \* authoritative commands a context may hold
  Instruments,
  Overnight,        \* positions the day may begin with
  Quantities,       \* quantities a strategy asks for
  LegQuantities,    \* quantities a leg asks for
  MaxTicks,         \* bound: highest source_sequence of the feed
  MaxGroups,        \* bound: number of plans
  MaxOrders,        \* bound: orders the router accepts in all
  MaxLoss,          \* bound: loss of the day, in the account and in the engine
  Balance,          \* balance at the start of the day
  None

VARIABLES
  enabled,          \* strategies the orchestrator runs
  engine,           \* [kill, loss], of the RiskEngine
  account,          \* realized profit of the day
  positions,        \* position per instrument, sold positions negative
  open,             \* orders the router has accepted, neither filled nor refused
  call,             \* the call in progress
  template,         \* broker_command of the RiskRouterContext
  history           \* sent: ids the router has accepted, groups: plans so far,
                    \* plan: ids of the legs of the last plan; instruments of
                    \* which an order went that the gate had not judged as it
                    \* went: blind, and not by what was held: unseen

vars == <<enabled, engine, account, positions, open, call, template, history>>

TrackIds == {Tracks[i] : i \in DOMAIN Tracks}

ASSUME AdmissionAssumption ==
  /\ Tracks \in Seq(TrackIds)
  /\ IsFiniteSet(Instruments)
  /\ Quantities \subseteq Nat /\ LegQuantities \subseteq Nat
  /\ MaxTicks \in Nat /\ MaxGroups \in Nat /\ MaxLoss \in Nat
  /\ Balance \in Int
  /\ Templates \subseteq [id : (1..MaxTicks) \X (1..Len(Tracks)),
                          instrument : Instruments, side : Sides, qty : Nat]
  /\ Overnight \subseteq [Instruments -> -MaxPositionPerInstrument..MaxPositionPerInstrument]

Idle == [kind |-> "idle", view |-> None, signals |-> {}, commands |-> <<>>]

Init ==
  /\ enabled = TrackIds
  /\ engine = [kill |-> FALSE, loss |-> 0]
  /\ account = 0
  /\ positions \in Overnight
  /\ open = {}
  /\ call = Idle
  /\ template \in {None} \cup Templates
  /\ history = [sent |-> {}, groups |-> 0, plan |-> <<>>, blind |-> {}, unseen |-> {}]

Size(position) == IF position < 0 THEN -position ELSE position
Held == {i \in Instruments : positions[i] # 0}

\* LivePositionAggregateRiskSource and position_aggregate_to_risk_input: only
\* what is not flat is shown, by the id of its instrument.
PositionsShown ==
  [i \in Held |-> [side |-> IF positions[i] > 0 THEN "BUY" ELSE "SELL",
                   qty |-> Size(positions[i])]]

\* The account snapshot (external): margin is used by what is held.
MarginOf(held) == MarginUnit * FoldFunction(LAMBDA p, sum : Size(p) + sum, 0, held)
UsedMargin == MarginOf(positions)
AccountShown ==
  [balance |-> Balance + account, realized |-> account, used |-> UsedMargin,
   free |-> Balance + account - UsedMargin]

View == [account |-> AccountShown, positions |-> PositionsShown]

-----------------------------------------------------------------------------
\* One strategy in one run: prepare, initialize or a later step fails; or it
\* evaluates, to nothing, to a signal, or to one without a proposal
\* (FUTURES_UNWIND) or without a side (FLAT).
Outcomes ==
  [how : {"failed", "quiet", "unsound"}]
    \cup [how : {"signal"}, instrument : Instruments, side : Sides, qty : Quantities]

Runs == [1..Len(Tracks) -> Outcomes]

Produces(outcome) == outcome.how \in {"signal", "unsound"}

\* StrategyOrchestrator.run: what fails for one strategy is recorded and the
\* next one is run.  The enabled strategies that yield a signal, in order: the
\* place in it is the local sequence of RuntimeStrategyResultCollectionAdapter.
Producing(run) == {i \in DOMAIN Tracks : Tracks[i] \in enabled /\ Produces(run[i])}
Place(i, run) == Cardinality({j \in Producing(run) : j <= i})

\* signal_to_canonical refuses a signal that is not sound, and with it the
\* whole of the tick.
Refused(run) == \E i \in Producing(run) : run[i].how = "unsound"

Signals(sequence, run) ==
  { [id |-> Place(i, run), track |-> Tracks[i], tick |-> sequence,
     instrument |-> run[i].instrument, side |-> run[i].side, qty |-> run[i].qty]
    : i \in Producing(run) }

\* RuntimeStrategyToDecisionAdapter.arbitrate: what the arbiter is given.  The
\* signal ids differ, as the places in the tick do.
Collected(sequence, run) == IF Refused(run) THEN {} ELSE Signals(sequence, run)

\* approved_signal_to_command: the client order id is that of the tick and the
\* place of the signal in it.
Command(s) ==
  [id |-> <<s.tick, s.id>>, instrument |-> s.instrument, side |-> s.side,
   qty |-> s.qty, hedge |-> FALSE]

\* RuntimeDecisionCommandAdapter.build_commands: the approved, in their order.
Commands(signals) ==
  LET ranked == Ranked(signals) IN [n \in DOMAIN ranked |-> Command(ranked[n])]

\* LiveRuntimeTickEntry.process_tick up to its commands; sources says that the
\* account and the positions are there.
Tick(sequence, run, sources) ==
  LET signals == Collected(sequence, run)
      commands == Commands(signals) IN
  /\ call = Idle
  /\ call' = IF commands = <<>> \/ ~sources THEN Idle
             ELSE [kind |-> "tick", view |-> View, signals |-> signals,
                   commands |-> commands]
  /\ UNCHANGED <<enabled, engine, account, positions, open, template, history>>

\* Slip: the legs that were approved go, without those denied.
SubmittedSlip(legs, approved) ==
  LET going == SelectSeq([n \in DOMAIN legs |-> n], LAMBDA n : approved[n] > 0)
  IN  [n \in DOMAIN going |-> legs[going[n]]]

\* submit_multi_leg_intents is given legs admit_multi_leg_intents has approved:
\* all of them, each by the same view, or none.  The gate may reduce a leg; the
\* intent it was made of goes as it is.
Submitted(legs, approved) ==
  IF \A n \in DOMAIN legs : approved[n] > 0 THEN legs ELSE <<>>

Leg(group, n, instrument, side, qty) ==
  [id |-> <<MaxTicks + group, n>>, instrument |-> instrument, side |-> side,
   qty |-> qty, hedge |-> FALSE]

Group(sides, instruments, quantities, diet, reducible) ==
  LET legs == [n \in DOMAIN instruments |->
                 Leg(history.groups + 1, n, instruments[n], sides[n], quantities[n])]
      approved == [n \in DOMAIN legs |->
                     ApprovedQty(legs[n], engine, View.account, View.positions, diet, reducible)]
      commands == Submitted(legs, approved) IN
  /\ call = Idle
  /\ history.groups < MaxGroups
  /\ call' = IF commands = <<>> THEN Idle
             ELSE [kind |-> "group", view |-> View, signals |-> {}, commands |-> commands]
  /\ history' = [history EXCEPT
       !.groups = @ + 1,
       !.plan = [n \in DOMAIN legs |-> legs[n].id],
       !.blind = @ \cup {legs[n].instrument : n \in {m \in DOMAIN commands :
                                                     approved[m] < commands[m].qty}}]
  /\ UNCHANGED <<enabled, engine, account, positions, open, template>>

-----------------------------------------------------------------------------
\* Slip: the call goes on with an empty queue.
NextCommandsSlip == [call EXCEPT !.commands = Tail(@)]

NextCommands == IF Len(call.commands) = 1 THEN Idle
                ELSE [call EXCEPT !.commands = Tail(@)]

\* The quantity of the head of the queue: judged now, or with its group before.
Judged(c) ==
  IF call.kind = "group" THEN c.qty
  ELSE ApprovedQty(c, engine, call.view.account, call.view.positions, FALSE, FALSE)

\* Slip: the authoritative command is not checked against the judged one.
ProjectedSlip(c, qty) ==
  IF call.kind = "group" \/ template = None THEN [c EXCEPT !.qty = qty]
  ELSE [c EXCEPT !.id = template.id, !.instrument = template.instrument,
                 !.side = template.side, !.qty = qty]

\* project_risk_effective_quantity: None where it raises.  The authoritative
\* command goes, at the judged quantity; only its id and quantity are compared.
Projected(c, qty) ==
  CASE call.kind = "group" \/ template = None -> [c EXCEPT !.qty = qty]
    [] call.kind = "tick" /\ template # None /\ template.id = c.id /\ qty <= template.qty ->
         [c EXCEPT !.instrument = template.instrument, !.side = template.side, !.qty = qty]
    [] OTHER -> None

\* The router's broker accepts an id once (LiveSettlement).
Known(id) == id \in history.sent

Deny ==
  /\ call # Idle
  /\ Judged(Head(call.commands)) = 0
  /\ call' = NextCommands
  /\ UNCHANGED <<enabled, engine, account, positions, open, template, history>>

\* For the history, what an order is not judged by: an order on its way, or its
\* own instrument and side; what is held of its instrument, if its key does not
\* find it.
Blind(c, order) ==
  {i \in {order.instrument} : \/ \E o \in open : o.instrument = i
                              \/ order.instrument # c.instrument \/ order.side # c.side}
Unseen(order) ==
  {i \in {order.instrument} \cap DOMAIN call.view.positions :
     Current(KeyOf[i], call.view.positions) # call.view.positions[i]}

\* Accepted by the router.
Route ==
  LET c == Head(call.commands)
      order == Projected(c, Judged(c)) IN
  /\ call # Idle
  /\ Cardinality(history.sent) < MaxOrders
  /\ Judged(c) > 0
  /\ order # None
  /\ ~Known(order.id)
  /\ open' = open \cup {order}
  /\ call' = NextCommands
  /\ history' = [history EXCEPT
       !.sent = @ \cup {order.id},
       !.blind = @ \cup Blind(c, order), !.unseen = @ \cup Unseen(order)]
  /\ UNCHANGED <<enabled, engine, account, positions, template>>

\* The router, its broker or the projection raises: the rest of the call is
\* given up, what went before it stays sent.
Fail ==
  /\ call # Idle
  /\ Judged(Head(call.commands)) > 0
  /\ call' = Idle
  /\ UNCHANGED <<enabled, engine, account, positions, open, template, history>>

-----------------------------------------------------------------------------
\* External: the broker fills or refuses what is open.
Fill(o) ==
  /\ call = Idle
  /\ o \in open
  /\ open' = open \ {o}
  /\ positions' = [positions EXCEPT ![o.instrument] =
                     IF o.side = "BUY" THEN @ + o.qty ELSE @ - o.qty]
  /\ UNCHANGED <<enabled, engine, account, call, template, history>>

Refuse(o) ==
  /\ call = Idle
  /\ o \in open
  /\ open' = open \ {o}
  /\ UNCHANGED <<enabled, engine, account, positions, call, template, history>>

\* A loss is realized; record_realized_loss may or may not be told of it.
Lose(told) ==
  /\ call = Idle
  /\ account > -MaxLoss
  /\ account' = account - 1
  /\ engine' = [engine EXCEPT !.loss = IF told THEN @ + 1 ELSE @]
  /\ UNCHANGED <<enabled, positions, open, call, template, history>>

TriggerKillSwitch ==
  /\ call = Idle
  /\ engine' = [engine EXCEPT !.kill = TRUE]
  /\ UNCHANGED <<enabled, account, positions, open, call, template, history>>

ResetKillSwitch ==
  /\ call = Idle
  /\ engine' = [engine EXCEPT !.kill = FALSE]
  /\ UNCHANGED <<enabled, account, positions, open, call, template, history>>

SetEnabled(track, on) ==
  /\ call = Idle
  /\ enabled' = IF on THEN enabled \cup {track} ELSE enabled \ {track}
  /\ UNCHANGED <<engine, account, positions, open, call, template, history>>

Next ==
  \/ \E sequence \in 1..MaxTicks, run \in Runs, sources \in BOOLEAN :
       Tick(sequence, run, sources)
  \/ \E sides \in [1..Cardinality(Instruments) -> Sides],
        instruments \in SetToSeqs(Instruments),
        quantities \in [1..Cardinality(Instruments) -> LegQuantities],
        diet, reducible \in BOOLEAN :
       Group(sides, instruments, quantities, diet, reducible)
  \/ Deny \/ Route \/ Fail
  \/ \E o \in open : Fill(o) \/ Refuse(o)
  \/ \E told \in BOOLEAN : Lose(told)
  \/ TriggerKillSwitch \/ ResetKillSwitch
  \/ \E track \in TrackIds, on \in BOOLEAN : SetEnabled(track, on)

Spec == Init /\ [][Next]_vars

-----------------------------------------------------------------------------
Orders ==
  [id : (1..(MaxTicks + MaxGroups)) \X (1..(Len(Tracks) + Cardinality(Instruments))),
   instrument : Instruments, side : Sides, qty : 1..MaxOrderQty, hedge : {FALSE}]

\* Types; and a call in progress always has a command left and a view.
TypeOK ==
  /\ enabled \subseteq TrackIds
  /\ engine \in Engines
  /\ account \in -MaxLoss..0
  /\ positions \in [Instruments -> Int]
  /\ open \subseteq Orders
  /\ {o.id : o \in open} \subseteq history.sent
  /\ call.kind \in {"tick", "group"} => call.commands # <<>> /\ call.view = View

\* The arbiter's promise: the commands of one tick never oppose each other on
\* an instrument.
NoOpposedCommands ==
  call.kind = "tick" =>
    \A m, n \in DOMAIN call.commands :
      call.commands[m].instrument = call.commands[n].instrument
        => call.commands[m].side = call.commands[n].side

\* A signal is given up only for an approved, opposite one on its instrument
\* whose track has the better priority or, at the same, that is not smaller.
RejectedForBetter ==
  \A s \in call.signals \ Approved(call.signals) :
    \E t \in Approved(call.signals) :
      /\ t.instrument = s.instrument /\ t.side # s.side
      /\ \/ Priority(t.track) < Priority(s.track)
         \/ Priority(t.track) = Priority(s.track) /\ t.qty >= s.qty

\* What the arbiter promises of a tick, whichever strategies ran and failed.
Arbitrated == NoOpposedCommands /\ RejectedForBetter

\* An order that reaches the broker from a tick has the id of one of the tick's
\* approved signals and at most its quantity.  It trades what the signal says,
\* unless the context holds a command of its own: that goes in the signal's
\* place whatever it trades, but once, and no other tick's order beside it.
SentAsSignalled ==
  [][ \A o \in open' \ open :
        call.kind = "tick" =>
          /\ \E s \in Approved(call.signals) :
               /\ o.id = <<s.tick, s.id>> /\ o.qty <= s.qty
               /\ template = None => o.instrument = s.instrument /\ o.side = s.side
          /\ template # None => \A id \in history.sent : id[1] > MaxTicks ]_vars

\* What the position and all that is open of the instruments named could become.
StaysWithin(instruments) ==
  \A i \in instruments :
    LET coming == {o \in open : o.instrument = i} IN
    \A some \in SUBSET coming :
      Size(FoldSet(LAMBDA o, p : IF o.side = "BUY" THEN p + o.qty ELSE p - o.qty,
                   positions[i], some)) <= MaxPositionPerInstrument

\* These are all that can break the position limit: an order on its way when
\* another of its instrument is judged, a context's command of another instrument
\* or side, a leg that goes whole though the gate reduced it, and a holding that
\* the instrument's key does not find.
ExposureExplained == StaysWithin(Instruments \ (history.blind \cup history.unseen))

\* "Order quantity, daily loss and position limits are mandatory": where each
\* order was judged as it went, with no other on its way, the limit holds.
LimitIsMandatory == StaysWithin(Instruments \ history.blind)

\* The legs of a plan go in its order and all legs before one that went went
\* too: a denied leg never leaves a hole.
NoHoleInGroup ==
  LET Went(n) == history.plan[n] \in history.sent IN
  \A n \in DOMAIN history.plan : Went(n) => \A m \in 1..n : Went(m)

\* Nothing is sent with the kill switch on or the day's real loss at its limit,
\* by neither path.
StoppedMeansSilent ==
  [][ history'.sent # history.sent =>
        ~engine.kill /\ account > -MaxDailyLoss ]_vars

\* Reference values of STRATEGY_PRIORITY_MAP: no signal of the tail defence is
\* given up for one of the gap track.
HedgesFirst ==
  \A s \in call.signals \ Approved(call.signals) :
    s.track = "TRACK1_TAIL_DEFENSE" =>
      \A t \in Approved(call.signals) :
        t.instrument = s.instrument => t.track # "track5_gap_divergence"
=============================================================================
