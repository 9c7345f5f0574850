------------------------------ MODULE VirtualMarket ------------------------------
(***************************************************************************)
(* environments/virtual/market and clock.py: the simulated market.  Ticks  *)
(* come from a scenario or, once one is loaded, from a replay, and are     *)
(* taken by single steps or by a stream; a clock is moved by the           *)
(* scenario's ticks and by sleeping.  What drift, shocks and gaps make of  *)
(* the price is any price at or above the floor of the code.               *)
(***************************************************************************)
EXTENDS Integers, Sequences

CONSTANTS
  Prices,          \* prices of ticks, all at or above the floor
  Replays,         \* sequences of [seq, price] that may be loaded
  Sleeps,          \* tenths of a millisecond slept at a time
  TickStep,        \* tick_milliseconds of the VMSClockProvider
  StreamLength,    \* total_days * ticks_per_day
  MaxTicks,        \* bound: ticks of the scenario
  MaxSleeps,       \* bound: number of sleeps
  NoTick

ASSUME MarketAssumption ==
  /\ Prices \subseteq Int
  /\ Replays \subseteq Seq([seq : Nat, price : Int])
  /\ Sleeps \subseteq Nat
  /\ TickStep \in Nat \ {0}
  /\ StreamLength \in Nat /\ MaxTicks \in Nat /\ MaxSleeps \in Nat
  /\ NoTick \notin [seq : Nat, time : Nat]

VARIABLES
  clock,           \* milliseconds since the start, of VMSClockController
  elapsed,         \* tenths of a millisecond, of VMSClockProvider
  sequence,        \* sequence_id of VMSStateManager
  running,
  replay,          \* [ticks, cursor]
  stream,          \* [open, index] of the generator
  tick,            \* the tick emitted last
  emitted          \* sleeps: number of them; replayed: replay ticks taken since
                   \* the last load; last, before: the last two of the scenario

market == <<clock, elapsed, sequence, running, replay, stream, tick, emitted>>

MarketInit ==
  /\ clock = 0 /\ elapsed = 0
  /\ sequence = 0
  /\ running = TRUE
  /\ replay = [ticks |-> <<>>, cursor |-> 0]
  /\ stream = [open |-> FALSE, index |-> 0]
  /\ tick = NoTick
  /\ emitted = [sleeps |-> 0, replayed |-> <<>>, last |-> NoTick, before |-> NoTick]

Active == replay.ticks # <<>>
Exhausted == replay.cursor >= Len(replay.ticks)

\* _next_market_tick
NextMarketTick(price) ==
  LET made == [seq |-> sequence + 1, price |-> price] IN
  /\ ~Active
  /\ sequence < MaxTicks
  /\ sequence' = sequence + 1
  /\ clock' = clock + 500
  /\ tick' = made
  /\ emitted' = [emitted EXCEPT !.before = emitted.last, !.last = [seq |-> made.seq, time |-> clock]]
  /\ UNCHANGED replay

\* Slip: the tick is looked at, not taken.
NextReplayTickSlip ==
  /\ Active /\ ~Exhausted
  /\ tick' = replay.ticks[replay.cursor + 1]
  /\ emitted' = [emitted EXCEPT !.replayed = Append(@, tick')]
  /\ UNCHANGED <<sequence, clock, replay>>

\* HistoricalReplayEngine.next_tick, when there is one
NextReplayTick ==
  /\ Active /\ ~Exhausted
  /\ tick' = replay.ticks[replay.cursor + 1]
  /\ replay' = [replay EXCEPT !.cursor = @ + 1]
  /\ emitted' = [emitted EXCEPT !.replayed = Append(@, tick')]
  /\ UNCHANGED <<sequence, clock>>

\* step: it does not ask whether the market runs, and raises when the replay
\* is exhausted.
Step ==
  /\ \/ NextReplayTick
     \/ \E price \in Prices : NextMarketTick(price)
  /\ UNCHANGED <<elapsed, running, stream>>

\* generate_tick_stream: a generator counts all its ticks, replayed or not.
StreamNext ==
  /\ stream.open /\ running /\ stream.index < StreamLength
  /\ \/ NextReplayTick
     \/ \E price \in Prices : NextMarketTick(price)
  /\ stream' = [stream EXCEPT !.index = @ + 1]
  /\ UNCHANGED <<elapsed, running>>

-----------------------------------------------------------------------------
StartStream ==
  /\ ~stream.open
  /\ stream' = [open |-> TRUE, index |-> 0]
  /\ UNCHANGED <<clock, elapsed, sequence, running, replay, tick, emitted>>

\* A generator that has returned is not resumed.
EndStream ==
  /\ stream.open
  /\ ~running \/ stream.index = StreamLength \/ (Active /\ Exhausted)
  /\ stream' = [open |-> FALSE, index |-> 0]
  /\ UNCHANGED <<clock, elapsed, sequence, running, replay, tick, emitted>>

SetRunning(on) ==
  /\ running' = on
  /\ UNCHANGED <<clock, elapsed, sequence, replay, stream, tick, emitted>>

\* load_replay, clear_replay
LoadReplay(ticks) ==
  /\ replay' = [ticks |-> ticks, cursor |-> 0]
  /\ emitted' = [emitted EXCEPT !.replayed = <<>>]
  /\ UNCHANGED <<clock, elapsed, sequence, running, stream, tick>>

\* round(): halves go to the even number.
Rounded(tenths) ==
  LET whole == tenths \div 10
      rest == tenths % 10 IN
  IF rest > 5 \/ (rest = 5 /\ whole % 2 = 1) THEN whole + 1 ELSE whole

\* What the loop of advance_tick adds up to: full steps and the rest.
Advanced(milliseconds) ==
  (milliseconds \div TickStep) * TickStep + (milliseconds % TickStep)

\* VMSClockProvider.sleep_policy: less than half a millisecond is not slept.
Sleep(tenths) ==
  /\ emitted.sleeps < MaxSleeps
  /\ emitted' = [emitted EXCEPT !.sleeps = @ + 1]
  /\ clock' = clock + Advanced(Rounded(tenths))
  /\ elapsed' = IF Rounded(tenths) = 0 THEN elapsed ELSE elapsed + tenths
  /\ UNCHANGED <<sequence, running, replay, stream, tick>>

\* Everything but the ticks.
Control ==
  \/ StartStream \/ EndStream
  \/ \E on \in BOOLEAN : SetRunning(on)
  \/ \E ticks \in Replays \cup {<<>>} : LoadReplay(ticks)
  \/ \E tenths \in Sleeps : Sleep(tenths)

-----------------------------------------------------------------------------
MarketTypeOK ==
  /\ clock \in Nat /\ elapsed \in Nat
  /\ sequence \in 0..MaxTicks
  /\ replay.cursor \in 0..Len(replay.ticks)
  /\ stream.index \in 0..StreamLength

\* Between them, step and stream hand out every replayed tick once and in the
\* order in which it was loaded.
ReplayInOrder == emitted.replayed = SubSeq(replay.ticks, 1, replay.cursor)

\* The ticks a scenario makes, whoever takes them, carry growing sequence
\* numbers and times at least a tick apart.
ScenarioInOrder ==
  emitted.before # NoTick =>
    /\ emitted.before.seq < emitted.last.seq
    /\ emitted.before.time + 500 <= emitted.last.time

\* The simulated time is that of the ticks made and of the sleeps: what the
\* provider takes itself to have slept is off by half a millisecond a sleep.
ClockAccountedFor ==
  LET off == 10 * (clock - 500 * sequence) - elapsed IN
  -5 * emitted.sleeps <= off /\ off <= 5 * emitted.sleeps

\* Whoever takes ticks and whoever sleeps, neither a tick nor time is lost.
MarketInOrder == ReplayInOrder /\ ScenarioInOrder /\ ClockAccountedFor
=============================================================================
