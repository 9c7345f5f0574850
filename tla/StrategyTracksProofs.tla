------------------------- MODULE StrategyTracksProofs -------------------------
(***************************************************************************)
(* The promises of the strategy tracks, for every feed.  Each track has an *)
(* inductive invariant of its own, kept by every tick and by the reset;    *)
(* a track that evaluates in parts has one more statement, of the state    *)
(* and the signals so far, that each part hands to the next.               *)
(***************************************************************************)
EXTENDS StrategyTracks, TLAPS

-----------------------------------------------------------------------------
(* Track 1. *)

TailInv ==
  /\ T1!TypeOK
  /\ T1!HedgeIsSignalled
  /\ history.entries = state.count
  /\ state.count_date \in {None, clock.date}
  /\ state.count_date = None => state.count = 0

LEMMA TailInit == T1!Init => TailInv
  BY NoneAssumption, TailAssumption, DaysAssumption
  DEF T1!Init, T1!Fresh, T1!NoHistory, TailInv, T1!TypeOK, T1!HedgeIsSignalled, T1!Track1State

\* The updates of the record that change more than one field.
LEMMA TailRecords ==
  ASSUME NEW s \in T1!Track1State
  PROVE  /\ \A k \in 0..MaxHedges, date \in 1..Days :
              [s EXCEPT !.count = k, !.count_date = date] \in T1!Track1State
         /\ \A price \in TailPrices :
              [s EXCEPT !.market_opened = TRUE, !.base_price = price, !.fence = "PUT"]
                \in T1!Track1State
         /\ \A price \in TailPrices, k \in 0..MaxHedges :
              [s EXCEPT !.hedge = "SELL", !.entry = price, !.count = k] \in T1!Track1State
         /\ [s EXCEPT !.hedge = None, !.entry = None] \in T1!Track1State
  BY DEF T1!Track1State

\* What a tick does to the record before it looks at the market.
LEMMA TailPrelude ==
  ASSUME TailInv, NEW d \in T1!Inputs, T1!Follows(clock, d), NEW s,
         s = T1!Counted(state, d) \/ s = T1!Distanced(T1!Counted(state, d), d)
  PROVE  /\ s \in T1!Track1State
         /\ s.count_date = d.date
         /\ s.count = IF d.date = clock.date THEN history.entries ELSE 0
         /\ s.hedge = state.hedge /\ s.entry = state.entry /\ s.fence = state.fence
         /\ s.base_price = state.base_price
<1> DEFINE t == T1!Counted(state, d)
<1>1. d.date \in 1..Days /\ 0 \in 0..MaxHedges /\ state \in T1!Track1State
      /\ clock.date \in 1..Days
  BY TailAssumption DEF T1!Inputs, TailInv, T1!TypeOK
<1>2. t \in T1!Track1State
  BY <1>1, TailRecords DEF T1!Counted
<1>3. /\ t.count_date = d.date
      /\ t.count = IF state.count_date = d.date THEN state.count ELSE 0
      /\ t.hedge = state.hedge /\ t.entry = state.entry /\ t.fence = state.fence
      /\ t.base_price = state.base_price
  BY <1>1 DEF T1!Counted, T1!Track1State
<1>4. t.count = IF d.date = clock.date THEN history.entries ELSE 0
  BY <1>1, <1>3, NoneAssumption DEF TailInv
<1> HIDE DEF t
<1>5. CASE s = t
  BY <1>2, <1>3, <1>4, <1>5
<1>6. CASE s = T1!Distanced(t, d)
  <2>1. s \in T1!Track1State
    BY <1>2, <1>6 DEF T1!Distanced, T1!Track1State
  <2>2. /\ s.count_date = t.count_date /\ s.count = t.count /\ s.hedge = t.hedge
        /\ s.entry = t.entry /\ s.fence = t.fence /\ s.base_price = t.base_price
    BY <1>2, <1>6 DEF T1!Distanced, T1!Track1State
  <2> QED BY <1>3, <1>4, <2>1, <2>2
<1> QED BY <1>5, <1>6 DEF t

\* A tick's end: the record s, the signals and the history that Emit writes.
LEMMA TailEmit ==
  ASSUME TailInv, NEW d \in T1!Inputs, clock' = T1!At(d), NEW s \in T1!Track1State,
         NEW out, NEW sold \in Int, NEW entered \in Int, T1!Emit(s, out, sold, entered),
         s.count_date = d.date, (s.hedge = None) <=> (s.entry = None),
         s.fence # None => s.base_price # None,
         history.sold + sold = (IF s.hedge = None THEN 0 ELSE 1),
         s.count = entered + IF d.date = clock.date THEN history.entries ELSE 0
  PROVE  TailInv'
<1>1. clock' = [date |-> d.date, time |-> d.time] /\ clock'.date = d.date
      /\ clock' \in [date : 1..Days, time : {900}]
  BY DEF T1!At, T1!Inputs
<1>2. history \in [sold : Int, entries : Int]
  BY DEF TailInv, T1!TypeOK
<1>3. /\ state' = s
      /\ history' = [sold |-> history.sold + sold, entries |-> s.count]
  BY <1>1 DEF T1!Emit
<1>4. s.count \in Int
  BY TailAssumption DEF T1!Track1State
<1>5. T1!TypeOK'
  BY <1>1, <1>2, <1>3, <1>4 DEF T1!TypeOK
<1> QED BY <1>1, <1>3, <1>5, NoneAssumption DEF TailInv, T1!HedgeIsSignalled

LEMMA TailNext == TailInv /\ T1!Next => TailInv'
<1> SUFFICES ASSUME TailInv, T1!Next PROVE TailInv'
  OBVIOUS
<1>0. state \in T1!Track1State /\ history \in [sold : Int, entries : Int]
      /\ ((state.hedge = None) <=> (state.entry = None))
      /\ (state.fence # None => state.base_price # None)
      /\ history.sold = (IF state.hedge = None THEN 0 ELSE 1)
      /\ history.entries \in Int /\ history.sold \in Int
  BY DEF TailInv, T1!TypeOK, T1!HedgeIsSignalled
<1>1. ASSUME NEW d \in T1!Inputs, T1!Evaluate(d) PROVE TailInv'
  <2> DEFINE c == T1!Counted(state, d)
  <2> DEFINE s == T1!Distanced(c, d)
  <2> DEFINE Prelude(r) ==
        /\ r \in T1!Track1State
        /\ r.count_date = d.date
        /\ r.count = (IF d.date = clock.date THEN history.entries ELSE 0)
        /\ r.hedge = state.hedge /\ r.entry = state.entry /\ r.fence = state.fence
        /\ r.base_price = state.base_price
  <2>1. T1!Follows(clock, d) /\ clock' = T1!At(d)
    BY <1>1 DEF T1!Evaluate
  <2>2. Prelude(c) /\ Prelude(s)
    BY <2>1, TailPrelude
  <2>3. d.price \in TailPrices /\ d.price # None /\ d.price \in Int
    <3>1. d.price \in TailPrices
      BY DEF T1!Inputs
    <3>2. d.price \in Int
      BY <3>1, TailAssumption
    <3> QED BY <3>1, <3>2, NoneAssumption
  <2> DEFINE Emits(r, sold, entered) == \E out : T1!Emit(r, out, sold, entered)
  <2>4. /\ T1!Cutoff(d) => Emits([c EXCEPT !.fence = None], 0, 0)
        /\ T1!Open(d) => Emits([s EXCEPT !.market_opened = TRUE, !.base_price = d.price,
                                         !.fence = "PUT"], 0, 0)
        /\ T1!Unfenced(d) => Emits(s, 0, 0)
        /\ T1!Hedge(d) => s.hedge = None /\ s.count < MaxHedges
        /\ T1!Hedge(d) => IF d.quantity > 0 THEN Emits(T1!Hedged(s, d), 1, 1)
                                            ELSE Emits(T1!Hedged(s, d), 0, 0)
        /\ T1!Watch(d) => IF T1!Reverted(s, d)
                          THEN Emits([s EXCEPT !.hedge = None, !.entry = None], -1, 0)
                          ELSE Emits(s, 0, 0)
    BY DEF T1!Cutoff, T1!Open, T1!Unfenced, T1!Hedge, T1!Watch
  <2> HIDE DEF c, s
  <2>5. CASE T1!Cutoff(d)
    <3> DEFINE r == [c EXCEPT !.fence = None]
    <3>1. Emits(r, 0, 0)
      BY <2>4, <2>5
    <3>2. r \in T1!Track1State /\ r.fence = None /\ r.hedge = c.hedge /\ r.entry = c.entry
          /\ r.count = c.count /\ r.count_date = c.count_date
      BY <2>2 DEF T1!Track1State
    <3> HIDE DEF r
    <3> QED BY <1>0, <2>1, <2>2, <3>1, <3>2, TailEmit
  <2>6. CASE T1!Open(d)
    <3> DEFINE r == [s EXCEPT !.market_opened = TRUE, !.base_price = d.price, !.fence = "PUT"]
    <3>1. Emits(r, 0, 0)
      BY <2>4, <2>6
    <3>2. r \in T1!Track1State
      BY <2>2, <2>3, TailRecords
    <3>3. r.base_price = d.price /\ r.hedge = s.hedge /\ r.entry = s.entry
          /\ r.count = s.count /\ r.count_date = s.count_date
      BY <2>2 DEF T1!Track1State
    <3> HIDE DEF r
    <3> QED BY <1>0, <2>1, <2>2, <2>3, <3>1, <3>2, <3>3, TailEmit
  <2>7. CASE T1!Unfenced(d)
    BY <1>0, <2>1, <2>2, <2>4, <2>7, TailEmit
  <2>8. CASE T1!Hedge(d)
    <3>1. CASE d.quantity > 0
      <4> DEFINE r == [s EXCEPT !.hedge = "SELL", !.entry = d.price, !.count = @ + 1]
      <4>1. Emits(r, 1, 1)
        BY <2>4, <2>8, <3>1 DEF T1!Hedged
      <4>2. s.count + 1 \in 0..MaxHedges
        <5>1. s.count < MaxHedges
          BY <2>4, <2>8
        <5>2. s.count \in 0..MaxHedges
          BY <2>2 DEF T1!Track1State
        <5> QED BY <5>1, <5>2, TailAssumption
      <4>3. r \in T1!Track1State
        BY <2>2, <2>3, <4>2, TailRecords
      <4>4. r.hedge = "SELL" /\ r.entry = d.price /\ r.count = s.count + 1
            /\ r.count_date = s.count_date /\ r.fence = s.fence /\ r.base_price = s.base_price
        BY <2>2 DEF T1!Track1State
      <4> HIDE DEF r
      <4>5. s.hedge = None
        BY <2>4, <2>8
      <4>6. r.count = 1 + IF d.date = clock.date THEN history.entries ELSE 0
        BY <1>0, <2>2, <4>4
      <4> QED BY <1>0, <2>1, <2>2, <2>3, <4>1, <4>3, <4>4, <4>5, <4>6, NoneAssumption, TailEmit
    <3>2. CASE ~(d.quantity > 0)
      <4>1. Emits(s, 0, 0)
        BY <2>4, <2>8, <3>2 DEF T1!Hedged
      <4> QED BY <1>0, <2>1, <2>2, <4>1, TailEmit
    <3> QED BY <3>1, <3>2
  <2>9. CASE T1!Watch(d)
    <3>1. CASE T1!Reverted(s, d)
      <4> DEFINE r == [s EXCEPT !.hedge = None, !.entry = None]
      <4>1. Emits(r, -1, 0)
        BY <2>4, <2>9, <3>1
      <4>2. r \in T1!Track1State
        BY <2>2, TailRecords
      <4>3. r.hedge = None /\ r.entry = None /\ r.count = s.count
            /\ r.count_date = s.count_date /\ r.fence = s.fence /\ r.base_price = s.base_price
        BY <2>2 DEF T1!Track1State
      <4> HIDE DEF r
      <4>4. state.hedge # None
        BY <2>2, <3>1, NoneAssumption DEF T1!Reverted
      <4>5. history.sold + (-1) = 0 /\ -1 \in Int
        BY <1>0, <4>4
      <4>6. /\ r.count_date = d.date
            /\ r.count = 0 + (IF d.date = clock.date THEN history.entries ELSE 0)
            /\ ((r.hedge = None) <=> (r.entry = None))
            /\ (r.fence # None => r.base_price # None)
        BY <1>0, <2>2, <4>3
      <4> QED BY <2>1, <4>1, <4>2, <4>3, <4>5, <4>6, TailEmit
    <3>2. CASE ~T1!Reverted(s, d)
      BY <1>0, <2>1, <2>2, <2>4, <2>9, <3>2, TailEmit
    <3> QED BY <3>1, <3>2
  <2> QED BY <1>1, <2>5, <2>6, <2>7, <2>8, <2>9 DEF T1!Evaluate
<1>2. CASE T1!Reset
  BY <1>2, NoneAssumption, TailAssumption
  DEF TailInv, T1!Reset, T1!Fresh, T1!NoHistory, T1!TypeOK, T1!HedgeIsSignalled, T1!Track1State
<1> QED BY <1>1, <1>2 DEF T1!Next
-----------------------------------------------------------------------------
(* Track 3. *)

\* How far the cooldown of the last exit has run is what the record counts
\* down; a held spread has been judged by the last z-score.
SpreadInv ==
  /\ T3!TypeOK
  /\ T3!StopHonoured
  /\ state.date \in {None, clock.date}
  /\ history.late => state.date = clock.date /\ clock.time >= 1515 /\ state.active = None
  /\ history.since <= history.due /\ state.cooldown = history.due - history.since

LEMMA SpreadInit == T3!Init => SpreadInv
  BY NoneAssumption, SpreadAssumption, DaysAssumption
  DEF T3!Init, T3!Fresh, T3!NoHistory, SpreadInv, T3!TypeOK, T3!StopHonoured, T3!Track3State

LEMMA SpreadLarger ==
  ASSUME NEW a \in Int, NEW b \in Int
  PROVE  T3!Larger(a, b) \in Int /\ T3!Larger(a, b) >= a /\ T3!Larger(a, b) >= b
         /\ (T3!Larger(a, b) = a \/ T3!Larger(a, b) = b)
  BY DEF T3!Larger

LEMMA SpreadRecords ==
  ASSUME NEW s \in T3!Track3State
  PROVE  /\ \A date \in 1..Days, n \in 0..StopCooldown, m \in 0..MaxHoldingTicks,
              quantity \in 0..2 :
              [s EXCEPT !.date = date, !.cooldown = n, !.holding = m, !.active = None,
                        !.quantity = quantity, !.last_exit = None] \in T3!Track3State
         /\ \A n \in 0..StopCooldown : [s EXCEPT !.cooldown = n] \in T3!Track3State
         /\ \A position \in {"SHORT_SPREAD", "LONG_SPREAD"}, quantity \in 0..2 :
              [s EXCEPT !.active = position, !.quantity = quantity, !.holding = 0, !.high = 0]
                \in T3!Track3State
         /\ \A n \in 0..MaxHoldingTicks, high \in Int :
              [s EXCEPT !.holding = n, !.high = high] \in T3!Track3State
         /\ \A z \in Int, n \in 0..StopCooldown :
              [s EXCEPT !.last_exit = z, !.active = None, !.quantity = 0, !.cooldown = n,
                        !.holding = 0] \in T3!Track3State
<1>0. 0 \in 0..MaxHoldingTicks /\ 0 \in 0..StopCooldown /\ 0 \in 0..2 /\ 0 \in Int
  BY SpreadAssumption
<1>1. ASSUME NEW date \in 1..Days, NEW n \in 0..StopCooldown, NEW m \in 0..MaxHoldingTicks,
             NEW quantity \in 0..2
      PROVE  [s EXCEPT !.date = date, !.cooldown = n, !.holding = m, !.active = None,
                       !.quantity = quantity, !.last_exit = None] \in T3!Track3State
  BY DEF T3!Track3State
<1>2. ASSUME NEW n \in 0..StopCooldown
      PROVE  [s EXCEPT !.cooldown = n] \in T3!Track3State
  BY DEF T3!Track3State
<1>3. ASSUME NEW position \in {"SHORT_SPREAD", "LONG_SPREAD"}, NEW quantity \in 0..2
      PROVE  [s EXCEPT !.active = position, !.quantity = quantity, !.holding = 0, !.high = 0]
                \in T3!Track3State
  BY <1>0 DEF T3!Track3State
<1>4. ASSUME NEW n \in 0..MaxHoldingTicks, NEW high \in Int
      PROVE  [s EXCEPT !.holding = n, !.high = high] \in T3!Track3State
  BY DEF T3!Track3State
<1>5. ASSUME NEW z \in Int, NEW n \in 0..StopCooldown
      PROVE  [s EXCEPT !.last_exit = z, !.active = None, !.quantity = 0, !.cooldown = n,
                        !.holding = 0] \in T3!Track3State
  BY <1>0 DEF T3!Track3State
<1> QED BY <1>1, <1>2, <1>3, <1>4, <1>5

\* The record after the date and the cooldown of a tick.
LEMMA SpreadCurrent ==
  ASSUME SpreadInv, NEW d, d.date \in 1..Days, NEW c, c = T3!Current(d)
  PROVE  /\ c \in T3!Track3State
         /\ c.date = d.date
         /\ (c.active = None) <=> (c.quantity = 0)
         /\ c.active = None => c.holding = 0
         /\ c.holding < MaxHoldingTicks
         /\ d.date = state.date =>
              c.active = state.active /\ c.holding = state.holding
              /\ c.cooldown = T3!Larger(0, state.cooldown - 1)
         /\ d.date # state.date => c.active = None /\ c.cooldown = 0
<1> DEFINE t == T3!Dated(state, d)
<1>1. state \in T3!Track3State /\ ((state.active = None) <=> (state.quantity = 0))
      /\ (state.active = None => state.holding = 0) /\ state.holding < MaxHoldingTicks
  BY DEF SpreadInv, T3!TypeOK
<1>2. /\ t \in T3!Track3State /\ t.date = d.date
      /\ d.date = state.date => t = state
      /\ d.date # state.date => t.active = None /\ t.cooldown = 0 /\ t.holding = 0 /\ t.quantity = 0
  <2>1. CASE d.date = state.date
    BY <1>1, <2>1 DEF T3!Dated
  <2>2. CASE d.date # state.date
    <3> DEFINE r == [state EXCEPT !.date = d.date, !.cooldown = 0, !.holding = 0,
                                  !.active = None, !.quantity = 0, !.last_exit = None]
    <3>1. r \in T3!Track3State
      <4>1. 0 \in 0..StopCooldown /\ 0 \in 0..MaxHoldingTicks /\ 0 \in 0..2
        BY SpreadAssumption
      <4> QED BY <1>1, <4>1, SpreadRecords
    <3>2. r.date = d.date /\ r.active = None /\ r.cooldown = 0 /\ r.holding = 0 /\ r.quantity = 0
      BY <1>1 DEF T3!Track3State
    <3>3. t = r
      BY <2>2 DEF T3!Dated
    <3> HIDE DEF r, t
    <3> QED BY <2>2, <3>1, <3>2, <3>3
  <2> QED BY <2>1, <2>2
<1> HIDE DEF t
<1>3. t.cooldown \in 0..StopCooldown
  BY <1>2 DEF T3!Track3State
<1>4. T3!Larger(0, t.cooldown - 1) \in 0..StopCooldown
      /\ (t.cooldown = 0 => T3!Larger(0, t.cooldown - 1) = 0)
  BY <1>3, SpreadAssumption DEF T3!Larger
<1>5. c = [t EXCEPT !.cooldown = T3!Larger(0, t.cooldown - 1)]
  BY DEF T3!Current, T3!Cooled, t
<1>6. /\ c \in T3!Track3State
      /\ c.date = t.date /\ c.active = t.active /\ c.holding = t.holding
      /\ c.quantity = t.quantity /\ c.cooldown = T3!Larger(0, t.cooldown - 1)
  <2> DEFINE n == T3!Larger(0, t.cooldown - 1)
  <2>1. n \in 0..StopCooldown /\ c = [t EXCEPT !.cooldown = n]
    BY <1>4, <1>5
  <2> HIDE DEF n
  <2>2. /\ c.date = t.date /\ c.active = t.active /\ c.holding = t.holding
        /\ c.quantity = t.quantity /\ c.cooldown = n
    BY <2>1, <1>2 DEF T3!Track3State
  <2> QED BY <2>1, <2>2, <1>2, SpreadRecords DEF n
<1>7. 0 < MaxHoldingTicks
  BY SpreadAssumption
<1> QED BY <1>1, <1>2, <1>4, <1>6, <1>7

\* The history and the record agree when a tick has written both.
LEMMA SpreadRemember ==
  ASSUME SpreadInv, NEW d, d.date \in 1..Days, d.time \in {900, 1500, 1515},
         T3!Tick(d), NEW since \in Nat, NEW due \in Nat, NEW late \in BOOLEAN,
         T3!Remember(d, since, due, late),
         state' \in T3!Track3State, state'.date = d.date,
         (state'.active = None) <=> (state'.quantity = 0),
         state'.active = None => state'.holding = 0,
         state'.holding < MaxHoldingTicks,
         d.date = state.date => since <= due /\ state'.cooldown = due - since,
         d.date # state.date => state'.cooldown = 0,
         late => d.time >= 1515 /\ state'.active = None,
         d.date = state.date /\ history.late => state'.active = None,
         d.valid => d.z \in Int,
         state'.active # None /\ state'.holding > 0 =>
           IF state'.active = "SHORT_SPREAD" THEN (IF d.valid THEN d.z ELSE history.z) < 35
                                             ELSE (IF d.valid THEN d.z ELSE history.z) > -35
  PROVE  SpreadInv'
<1> DEFINE same == d.date = state.date
<1>1. /\ clock \in [date : 1..Days, time : {900, 1500, 1515}]
      /\ history \in [since : Nat, due : Nat, late : BOOLEAN, z : Int]
      /\ state.date \in {None, clock.date}
      /\ history.late => state.date = clock.date /\ clock.time >= 1515
  BY DEF SpreadInv, T3!TypeOK
<1>2. /\ clock' = [date |-> d.date, time |-> d.time]
      /\ (d.date = clock.date /\ d.time >= clock.time) \/ d.date = clock.date + 1
  BY DEF T3!Tick, T3!At, T3!Follows
<1>3. clock' \in [date : 1..Days, time : {900, 1500, 1515}] /\ clock'.date = d.date
      /\ clock'.time = d.time
  BY <1>2
<1> DEFINE z == IF state'.active = None \/ state'.holding = 0 THEN 0
                ELSE IF d.valid THEN d.z ELSE history.z
<1> DEFINE l == late \/ (same /\ history.late)
<1> DEFINE a == IF same THEN since ELSE 0
<1> DEFINE b == IF same THEN due ELSE 0
<1>4. history' = [since |-> a, due |-> b, late |-> l, z |-> z]
  BY DEF T3!Remember
<1>5. z \in Int /\ l \in BOOLEAN /\ a \in Nat /\ b \in Nat
  BY <1>1
<1>6. history' \in [since : Nat, due : Nat, late : BOOLEAN, z : Int]
      /\ history'.since = a /\ history'.due = b /\ history'.late = l /\ history'.z = z
  <2> HIDE DEF z, l, a, b
  <2> QED BY <1>4, <1>5
<1>7. T3!TypeOK'
  BY <1>3, <1>6 DEF T3!TypeOK
<1>8. state'.holding \in Int
  BY DEF T3!Track3State
<1>9. T3!StopHonoured'
  <2> SUFFICES ASSUME state'.active # None, state'.holding > 0
               PROVE  IF state'.active = "SHORT_SPREAD" THEN z < 35 ELSE z > -35
    BY <1>6 DEF T3!StopHonoured
  <2> QED BY <1>8
<1>10. l => d.date = clock'.date /\ d.time >= 1515 /\ state'.active = None
  <2> SUFFICES ASSUME ~late, same, history.late
               PROVE  d.time >= 1515 /\ state'.active = None
    BY <1>3
  <2>1. clock.date \in Int /\ clock.time \in Int /\ d.time \in Int
    BY <1>1
  <2> QED BY <1>1, <1>2, <2>1
<1>11. a <= b /\ state'.cooldown = b - a
  OBVIOUS
<1> HIDE DEF l, a, b
<1> QED BY <1>3, <1>6, <1>7, <1>9, <1>10, <1>11 DEF SpreadInv

\* What the ticks of the feed are.
LEMMA SpreadScores == \A z \in T3!ZScores : z \in Int
  BY SpreadAssumption DEF T3!ZScores

LEMMA SpreadFlatInput ==
  ASSUME NEW d \in T3!FlatInputs
  PROVE  /\ d.date \in 1..Days /\ d.time \in {900, 1500, 1515} /\ d.valid
         /\ d.z \in Int
<1> DEFINE Valid == {TRUE}
<1>1. T3!FlatInputs = [date : 1..Days, time : {900, 1500, 1515}, valid : Valid,
                      z : T3!ZScores, regime : T3!Regimes, settled : BOOLEAN,
                      size_up : BOOLEAN, net : Nets]
  BY DEF T3!FlatInputs
<1> HIDE DEF Valid
<1>2. d.valid \in Valid
  BY <1>1
<1>3. d.valid \in {TRUE}
  BY <1>2 DEF Valid
<1>4. d.valid
  BY <1>3
<1>5. d.date \in 1..Days /\ d.time \in {900, 1500, 1515} /\ d.z \in T3!ZScores
  BY <1>1
<1> QED BY SpreadScores, <1>4, <1>5

LEMMA SpreadQuantity ==
  ASSUME NEW d \in T3!FlatInputs, T3!EntryAllowed(T3!Current(d), d)
  PROVE  T3!Quantity(d) \in {1, 2}
  BY DEF T3!EntryAllowed, T3!EntryBlocked, T3!Quantity

LEMMA SpreadHeldInput ==
  ASSUME NEW d \in T3!HeldInputs
  PROVE  /\ d.date \in 1..Days /\ d.time \in {900, 1515} /\ d.valid /\ d.z \in Int
         /\ d.pnl \in Int
<1> DEFINE Valid == {TRUE}
<1>1. T3!HeldInputs = [date : 1..Days, time : {900, 1515}, valid : Valid,
                      z : T3!ZScores, regime : T3!Regimes \ {"EXTREME_MOVE"},
                      pnl : SpreadProfits]
  BY DEF T3!HeldInputs
<1> HIDE DEF Valid
<1>2. d.valid \in Valid
  BY <1>1
<1>3. d.valid \in {TRUE}
  BY <1>2 DEF Valid
<1>4. d.valid
  BY <1>3
<1>5. d.date \in 1..Days /\ d.time \in {900, 1515} /\ d.z \in T3!ZScores
      /\ d.pnl \in SpreadProfits
  BY <1>1
<1>6. d.pnl \in Int
  BY <1>5, SpreadAssumption
<1> QED BY SpreadScores, <1>4, <1>5, <1>6

LEMMA SpreadInvalidInput ==
  ASSUME NEW d \in T3!InvalidInputs
  PROVE  d.date \in 1..Days /\ d.time \in {900, 1500, 1515} /\ ~d.valid
<1> DEFINE Valid == {FALSE}
<1>1. T3!InvalidInputs = [date : 1..Days, time : {900, 1500, 1515}, valid : Valid]
  BY DEF T3!InvalidInputs
<1> HIDE DEF Valid
<1>2. d.valid \in Valid
  BY <1>1
<1>3. d.valid \in {FALSE}
  BY <1>2 DEF Valid
<1>4. ~d.valid
  BY <1>3
<1>5. d.date \in 1..Days /\ d.time \in {900, 1500, 1515}
  BY <1>1
<1> QED BY <1>4, <1>5

\* The cooldown runs with the ticks since the exit.
LEMMA SpreadLater ==
  ASSUME SpreadInv, NEW d
  PROVE  /\ T3!Later(d) \in Nat /\ history.due \in Nat /\ T3!Later(d) <= history.due
         /\ T3!Larger(0, state.cooldown - 1) = history.due - T3!Later(d)
  BY DEF SpreadInv, T3!TypeOK, T3!Later, T3!Larger

LEMMA SpreadQuiet ==
  ASSUME SpreadInv, NEW d, d.date \in 1..Days, d.time \in {900, 1500, 1515},
         d.valid => d.z \in Int, T3!Tick(d),
         NEW s \in T3!Track3State, T3!Quiet(d, s),
         s.active = T3!Current(d).active, s.cooldown = T3!Current(d).cooldown,
         s.quantity = T3!Current(d).quantity, s.date = d.date,
         s.active = None => s.holding = 0,
         s.holding < MaxHoldingTicks,
         s.active # None => ~(d.valid /\ d.time >= 1515),
         s.active # None /\ s.holding > 0 =>
           IF s.active = "SHORT_SPREAD" THEN (IF d.valid THEN d.z ELSE history.z) < 35
                                        ELSE (IF d.valid THEN d.z ELSE history.z) > -35
  PROVE  SpreadInv'
<1> DEFINE c == T3!Current(d)
<1>1. /\ (c.active = None) <=> (c.quantity = 0)
      /\ d.date = state.date =>
           c.active = state.active /\ c.cooldown = T3!Larger(0, state.cooldown - 1)
      /\ d.date # state.date => c.active = None /\ c.cooldown = 0
  BY SpreadCurrent
<1> DEFINE late == d.valid /\ d.time >= 1515
<1> DEFINE since == T3!Later(d)
<1> DEFINE due == history.due
<1>2. state' = s /\ T3!Remember(d, since, due, late)
  BY DEF T3!Quiet
<1>3. since \in Nat /\ due \in Nat /\ late \in BOOLEAN
      /\ (d.date = state.date => since <= due /\ s.cooldown = due - since)
  BY <1>1, SpreadLater
<1>4. history.late => state.active = None
  BY DEF SpreadInv
<1>5. /\ (s.active = None) <=> (s.quantity = 0)
      /\ d.date # state.date => s.cooldown = 0
      /\ d.date = state.date /\ history.late => s.active = None
      /\ late => d.time >= 1515 /\ s.active = None
  BY <1>1, <1>4
<1> HIDE DEF c, late, since, due
<1> QED BY <1>2, <1>3, <1>5, SpreadRemember

LEMMA SpreadEnter ==
  ASSUME SpreadInv, NEW d \in T3!FlatInputs, T3!Tick(d), T3!Enter(d)
  PROVE  SpreadInv' /\ T3!CooldownKept
<1> DEFINE c == T3!Current(d)
<1> DEFINE position == IF d.z > 0 THEN "SHORT_SPREAD" ELSE "LONG_SPREAD"
<1> DEFINE quantity == T3!Quantity(d)
<1> DEFINE s == [c EXCEPT !.active = position, !.quantity = quantity, !.holding = 0, !.high = 0]
<1>1. /\ d.date \in 1..Days /\ d.time \in {900, 1500, 1515} /\ d.valid /\ d.z \in Int
  BY SpreadFlatInput
<1>2. /\ T3!EntryAllowed(c, d)
      /\ state' = s
      /\ T3!Remember(d, T3!Later(d), history.due, d.time >= 1515)
  BY DEF T3!Enter
<1>3. /\ c \in T3!Track3State /\ c.date = d.date
      /\ d.date = state.date =>
           c.active = state.active /\ c.cooldown = T3!Larger(0, state.cooldown - 1)
      /\ d.date # state.date => c.active = None /\ c.cooldown = 0
  BY <1>1, SpreadCurrent
<1>4. d.time < 1500 /\ ~(c.cooldown > 0) /\ quantity \in {1, 2}
  BY <1>1, <1>2, SpreadQuantity DEF T3!EntryAllowed, T3!EntryBlocked
<1>5. position \in {"SHORT_SPREAD", "LONG_SPREAD"} /\ position # None /\ quantity \in 0..2
  BY <1>4, NoneAssumption
<1> HIDE DEF c, position, quantity
<1>6. s \in T3!Track3State
  BY <1>3, <1>5, SpreadRecords
<1>7. /\ s.active = position /\ s.quantity = quantity /\ s.holding = 0 /\ s.date = c.date
      /\ s.cooldown = c.cooldown
  BY <1>3 DEF T3!Track3State
<1> HIDE DEF s
<1>8. T3!Later(d) \in Nat /\ history.due \in Nat
      /\ (d.date = state.date => T3!Later(d) <= history.due
                                 /\ s.cooldown = history.due - T3!Later(d))
  BY <1>3, <1>7, SpreadLater
<1>9. ~(d.date = state.date /\ history.late)
  <2> SUFFICES ASSUME d.date = state.date, history.late PROVE FALSE
    OBVIOUS
  <2>1. state.date = clock.date /\ clock.time >= 1515 /\ clock \in [date : 1..Days, time : {900, 1500, 1515}]
    BY DEF SpreadInv, T3!TypeOK
  <2>2. d.time >= clock.time
    BY <1>1, <2>1 DEF T3!Tick, T3!Follows
  <2> QED BY <1>1, <1>4, <2>1, <2>2
<1>10. SpreadInv'
  <2>1. 0 < MaxHoldingTicks
    BY SpreadAssumption
  <2> DEFINE late == d.time >= 1515
  <2>2. T3!Remember(d, T3!Later(d), history.due, late) /\ late \in BOOLEAN /\ ~late
    BY <1>1, <1>2, <1>4
  <2> HIDE DEF late
  <2>3. /\ (d.valid => d.z \in Int) /\ ~(state'.holding > 0)
        /\ state' \in T3!Track3State /\ state'.date = d.date
        /\ ((state'.active = None) <=> (state'.quantity = 0))
        /\ state'.active # None /\ state'.holding = 0 /\ state'.holding < MaxHoldingTicks
        /\ (d.date # state.date => state'.cooldown = 0)
        /\ (d.date = state.date => T3!Later(d) <= history.due
                                   /\ state'.cooldown = history.due - T3!Later(d))
    <3>1. state' = s
      BY <1>2
    <3>2. s.quantity # 0 /\ s.active # None /\ s.holding = 0 /\ s.date = d.date
      BY <1>3, <1>4, <1>5, <1>7
    <3>3. d.date # state.date => s.cooldown = 0
      BY <1>3, <1>7
    <3> QED BY <1>1, <1>6, <1>8, <2>1, <3>1, <3>2, <3>3
  <2> QED BY <1>1, <1>8, <1>9, <2>2, <2>3, SpreadRemember
<1>11. T3!CooldownKept
  <2> SUFFICES ASSUME state'.date = state.date
               PROVE  history.since + 1 >= history.due
    BY DEF T3!CooldownKept
  <2>1. d.date = state.date
    BY <1>2, <1>3, <1>7
  <2>2. /\ history.since \in Nat /\ history.due \in Nat /\ history.since <= history.due
        /\ state.cooldown = history.due - history.since
    BY DEF SpreadInv, T3!TypeOK
  <2> QED BY <1>3, <1>4, <2>1, <2>2 DEF T3!Larger
<1> QED BY <1>10, <1>11

\* A tick with a spread open.
LEMMA SpreadHeld ==
  ASSUME SpreadInv, NEW d \in T3!HeldInputs, T3!Current(d).active # None,
         NEW h, h = T3!Held(d)
  PROVE  /\ h \in T3!Track3State
         /\ h.active = state.active /\ h.active # None /\ h.quantity # 0
         /\ h.cooldown = T3!Current(d).cooldown /\ h.quantity = T3!Current(d).quantity
         /\ h.date = d.date /\ d.date = state.date /\ h.holding > 0
<1> DEFINE c == T3!Current(d)
<1> DEFINE n == c.holding + 1
<1> DEFINE high == IF d.time >= 1515 THEN c.high ELSE T3!Larger(c.high, d.pnl)
<1>1. d.date \in 1..Days /\ d.pnl \in Int
  BY SpreadHeldInput
<1>2. /\ c \in T3!Track3State /\ c.date = d.date /\ c.quantity # 0
      /\ c.holding < MaxHoldingTicks
      /\ d.date = state.date /\ c.active = state.active
  BY <1>1, SpreadCurrent
<1>3. n \in 0..MaxHoldingTicks /\ n > 0
  BY <1>2, SpreadAssumption DEF T3!Track3State
<1>4. c.high \in Int
  BY <1>2 DEF T3!Track3State
<1>5. high \in Int
  <2>1. T3!Larger(c.high, d.pnl) \in Int
    BY <1>1, <1>4, SpreadLarger
  <2> QED BY <1>4, <2>1
<1>6. h = [c EXCEPT !.holding = n, !.high = high]
  BY DEF T3!Held
<1>7. c.active # None
  OBVIOUS
<1> HIDE DEF c, n, high
<1>8. h \in T3!Track3State
  <2>1. [c EXCEPT !.holding = n, !.high = high] \in T3!Track3State
    BY <1>2, <1>3, <1>5 DEF T3!Track3State
  <2> QED BY <1>6, <2>1
<1>9. /\ h.active = c.active /\ h.quantity = c.quantity /\ h.cooldown = c.cooldown
      /\ h.date = c.date /\ h.holding = n
  BY <1>2, <1>6 DEF T3!Track3State
<1> QED BY <1>2, <1>3, <1>7, <1>8, <1>9 DEF c

LEMMA SpreadKeep ==
  ASSUME SpreadInv, NEW d \in T3!HeldInputs, T3!Tick(d), T3!Keep(d)
  PROVE  SpreadInv'
<1> DEFINE h == T3!Held(d)
<1>1. /\ d.date \in 1..Days /\ d.time \in {900, 1500, 1515} /\ d.valid /\ d.z \in Int
  BY SpreadHeldInput
<1>2. T3!Current(d).active # None /\ ~T3!Exits(h, d) /\ T3!Quiet(d, h)
  BY DEF T3!Keep
<1>3. /\ h \in T3!Track3State
      /\ h.active # None
      /\ h.active = state.active
      /\ h.cooldown = T3!Current(d).cooldown /\ h.quantity = T3!Current(d).quantity
      /\ h.date = d.date /\ d.date = state.date /\ h.holding > 0
  BY <1>2, SpreadHeld
<1>4. T3!Current(d).active = state.active
  BY <1>1, <1>3, SpreadCurrent
<1> HIDE DEF h
<1>5. ~(d.time >= 1515) /\ ~T3!Stopped(h, d) /\ ~(h.holding >= MaxHoldingTicks)
  BY <1>2 DEF T3!Exits
<1>6. h.holding < MaxHoldingTicks
  BY <1>3, <1>5, SpreadAssumption DEF T3!Track3State
<1>7. h.active \in {"SHORT_SPREAD", "LONG_SPREAD"}
  BY <1>3 DEF T3!Track3State
<1>8. IF h.active = "SHORT_SPREAD" THEN (IF d.valid THEN d.z ELSE history.z) < 35
                                   ELSE (IF d.valid THEN d.z ELSE history.z) > -35
  BY <1>1, <1>5, <1>7 DEF T3!Stopped
<1> QED BY <1>1, <1>2, <1>3, <1>4, <1>5, <1>6, <1>8, SpreadQuiet

LEMMA SpreadExit ==
  ASSUME SpreadInv, NEW d \in T3!HeldInputs, T3!Tick(d), T3!Exit(d)
  PROVE  SpreadInv'
<1> DEFINE h == T3!Held(d)
<1> DEFINE n == T3!ExitCooldownOf(h, d)
<1> DEFINE s == [h EXCEPT !.last_exit = d.z, !.active = None, !.quantity = 0,
                          !.cooldown = n, !.holding = 0]
<1>1. /\ d.date \in 1..Days /\ d.time \in {900, 1500, 1515} /\ d.valid /\ d.z \in Int
  BY SpreadHeldInput
<1>2. T3!Current(d).active # None /\ state' = s
  BY DEF T3!Exit, T3!Close
<1>3. h \in T3!Track3State /\ h.date = d.date /\ d.date = state.date
  BY <1>2, SpreadHeld
<1>4. n \in 0..StopCooldown
  <2>1. n \in {ExitCooldown, StopCooldown}
    BY DEF T3!ExitCooldownOf
  <2> HIDE DEF n
  <2> QED BY <2>1, SpreadAssumption
<1> DEFINE late == d.time >= 1515
<1>5. T3!Remember(d, 0, n, late) /\ late \in BOOLEAN
  BY DEF T3!Exit, T3!Close
<1> HIDE DEF h, n
<1>6. s \in T3!Track3State
  <2> DEFINE z == d.z
  <2>1. z \in Int /\ h \in T3!Track3State
    BY <1>1, <1>3
  <2> HIDE DEF z
  <2>2. [h EXCEPT !.last_exit = z, !.active = None, !.quantity = 0, !.cooldown = n,
                  !.holding = 0] \in T3!Track3State
    BY <2>1, <1>4, SpreadRecords
  <2> QED BY <2>2 DEF z
<1>7. s.active = None /\ s.quantity = 0 /\ s.cooldown = n /\ s.holding = 0 /\ s.date = h.date
  BY <1>3 DEF T3!Track3State
<1> HIDE DEF s
<1>8. /\ state' \in T3!Track3State /\ state'.date = d.date
      /\ state'.active = None /\ state'.quantity = 0 /\ state'.holding = 0
      /\ state'.holding < MaxHoldingTicks
      /\ n \in Nat /\ 0 \in Nat /\ 0 <= n /\ state'.cooldown = n - 0
  BY <1>2, <1>3, <1>4, <1>6, <1>7, SpreadAssumption
<1>9. late => d.time >= 1515
  OBVIOUS
<1> HIDE DEF late
<1> QED BY <1>1, <1>3, <1>5, <1>8, <1>9, SpreadRemember

LEMMA SpreadStayFlat ==
  ASSUME SpreadInv, NEW d \in T3!FlatInputs, T3!Tick(d), T3!StayFlat(d)
  PROVE  SpreadInv'
<1> DEFINE c == T3!Current(d)
<1>1. /\ d.date \in 1..Days /\ d.time \in {900, 1500, 1515} /\ d.valid /\ d.z \in Int
  BY SpreadFlatInput
<1>2. c.active = None /\ T3!Quiet(d, c)
  BY DEF T3!StayFlat
<1>3. c \in T3!Track3State /\ c.date = d.date /\ c.holding = 0 /\ c.holding < MaxHoldingTicks
  BY <1>1, <1>2, SpreadCurrent
<1> HIDE DEF c
<1> QED BY <1>1, <1>2, <1>3, SpreadQuiet DEF c

LEMMA SpreadInvalid ==
  ASSUME SpreadInv, NEW d \in T3!InvalidInputs, T3!Tick(d), T3!EvaluateInvalid(d)
  PROVE  SpreadInv'
<1> DEFINE c == T3!Current(d)
<1>1. /\ d.date \in 1..Days /\ d.time \in {900, 1500, 1515} /\ ~d.valid
  BY SpreadInvalidInput
<1>2. T3!Quiet(d, c)
  BY DEF T3!EvaluateInvalid
<1>3. /\ c \in T3!Track3State /\ c.date = d.date
      /\ c.active = None => c.holding = 0
      /\ c.holding < MaxHoldingTicks
      /\ c.active # None => c.active = state.active /\ c.holding = state.holding
  BY <1>1, SpreadCurrent
<1>4. state.active # None /\ state.holding > 0 =>
        IF state.active = "SHORT_SPREAD" THEN history.z < 35 ELSE history.z > -35
  BY DEF SpreadInv, T3!StopHonoured
<1> HIDE DEF c
<1>5. c.active # None /\ c.holding > 0 =>
        IF c.active = "SHORT_SPREAD" THEN (IF d.valid THEN d.z ELSE history.z) < 35
                                     ELSE (IF d.valid THEN d.z ELSE history.z) > -35
  BY <1>1, <1>3, <1>4
<1> QED BY <1>1, <1>2, <1>3, <1>5, SpreadQuiet DEF c

LEMMA SpreadNext ==
  SpreadInv /\ T3!Next => SpreadInv' /\ T3!CooldownKept
<1> SUFFICES ASSUME SpreadInv, T3!Next PROVE SpreadInv' /\ T3!CooldownKept
  OBVIOUS
<1>1. ASSUME NEW d \in T3!FlatInputs, T3!Tick(d), T3!Enter(d)
      PROVE  SpreadInv' /\ T3!CooldownKept
  BY <1>1, SpreadEnter
<1>2. ASSUME NEW d \in T3!FlatInputs, T3!Tick(d), T3!StayFlat(d)
      PROVE  SpreadInv' /\ T3!CooldownKept
  <2>1. signals' = {}
    BY <1>2 DEF T3!StayFlat, T3!Quiet
  <2> QED BY <1>2, <2>1, SpreadStayFlat DEF T3!CooldownKept
<1>3. ASSUME NEW d \in T3!HeldInputs, T3!Tick(d), T3!Exit(d)
      PROVE  SpreadInv' /\ T3!CooldownKept
  <2>1. signals' = {"CLOSE_STAT_ARB"}
    BY <1>3 DEF T3!Exit, T3!Close
  <2> QED BY <1>3, <2>1, SpreadExit DEF T3!CooldownKept
<1>4. ASSUME NEW d \in T3!HeldInputs, T3!Tick(d), T3!Keep(d)
      PROVE  SpreadInv' /\ T3!CooldownKept
  <2>1. signals' = {}
    BY <1>4 DEF T3!Keep, T3!Quiet
  <2> QED BY <1>4, <2>1, SpreadKeep DEF T3!CooldownKept
<1>5. ASSUME NEW d \in T3!InvalidInputs, T3!Tick(d), T3!EvaluateInvalid(d)
      PROVE  SpreadInv' /\ T3!CooldownKept
  <2>1. signals' = {}
    BY <1>5 DEF T3!EvaluateInvalid, T3!Quiet
  <2> QED BY <1>5, <2>1, SpreadInvalid DEF T3!CooldownKept
<1>6. CASE T3!Reset
  <2>1. state' = T3!Fresh /\ signals' = {} /\ history' = T3!NoHistory /\ clock' = clock
    BY <1>6 DEF T3!Reset
  <2>2. SpreadInv'
    BY <2>1, NoneAssumption, SpreadAssumption
    DEF SpreadInv, T3!Fresh, T3!NoHistory, T3!TypeOK, T3!StopHonoured, T3!Track3State
  <2> QED BY <2>1, <2>2 DEF T3!CooldownKept
<1> QED BY <1>1, <1>2, <1>3, <1>4, <1>5, <1>6 DEF T3!Next
-----------------------------------------------------------------------------
(* Track 5. *)

\* A trailing lock is armed by a profit of thirty, which the peak remembers.
GapInv ==
  /\ T5!TypeOK
  /\ T5!InsideBarriers
  /\ T5!ProfitLocked
  /\ state.trailing => history # None /\ state.peak >= T5!TrailThreshold

LEMMA GapFresh ==
  /\ T5!Fresh \in T5!Track5State
  /\ T5!Fresh.direction = None /\ T5!Fresh.ticks = 0 /\ T5!Fresh.peak = 0 /\ ~T5!Fresh.trailing
  BY NoneAssumption DEF T5!Fresh, T5!Track5State

LEMMA GapReset == ASSUME state' = T5!Fresh, history' = None PROVE GapInv'
<1>1. T5!TypeOK'
  BY GapFresh, GapAssumption DEF T5!TypeOK
<1>2. T5!InsideBarriers' /\ T5!ProfitLocked' /\ ~state'.trailing
  BY GapFresh DEF T5!InsideBarriers, T5!ProfitLocked
<1> QED BY <1>1, <1>2 DEF GapInv

LEMMA GapInit == T5!Init => GapInv
<1> SUFFICES ASSUME T5!Init PROVE GapInv
  OBVIOUS
<1>1. state = T5!Fresh /\ history = None
  BY DEF T5!Init
<1>2. T5!TypeOK
  BY <1>1, GapFresh, GapAssumption DEF T5!TypeOK
<1>3. T5!InsideBarriers /\ T5!ProfitLocked /\ ~state.trailing
  BY <1>1, GapFresh DEF T5!InsideBarriers, T5!ProfitLocked
<1> QED BY <1>2, <1>3 DEF GapInv

LEMMA GapEnter ==
  ASSUME NEW open \in GapOpenings, NEW regime, T5!EnterGap(open, regime)
  PROVE  GapInv'
<1> DEFINE direction == IF open > 0 THEN "SHORT" ELSE "LONG"
<1> DEFINE stop == T5!StopOf(direction, open)
<1> DEFINE s == [T5!Fresh EXCEPT !.direction = direction, !.entry = open, !.stop = stop]
<1>1. open \in Int
  BY GapAssumption
<1>2. state' = s /\ history' = None /\ T5!Inside(open, regime)
  BY DEF T5!EnterGap
<1>3. direction \in {"LONG", "SHORT"} /\ direction # None
  BY NoneAssumption
<1>4. open # 0
  <2>1. T5!EffectiveZ(regime) \in {180, 110, 150}
    BY DEF T5!EffectiveZ
  <2> QED BY <1>1, <1>2, <2>1 DEF T5!Inside, T5!Magnitude
<1>5. stop \in Int /\ IF direction = "SHORT" THEN 0 < open /\ open < stop
                                             ELSE stop < open /\ open < 0
  BY <1>1, <1>4 DEF T5!StopOf, T5!StopDistance
<1> HIDE DEF direction, stop
<1>6. s \in T5!Track5State
  BY <1>1, <1>3, <1>5, GapFresh DEF T5!Track5State
<1>7. s.direction = direction /\ s.entry = open /\ s.stop = stop
      /\ s.ticks = T5!Fresh.ticks /\ s.trailing = T5!Fresh.trailing
  BY GapFresh DEF T5!Track5State
<1>8. s.ticks = 0 /\ ~s.trailing
  BY <1>7, GapFresh
<1> HIDE DEF s
<1>9. T5!TypeOK'
  BY <1>2, <1>3, <1>6, <1>7, <1>8, GapAssumption DEF T5!TypeOK
<1>10. T5!InsideBarriers' /\ T5!ProfitLocked' /\ ~state'.trailing
  BY <1>2, <1>5, <1>7, <1>8 DEF T5!InsideBarriers, T5!ProfitLocked
<1> QED BY <1>9, <1>10 DEF GapInv

LEMMA GapKeep ==
  ASSUME GapInv, NEW price \in GapPrices, T5!Keep(price)
  PROVE  GapInv'
<1> DEFINE pnl == T5!Pnl(state, price)
<1> DEFINE peak == T5!Larger(state.peak, pnl)
<1> DEFINE trailing == state.trailing \/ pnl >= T5!TrailThreshold
<1> DEFINE j == T5!Judged(price)
<1> DEFINE stage == T5!Stage(j, price)
<1> DEFINE s == [j EXCEPT !.stage = stage]
<1>1. /\ state \in T5!Track5State /\ state.ticks < MaxGapTicks
      /\ state.trailing => state.peak >= 30
  BY DEF GapInv, T5!TypeOK, T5!TrailThreshold
<1>2. /\ price \in Int /\ price # None
  BY GapAssumption, NoneAssumption
<1>3. state.entry \in Int /\ state.peak \in Int /\ state.ticks \in Nat /\ state.stop \in Int
      /\ state.trailing \in BOOLEAN /\ state.stage \in 0..2
      /\ state.direction \in {None, "LONG", "SHORT"}
  BY <1>1 DEF T5!Track5State
<1>4. /\ state.direction # None /\ ~T5!Reached(state, price)
      /\ ~(state.ticks + 1 >= MaxGapTicks) /\ ~T5!GaveBack(j, price)
      /\ state' = s /\ history' = price
  BY DEF T5!Keep, T5!Closes
<1>5. pnl \in Int
  BY <1>2, <1>3 DEF T5!Pnl
<1>6. peak \in Int /\ peak >= state.peak /\ peak >= pnl
  <2> HIDE DEF pnl
  <2> QED BY <1>3, <1>5 DEF T5!Larger
<1>7. trailing \in BOOLEAN /\ (trailing => peak >= 30)
  BY <1>1, <1>3, <1>5, <1>6 DEF T5!TrailThreshold
<1>8. j = [direction |-> state.direction, entry |-> state.entry, stop |-> state.stop,
           ticks |-> state.ticks + 1, peak |-> peak, trailing |-> trailing,
           stage |-> state.stage]
  <2> DEFINE ticks == state.ticks + 1
  <2> DEFINE k == [state EXCEPT !.ticks = ticks, !.peak = peak]
  <2>1. j = [k EXCEPT !.trailing = trailing]
    BY DEF T5!Judged
  <2> HIDE DEF ticks, peak, trailing
  <2>2. k = [direction |-> state.direction, entry |-> state.entry, stop |-> state.stop,
             ticks |-> ticks, peak |-> peak, trailing |-> state.trailing,
             stage |-> state.stage]
    <3> DEFINE i == [state EXCEPT !.ticks = ticks]
    <3>1. i = [direction |-> state.direction, entry |-> state.entry, stop |-> state.stop,
               ticks |-> ticks, peak |-> state.peak, trailing |-> state.trailing,
               stage |-> state.stage]
      BY <1>1 DEF T5!Track5State
    <3>2. k = [i EXCEPT !.peak = peak]
      OBVIOUS
    <3> HIDE DEF i
    <3> QED BY <3>1, <3>2
  <2> HIDE DEF k, j
  <2> QED BY <2>1, <2>2 DEF ticks
<1>9. stage \in 0..2
  <2>1. j.stage \in 0..2
    BY <1>3, <1>8
  <2> HIDE DEF j
  <2> QED BY <2>1 DEF T5!Stage
<1> HIDE DEF peak, trailing, stage, pnl, j
<1>10. s = [direction |-> state.direction, entry |-> state.entry, stop |-> state.stop,
            ticks |-> state.ticks + 1, peak |-> peak, trailing |-> trailing,
            stage |-> stage]
  BY <1>8
<1> HIDE DEF s
<1>11. T5!TypeOK'
  <2>1. s \in T5!Track5State
    BY <1>3, <1>6, <1>7, <1>9, <1>10 DEF T5!Track5State
  <2>2. s.ticks < MaxGapTicks /\ s.direction # None
    BY <1>3, <1>4, <1>10, GapAssumption
  <2> QED BY <1>4, <2>1, <2>2 DEF T5!TypeOK
<1>12. T5!InsideBarriers'
  <2>1. IF state.direction = "SHORT" THEN 0 < price /\ price < state.stop
                                     ELSE state.stop < price /\ price < 0
    BY <1>2, <1>3, <1>4 DEF T5!Reached
  <2>2. s.direction = state.direction /\ s.stop = state.stop
    BY <1>10
  <2> QED BY <1>2, <1>4, <2>1, <2>2 DEF T5!InsideBarriers
<1>13. T5!Pnl(s, price) = pnl /\ T5!Pnl(j, price) = pnl
  BY <1>8, <1>10 DEF T5!Pnl, pnl
<1>14. s.trailing => s.peak - pnl < 10 /\ pnl > 0 /\ s.peak >= 30
  <2> SUFFICES ASSUME trailing PROVE peak - pnl < 10 /\ pnl > 0 /\ peak >= 30
    BY <1>10
  <2>1. ~(100 * (peak - pnl) >= 10 * T5!Scale(pnl))
    BY <1>4, <1>8, <1>13 DEF T5!GaveBack, T5!TrailReversal
  <2>2. T5!Scale(pnl) \in {67, 80, 100}
    BY DEF T5!Scale
  <2> QED BY <1>5, <1>6, <1>7, <2>1, <2>2
<1>15. T5!ProfitLocked'
  BY <1>4, <1>13, <1>14 DEF T5!ProfitLocked, T5!TrailReversal
<1> QED BY <1>2, <1>4, <1>11, <1>12, <1>14, <1>15 DEF GapInv, T5!TrailThreshold

LEMMA GapNext == GapInv /\ T5!Next => GapInv'
<1> SUFFICES ASSUME GapInv, T5!Next PROVE GapInv'
  OBVIOUS
<1>1. ASSUME NEW open \in GapOpenings, NEW regime, T5!EnterGap(open, regime)
      PROVE  GapInv'
  BY <1>1, GapEnter
<1>2. ASSUME NEW open, NEW regime, T5!IgnoreGap(open, regime)
      PROVE  GapInv'
  <2>1. UNCHANGED <<state, history>>
    BY <1>2 DEF T5!IgnoreGap
  <2> QED BY <2>1 DEF GapInv, T5!TypeOK, T5!InsideBarriers, T5!ProfitLocked
<1>3. ASSUME NEW price, T5!Close(price)
      PROVE  GapInv'
  BY <1>3, GapReset DEF T5!Close
<1>4. ASSUME NEW price \in GapPrices, T5!Keep(price)
      PROVE  GapInv'
  BY <1>4, GapKeep
<1>5. CASE T5!Reset
  BY <1>5, GapReset DEF T5!Reset
<1> QED BY <1>1, <1>2, <1>3, <1>4, <1>5 DEF T5!Next
-----------------------------------------------------------------------------
(* Track 6. *)

\* An armed stop has a mark to be judged by; an unarmed one has none.
InsuranceInv ==
  /\ T6!TypeOK
  /\ T6!WatermarkTracksPeak
  /\ T6!ArmedStopFires
  /\ IF state.armed THEN state.high > 0 /\ history.value # None
                    ELSE state.high = 0 /\ history.peak = 0

\* The trailing stop rises with the mark: what has not fallen to the stop of a
\* mark has not fallen to that of a lower one.
LEMMA FallenMonotone ==
  ASSUME NEW value \in Int, NEW low \in Nat, NEW high \in Nat, low <= high,
         T6!Fallen(value, low, T6!Premium)
  PROVE  T6!Fallen(value, high, T6!Premium)
<1> DEFINE p(h) == T6!TrailingPercent(h, T6!Premium)
<1>1. \A h \in Nat : /\ h >= 200 => p(h) = 90
                     /\ h < 200 /\ h >= 130 => p(h) = 88
                     /\ h < 130 => p(h) = 85
  <2> SUFFICES ASSUME NEW h \in Nat
               PROVE  /\ h >= 200 => p(h) = 90
                      /\ h < 200 /\ h >= 130 => p(h) = 88
                      /\ h < 130 => p(h) = 85
    OBVIOUS
  <2>1. T6!Larger(1, T6!Premium) = 100
    BY DEF T6!Larger, T6!Premium
  <2>2. p(h) = CASE h >= 200 -> 90 [] h < 200 /\ 10 * h >= 1300 -> 88 [] OTHER -> 85
    BY <2>1 DEF T6!TrailingPercent
  <2> HIDE DEF p
  <2> QED BY <2>2
<1>2. 100 * value <= low * p(low)
  BY DEF T6!Fallen
<1>3. p(low) \in {85, 88, 90} /\ p(high) \in {85, 88, 90} /\ p(low) <= p(high)
  BY <1>1
<1> HIDE DEF p
<1>4. low * p(low) <= high * p(high)
  <2>1. CASE p(low) = 85
    BY <1>3, <2>1
  <2>2. CASE p(low) = 88
    BY <1>3, <2>2
  <2>3. CASE p(low) = 90
    BY <1>3, <2>3
  <2> QED BY <1>3, <2>1, <2>2, <2>3
<1>5. 100 * value <= high * p(high)
  BY <1>2, <1>3, <1>4
<1> QED BY <1>5 DEF T6!Fallen, p

InsuranceClock(c) == c \in [date : 1..Days, time : {900, 1500, 1512, 1515, 1520}]

LEMMA InsuranceFresh ==
  ASSUME state' = T6!Fresh, history' = T6!NoHistory,
         InsuranceClock(clock'),
         signals' \in {{}, {"BUY_INSURANCE"}, {"CANCEL"}, {"CLOSE_LIMIT"}, {"CLOSE_FALLBACK"},
                       {"CLOSE"}, {"UPDATE_TRAILING"}}
  PROVE  InsuranceInv'
<1>1. T6!Fresh \in T6!Track6State /\ ~T6!Fresh.active /\ ~T6!Fresh.armed /\ T6!Fresh.high = 0
  BY DEF T6!Fresh, T6!Track6State
<1>2. T6!NoHistory \in [peak : Nat, value : Nat \cup {None}] /\ T6!NoHistory.peak = 0
  BY DEF T6!NoHistory
<1>3. T6!TypeOK'
  BY <1>1, <1>2 DEF T6!TypeOK, InsuranceClock
<1> QED BY <1>1, <1>2, <1>3 DEF InsuranceInv, T6!WatermarkTracksPeak, T6!ArmedStopFires

LEMMA InsuranceInit == T6!Init => InsuranceInv
<1> SUFFICES ASSUME T6!Init PROVE InsuranceInv
  OBVIOUS
<1>1. T6!Fresh \in T6!Track6State /\ ~T6!Fresh.active /\ ~T6!Fresh.armed /\ T6!Fresh.high = 0
  BY DEF T6!Fresh, T6!Track6State
<1>2. T6!NoHistory \in [peak : Nat, value : Nat \cup {None}] /\ T6!NoHistory.peak = 0
  BY DEF T6!NoHistory
<1>3. state = T6!Fresh /\ history = T6!NoHistory /\ signals = {}
  BY DEF T6!Init
<1>4. clock \in [date : 1..Days, time : {900, 1500, 1512, 1515, 1520}]
  BY DaysAssumption DEF T6!Init
<1>5. T6!TypeOK
  BY <1>1, <1>2, <1>3, <1>4 DEF T6!TypeOK, InsuranceClock
<1> QED BY <1>1, <1>2, <1>3, <1>5 DEF InsuranceInv, T6!WatermarkTracksPeak, T6!ArmedStopFires

LEMMA InsuranceRecords ==
  ASSUME NEW s \in T6!Track6State
  PROVE  /\ \A put, call \in Int :
              [s EXCEPT !.active = TRUE, !.put = put, !.call = call] \in T6!Track6State
         /\ \A mark \in Nat : [s EXCEPT !.armed = TRUE, !.high = mark] \in T6!Track6State
<1>1. ASSUME NEW put \in Int, NEW call \in Int
      PROVE  [s EXCEPT !.active = TRUE, !.put = put, !.call = call] \in T6!Track6State
  BY DEF T6!Track6State
<1>2. ASSUME NEW mark \in Nat
      PROVE  [s EXCEPT !.armed = TRUE, !.high = mark] \in T6!Track6State
  BY DEF T6!Track6State
<1> QED BY <1>1, <1>2

LEMMA InsurancePrice == \A d \in T6!Inputs : d.price \in Int
<1>1. \A d \in T6!Inputs : d.price \in InsurancePrices
  BY DEF T6!Inputs
<1> QED BY <1>1, InsuranceAssumption

LEMMA InsuranceValue ==
  ASSUME InsuranceInv, NEW d \in T6!Inputs
  PROVE  T6!Value(d) \in Nat
<1>1. d.price \in Int
  BY InsurancePrice
<1>2. state.put \in Int /\ state.call \in Int
  BY DEF InsuranceInv, T6!TypeOK, T6!Track6State
<1> QED BY <1>1, <1>2 DEF T6!Value, T6!Intrinsic, T6!Larger

LEMMA InsuranceBuy ==
  ASSUME InsuranceInv, NEW d \in T6!Inputs, T6!Buy(d),
         InsuranceClock(clock')
  PROVE  InsuranceInv'
<1> DEFINE put == T6!Nearest(d.price, 250) - T6!Offset
<1> DEFINE call == T6!Nearest(d.price, 250) + T6!Offset
<1> DEFINE s == [T6!Fresh EXCEPT !.active = TRUE, !.put = put, !.call = call]
<1>1. d.price \in Int
  BY InsurancePrice
<1>2. put \in Int /\ call \in Int
  BY <1>1 DEF T6!Nearest, T6!Offset
<1>3. state' = s /\ signals' = {"BUY_INSURANCE"} /\ history' = T6!NoHistory
  BY DEF T6!Buy
<1> HIDE DEF put, call
<1>4. T6!Fresh \in T6!Track6State /\ ~T6!Fresh.armed /\ T6!Fresh.high = 0
  BY DEF T6!Fresh, T6!Track6State
<1>5. /\ s \in T6!Track6State
      /\ s.active
      /\ s.armed = T6!Fresh.armed /\ s.high = T6!Fresh.high
  <2>0. put \in Int /\ call \in Int /\ T6!Fresh \in T6!Track6State
    BY <1>2, <1>4
  <2>1. s \in T6!Track6State
    BY <2>0, InsuranceRecords
  <2>2. s.active
    BY <1>4 DEF T6!Track6State
  <2>3. s.armed = T6!Fresh.armed /\ s.high = T6!Fresh.high
    BY <1>4 DEF T6!Track6State
  <2> QED BY <2>1, <2>2, <2>3
<1> HIDE DEF s
<1>6. T6!NoHistory \in [peak : Nat, value : Nat \cup {None}] /\ T6!NoHistory.peak = 0
  BY DEF T6!NoHistory
<1>7. T6!TypeOK'
  BY <1>3, <1>4, <1>5, <1>6 DEF T6!TypeOK, InsuranceClock
<1> QED BY <1>3, <1>4, <1>5, <1>6, <1>7
        DEF InsuranceInv, T6!WatermarkTracksPeak, T6!ArmedStopFires

\* A tick that leaves the record alone.
LEMMA InsuranceQuiet ==
  ASSUME InsuranceInv, UNCHANGED <<state, history>>,
         InsuranceClock(clock'),
         signals' \in {{}, {"CANCEL"}, {"CLOSE_LIMIT"}}
  PROVE  InsuranceInv'
BY DEF InsuranceInv, T6!TypeOK, InsuranceClock, T6!WatermarkTracksPeak, T6!ArmedStopFires

LEMMA InsuranceNotArmed ==
  ASSUME InsuranceInv, NEW d \in T6!Inputs, T6!NotArmed(d),
         InsuranceClock(clock')
  PROVE  InsuranceInv'
<1>1. state' = state /\ signals' = {} /\ history' = [history EXCEPT !.value = T6!Value(d)]
      /\ ~state.armed
  BY DEF T6!NotArmed, T6!Armed
<1>2. T6!Value(d) \in Nat
  BY InsuranceValue
<1>3. history \in [peak : Nat, value : Nat \cup {None}]
  BY DEF InsuranceInv, T6!TypeOK
<1>4. history' \in [peak : Nat, value : Nat \cup {None}] /\ history'.peak = history.peak
  BY <1>1, <1>2, <1>3
<1> QED BY <1>1, <1>4 DEF InsuranceInv, T6!TypeOK, InsuranceClock, T6!WatermarkTracksPeak, T6!ArmedStopFires

LEMMA InsuranceTrail ==
  ASSUME InsuranceInv, NEW d \in T6!Inputs, T6!Trail(d),
         InsuranceClock(clock')
  PROVE  InsuranceInv'
<1> DEFINE value == T6!Value(d)
<1> DEFINE high == T6!High(d)
<1> DEFINE mark == IF T6!Moves(d) THEN high ELSE state.high
<1> DEFINE peak == T6!Larger(history.peak, value)
<1> DEFINE s == [state EXCEPT !.armed = TRUE, !.high = mark]
<1>1. value \in Nat
  BY InsuranceValue
<1>2. /\ state \in T6!Track6State /\ state.high \in Nat
      /\ history \in [peak : Nat, value : Nat \cup {None}] /\ history.peak \in Nat
      /\ IF state.armed THEN state.high > 0 /\ state.high <= history.peak
                             /\ 100 * history.peak < 101 * state.high
                        ELSE state.high = 0 /\ history.peak = 0
  BY DEF InsuranceInv, T6!TypeOK, T6!Track6State, T6!WatermarkTracksPeak
<1>3. /\ state.active /\ T6!Armed(d)
      /\ ~(high > 0 /\ T6!Fallen(value, high, T6!Premium))
      /\ state' = s
      /\ signals' \in {{}, {"UPDATE_TRAILING"}}
      /\ history' = [peak |-> peak, value |-> value]
  BY DEF T6!Trail
<1>4. state.armed \/ value >= 150
  BY <1>1, <1>3 DEF T6!Armed, T6!Premium
<1>5. high = T6!Larger(state.high, value)
      /\ (T6!Moves(d) <=> state.high = 0 \/ 100 * high >= 101 * state.high)
  BY DEF T6!High, T6!Moves
<1> HIDE DEF value, high
<1>6. high \in Nat /\ high >= value /\ high >= state.high /\ (high = value \/ high = state.high)
      /\ high > 0
  BY <1>1, <1>2, <1>4, <1>5 DEF T6!Larger
<1>7. mark \in Nat /\ mark > 0 /\ mark <= high /\ (mark = high \/ mark = state.high)
  BY <1>2, <1>5, <1>6
<1>8. peak \in Nat /\ peak >= value /\ peak >= history.peak
      /\ (peak = value \/ peak = history.peak)
  BY <1>1, <1>2 DEF T6!Larger
<1>9. mark <= peak /\ 100 * peak < 101 * mark
  BY <1>1, <1>2, <1>5, <1>6, <1>8
<1>10. ~T6!Fallen(value, mark, T6!Premium)
  BY <1>1, <1>3, <1>6, <1>7, FallenMonotone
<1> HIDE DEF mark, peak
<1>11. s \in T6!Track6State /\ s.armed /\ s.high = mark /\ s.active = state.active
  <2>0. mark \in Nat /\ state \in T6!Track6State
    BY <1>2, <1>7
  <2>1. s \in T6!Track6State
    BY <2>0, InsuranceRecords
  <2>2. s.armed
    BY <1>2 DEF T6!Track6State
  <2>3. s.high = mark /\ s.active = state.active
    BY <1>2 DEF T6!Track6State
  <2> QED BY <2>1, <2>2, <2>3
<1> HIDE DEF s
<1>12. /\ history' \in [peak : Nat, value : Nat \cup {None}]
       /\ history'.peak = peak /\ history'.value = value
  BY <1>1, <1>3, <1>8
<1>13. T6!TypeOK'
  BY <1>3, <1>11, <1>12 DEF T6!TypeOK, InsuranceClock
<1>14. value # None
  BY <1>1, NoneAssumption
<1> QED BY <1>3, <1>7, <1>9, <1>10, <1>11, <1>12, <1>13, <1>14
        DEF InsuranceInv, T6!WatermarkTracksPeak, T6!ArmedStopFires

LEMMA InsuranceNext == InsuranceInv /\ T6!Next => InsuranceInv'
<1> SUFFICES ASSUME InsuranceInv, T6!Next PROVE InsuranceInv'
  OBVIOUS
<1>1. ASSUME NEW d \in T6!Inputs, T6!Evaluate(d) PROVE InsuranceInv'
  <2>1. InsuranceClock(clock')
    <3>1. clock' = [date |-> d.date, time |-> d.time]
      BY <1>1 DEF T6!Evaluate, T6!At
    <3> QED BY <3>1 DEF T6!Inputs, InsuranceClock
  <2>2. CASE T6!Buy(d)
    BY <2>1, <2>2, InsuranceBuy
  <2>3. CASE T6!Wait(d)
    BY <2>1, <2>3, InsuranceQuiet DEF T6!Wait, T6!Quiet
  <2>4. CASE T6!CutoffLimit(d)
    BY <2>1, <2>4, InsuranceQuiet DEF T6!CutoffLimit, T6!Quiet
  <2>5. CASE T6!CutoffFallback(d)
    BY <2>1, <2>5, InsuranceFresh DEF T6!CutoffFallback, T6!Finish
  <2>6. CASE T6!NotArmed(d)
    BY <2>1, <2>6, InsuranceNotArmed
  <2>7. CASE T6!Stop(d)
    BY <2>1, <2>7, InsuranceFresh DEF T6!Stop, T6!Finish
  <2>8. CASE T6!Trail(d)
    BY <2>1, <2>8, InsuranceTrail
  <2> QED BY <1>1, <2>2, <2>3, <2>4, <2>5, <2>6, <2>7, <2>8 DEF T6!Evaluate
<1>2. CASE T6!Reset
  <2>1. InsuranceClock(clock')
    BY <1>2 DEF T6!Reset, InsuranceInv, T6!TypeOK, InsuranceClock
  <2> QED BY <1>2, <2>1, InsuranceFresh DEF T6!Reset, T6!Finish
<1> QED BY <1>1, <1>2 DEF T6!Next
-----------------------------------------------------------------------------
(* Track 7. *)

\* An entry waiting for its limit order has not been sent to the market yet.
SkewInv ==
  /\ T7!TypeOK
  /\ T7!InsuranceSignalled
  /\ T7!SkewSentOnce
  /\ state.pending => history.fallbacks = 0

SkewClock(c) == c \in [date : 1..Days, time : {900, 1500, 1515, 1520}]

LEMMA SkewFresh ==
  /\ T7!Fresh \in T7!Track7State
  /\ ~T7!Fresh.insurance /\ T7!Fresh.bought = None /\ ~T7!Fresh.skew /\ ~T7!Fresh.pending
<1>1. T7!Fresh \in T7!Track7State
  BY DEF T7!Fresh, T7!Track7State
<1>2. ~T7!Fresh.insurance /\ T7!Fresh.bought = None /\ ~T7!Fresh.skew /\ ~T7!Fresh.pending
  BY DEF T7!Fresh
<1> QED BY <1>1, <1>2

LEMMA SkewNoHistory ==
  /\ T7!NoHistory \in [insurance : Int, skew : Nat, fallbacks : Nat]
  /\ T7!NoHistory.insurance = 0 /\ T7!NoHistory.skew = 0 /\ T7!NoHistory.fallbacks = 0
  BY DEF T7!NoHistory

LEMMA SkewInit == T7!Init => SkewInv
<1> SUFFICES ASSUME T7!Init PROVE SkewInv
  OBVIOUS
<1>1. state = T7!Fresh /\ history = T7!NoHistory
  BY DEF T7!Init
<1>2. SkewClock(clock)
  BY DaysAssumption DEF T7!Init, SkewClock
<1>3. T7!TypeOK
  BY <1>1, <1>2, SkewFresh, SkewNoHistory DEF T7!TypeOK, SkewClock
<1> QED BY <1>1, <1>3, SkewFresh, SkewNoHistory
        DEF SkewInv, T7!InsuranceSignalled, T7!SkewSentOnce

LEMMA SkewReset ==
  ASSUME state' = T7!Fresh, SkewClock(clock'), history' \in [insurance : Int, skew : Nat, fallbacks : Nat],
         history'.insurance = 0, history'.fallbacks <= 1
  PROVE  SkewInv'
<1>1. T7!TypeOK'
  BY SkewFresh DEF T7!TypeOK, SkewClock
<1> QED BY <1>1, SkewFresh DEF SkewInv, T7!InsuranceSignalled, T7!SkewSentOnce

LEMMA SkewClose ==
  ASSUME SkewInv, NEW d, T7!CloseInsurance(d), SkewClock(clock')
  PROVE  SkewInv'
<1>1. /\ history \in [insurance : Int, skew : Nat, fallbacks : Nat]
      /\ state.insurance => history.insurance = 1
      /\ history.fallbacks <= 1
  BY DEF SkewInv, T7!TypeOK, T7!InsuranceSignalled, T7!SkewSentOnce
<1>2. state.insurance /\ state' = T7!Fresh
      /\ history' = [history EXCEPT !.insurance = history.insurance - 1]
  BY DEF T7!CloseInsurance
<1>3. /\ history' \in [insurance : Int, skew : Nat, fallbacks : Nat]
      /\ history'.insurance = 0 /\ history'.fallbacks = history.fallbacks
  BY <1>1, <1>2
<1> QED BY <1>1, <1>2, <1>3, SkewReset

LEMMA SkewTrade ==
  ASSUME SkewInv, NEW d \in T7!Inputs, T7!Trade(d), SkewClock(clock')
  PROVE  SkewInv'
<1> DEFINE Buys == T7!Buys(d)
<1> DEFINE Enters == T7!Enters(d)
<1> DEFINE Leaves == T7!Leaves(d)
<1> DEFINE FallsBack == T7!FallsBack(d)
<1> DEFINE insurance == state.insurance \/ Buys
<1> DEFINE bought == IF Buys THEN d.date ELSE state.bought
<1> DEFINE skew == (state.skew \/ Enters) /\ ~Leaves
<1> DEFINE pending == (state.pending \/ Enters) /\ ~FallsBack /\ ~Leaves
<1> DEFINE held == history.insurance + (IF Buys THEN 1 ELSE 0)
<1> DEFINE skews == history.skew + (IF Enters THEN 1 ELSE 0) - (IF Leaves THEN 1 ELSE 0)
<1> DEFINE fallbacks == IF Enters THEN 0 ELSE history.fallbacks + (IF FallsBack THEN 1 ELSE 0)
<1>1. /\ state' = [insurance |-> insurance, bought |-> bought, skew |-> skew, pending |-> pending]
      /\ history' = [insurance |-> held, skew |-> skews, fallbacks |-> fallbacks]
  BY DEF T7!Trade
<1>2. /\ state \in T7!Track7State
      /\ (state.insurance <=> state.bought # None)
      /\ (state.pending => state.skew)
      /\ history \in [insurance : Int, skew : Nat, fallbacks : Nat]
      /\ history.insurance = (IF state.insurance THEN 1 ELSE 0)
      /\ (state.skew => history.skew > 0)
      /\ history.fallbacks <= 1
      /\ (state.pending => history.fallbacks = 0)
  BY DEF SkewInv, T7!TypeOK, T7!InsuranceSignalled, T7!SkewSentOnce
<1>3. /\ Buys => ~state.insurance
      /\ Enters => ~state.skew
      /\ Leaves => state.skew /\ ~FallsBack
      /\ FallsBack => state.skew /\ state.pending
  BY DEF T7!Buys, T7!Enters, T7!Leaves, T7!FallsBack
<1>4. d.date \in 1..Days
  BY DEF T7!Inputs
<1>5. d.date # None
  BY <1>4, DaysAssumption, NoneAssumption
<1>6. Buys \in BOOLEAN /\ Enters \in BOOLEAN /\ Leaves \in BOOLEAN /\ FallsBack \in BOOLEAN
  BY DEF T7!Buys, T7!Enters, T7!Leaves, T7!FallsBack
<1>7. history.insurance \in Int /\ history.skew \in Nat /\ history.fallbacks \in Nat
  BY <1>2
<1>8. state.insurance \in BOOLEAN /\ state.skew \in BOOLEAN /\ state.pending \in BOOLEAN
      /\ state.bought \in 1..Days \cup {None}
  BY <1>2 DEF T7!Track7State
<1> HIDE DEF Buys, Enters, Leaves, FallsBack
<1>9. /\ insurance \in BOOLEAN /\ skew \in BOOLEAN /\ pending \in BOOLEAN
      /\ bought \in 1..Days \cup {None}
  BY <1>4, <1>8
<1>10. /\ insurance <=> bought # None
       /\ pending => skew
       /\ held = (IF insurance THEN 1 ELSE 0)
       /\ skew => skews > 0
       /\ fallbacks <= 1
       /\ pending => fallbacks = 0
  BY <1>2, <1>3, <1>5, <1>7, <1>8
<1>11. held \in Int /\ skews \in Nat /\ fallbacks \in Nat
  BY <1>2, <1>3, <1>7
<1> HIDE DEF insurance, bought, skew, pending, held, skews, fallbacks
<1>12. /\ history' \in [insurance : Int, skew : Nat, fallbacks : Nat]
       /\ history'.insurance = held /\ history'.skew = skews /\ history'.fallbacks = fallbacks
  BY <1>1, <1>11
<1>13. state' \in T7!Track7State
  BY <1>1, <1>9 DEF T7!Track7State
<1>14. /\ state'.insurance = insurance /\ state'.bought = bought
       /\ state'.skew = skew /\ state'.pending = pending
  BY <1>1
<1>15. T7!TypeOK'
  BY <1>10, <1>12, <1>13, <1>14 DEF T7!TypeOK, SkewClock
<1> QED BY <1>10, <1>12, <1>14, <1>15 DEF SkewInv, T7!InsuranceSignalled, T7!SkewSentOnce

LEMMA SkewNext == SkewInv /\ T7!Next => SkewInv'
<1> SUFFICES ASSUME SkewInv, T7!Next PROVE SkewInv'
  OBVIOUS
<1>1. ASSUME NEW d \in T7!Inputs, T7!Evaluate(d) PROVE SkewInv'
  <2>1. SkewClock(clock')
    <3>1. clock' = [date |-> d.date, time |-> d.time]
      BY <1>1 DEF T7!Evaluate, T7!At
    <3> QED BY <3>1 DEF T7!Inputs, SkewClock
  <2>2. CASE T7!CloseInsurance(d)
    BY <2>1, <2>2, SkewClose
  <2>3. CASE T7!LimitInsurance(d)
    <3>1. UNCHANGED <<state, history>>
      BY <2>3 DEF T7!LimitInsurance
    <3> QED BY <2>1, <3>1
            DEF SkewInv, T7!TypeOK, T7!InsuranceSignalled, T7!SkewSentOnce, SkewClock
  <2>4. CASE T7!Trade(d)
    BY <2>1, <2>4, SkewTrade
  <2> QED BY <1>1, <2>2, <2>3, <2>4 DEF T7!Evaluate
<1>2. CASE T7!Reset
  <2>1. SkewClock(clock')
    BY <1>2 DEF T7!Reset, SkewInv, T7!TypeOK, SkewClock
  <2>2. state' = T7!Fresh /\ history' = T7!NoHistory
    BY <1>2 DEF T7!Reset
  <2> QED BY <2>1, <2>2, SkewNoHistory, SkewReset
<1> QED BY <1>1, <1>2 DEF T7!Next
-----------------------------------------------------------------------------
(* Track 8. *)

StrangleRecord(s) ==
  /\ s \in T8!Track8State
  /\ s.active <=> s.date # 0
  /\ s.active <=> s.quantity_call > 0
  /\ s.active \/ s = T8!Fresh

StrangleClock(c) == c \in [date : DOMAIN DaysToExpiry, time : {900, 1515}]

\* The record is of the clock's date or of none.
StrangleInv ==
  /\ T8!TypeOK
  /\ T8!StopOfPresentStrikes
  /\ state.date \in {0, clock.date}

\* A mark is a profit of 1.8 times what was spent.
ProfitableMark(s) == s.high > 0 => 10 * s.high >= 18 * s.spent

\* Another mark or counter on the same position.
SamePosition(s, t) ==
  /\ t.active <=> s.active
  /\ t.date = s.date /\ t.spent = s.spent /\ t.call = s.call /\ t.put = s.put
  /\ t.quantity_call = s.quantity_call /\ t.quantity_put = s.quantity_put

LEMMA StrangleFresh ==
  StrangleRecord(T8!Fresh) /\ ~T8!Fresh.active /\ T8!Fresh.date = 0 /\ T8!Fresh.high = 0
  /\ T8!Fresh.spent = 0
<1>1. T8!Fresh \in T8!Track8State
  BY DEF T8!Fresh, T8!Track8State
<1>2. ~T8!Fresh.active
  BY DEF T8!Fresh
<1>3. T8!Fresh.date = 0 /\ T8!Fresh.quantity_call = 0 /\ T8!Fresh.high = 0 /\ T8!Fresh.spent = 0
  BY DEF T8!Fresh
<1> QED BY <1>1, <1>2, <1>3 DEF StrangleRecord

LEMMA StrangleInputs ==
  ASSUME NEW d \in T8!Inputs
  PROVE  d.date \in DOMAIN DaysToExpiry /\ d.date \in Nat \ {0} /\ d.time \in {900, 1515}
         /\ d.price \in Int /\ d.budget \in Int
<1>1. d.date \in DOMAIN DaysToExpiry /\ d.time \in {900, 1515}
      /\ d.price \in StranglePrices /\ d.budget \in Budgets
  BY DEF T8!Inputs
<1> QED BY <1>1, StrangleAssumption

\* What a strangle is worth is never negative, and depends on its position only.
LEMMA StrangleValue ==
  ASSUME NEW s \in T8!Track8State, NEW d \in T8!Inputs
  PROVE  T8!Value(s, d) \in Nat
<1> DEFINE intrinsic == T8!Intrinsic(s.put, s.call, d.price)
<1> DEFINE quantity == T8!Larger(s.quantity_call, s.quantity_put)
<1>1. s.put \in Int /\ s.call \in Int /\ s.quantity_call \in Nat /\ s.quantity_put \in Nat
  BY DEF T8!Track8State
<1>2. d.price \in Int
  BY StrangleInputs
<1>3. intrinsic \in Nat
  BY <1>1, <1>2 DEF T8!Intrinsic, T8!Larger
<1>4. quantity \in Nat
  BY <1>1 DEF T8!Larger
<1> HIDE DEF intrinsic, quantity
<1>5. 5 * intrinsic * quantity \in Nat
  BY <1>3, <1>4
<1> QED BY <1>5 DEF T8!Value, intrinsic, quantity

LEMMA StrangleSameValue ==
  ASSUME NEW s, NEW t, SamePosition(s, t), NEW d
  PROVE  T8!Value(t, d) = T8!Value(s, d)
  BY DEF SamePosition, T8!Value

\* Changing the mark or the counter keeps the position.
LEMMA StrangleMarked ==
  ASSUME NEW s, StrangleRecord(s), s.active, NEW n \in Nat
  PROVE  LET high == [s EXCEPT !.high = n]
             counter == [s EXCEPT !.counter = n] IN
         /\ StrangleRecord(high) /\ SamePosition(s, high) /\ high.high = n
         /\ StrangleRecord(counter) /\ SamePosition(s, counter) /\ counter.high = s.high
<1> DEFINE high == [s EXCEPT !.high = n]
<1> DEFINE counter == [s EXCEPT !.counter = n]
<1>0. s \in T8!Track8State
  BY DEF StrangleRecord
<1>1. high \in T8!Track8State /\ SamePosition(s, high) /\ high.high = n
  BY <1>0 DEF T8!Track8State, SamePosition
<1>2. counter \in T8!Track8State /\ SamePosition(s, counter) /\ counter.high = s.high
  BY <1>0 DEF T8!Track8State, SamePosition
<1> HIDE DEF high, counter
<1>3. StrangleRecord(high) /\ StrangleRecord(counter)
  BY <1>1, <1>2 DEF StrangleRecord, SamePosition
<1> QED BY <1>1, <1>2, <1>3 DEF high, counter

\* The strikes around the money.
LEMMA StrangleStruck ==
  ASSUME NEW s \in T8!Track8State, NEW d \in T8!Inputs
  PROVE  LET t == T8!Struck(s, d) IN
         /\ t \in T8!Track8State
         /\ t.active <=> s.active
         /\ t.date = s.date /\ t.spent = s.spent /\ t.high = s.high
         /\ t.quantity_call = s.quantity_call
<1> DEFINE near == T8!Nearest(d.price, 5)
<1> DEFINE call == near + T8!Offset
<1> DEFINE put == near - T8!Offset
<1> DEFINE t == [s EXCEPT !.call = call, !.put = put]
<1>1. d.price \in Int
  BY StrangleInputs
<1>2. call \in Int /\ put \in Int
  BY <1>1 DEF T8!Nearest, T8!Offset
<1>3. T8!Struck(s, d) = t
  BY DEF T8!Struck
<1> HIDE DEF call, put
<1>4. t \in T8!Track8State
  BY <1>2 DEF T8!Track8State
<1>5. t.active <=> s.active
  BY DEF T8!Track8State
<1>6. t.date = s.date /\ t.spent = s.spent /\ t.high = s.high
      /\ t.quantity_call = s.quantity_call
  BY DEF T8!Track8State
<1> QED BY <1>3, <1>4, <1>5, <1>6

LEMMA StrangleQuantities ==
  ASSUME NEW d \in T8!Inputs
  PROVE  T8!Calls(d) \in Nat \ {0} /\ T8!Puts(d) \in Nat /\ T8!Cost(d) \in Nat
<1>1. d.budget \in Int
  BY StrangleInputs
<1>2. T8!Calls(d) \in Nat \ {0}
  <2>1. (2 * d.budget) \div 84 \in Int /\ (2 * d.budget) \div 69 \in Int
    BY <1>1
  <2> QED BY <2>1 DEF T8!Calls, T8!Larger
<1>3. T8!Puts(d) \in Nat
  BY <1>2 DEF T8!Puts
<1> QED BY <1>2, <1>3 DEF T8!Cost


\* A position of the date was held before or is bought; one is given up.
TakenIn(s0, d, out) == "BUY_LIMIT_TRANCHE" \in out \/ (s0.active /\ s0.date = d.date)
GivenUp(out) == "TAKE_PROFIT" \in out \/ "FLAT_STRANGLE" \in out

\* What holds of the state and the signals so far after each part of a tick
\* that began in s0: what was held on the date or bought is there unless it was
\* closed, and nothing else is; a mark is that of the present strikes.
StrangleChain(s0, d, s, out) ==
  /\ StrangleRecord(s)
  /\ s.date \in {0, d.date}
  /\ s.active <=> TakenIn(s0, d, out) /\ ~GivenUp(out)
  /\ GivenUp(out) => TakenIn(s0, d, out)
  /\ "BUY_LIMIT_TRANCHE" \in out => ~(s0.active /\ s0.date = d.date)
  /\ ProfitableMark(s)
  /\ "DYNAMIC_REBUILD_FENCE" \in out => s.high = 0
  /\ s.active /\ "DYNAMIC_REBUILD_FENCE" \notin out
       => s.high <= T8!Value(s, d) \/ (T8!SameStrikes(s0, s) /\ s.high <= s0.high)

\* A signal that neither buys, closes nor rebuilds changes nothing.
LEMMA StrangleQuiet ==
  ASSUME NEW s0, NEW d, NEW s, NEW out, StrangleChain(s0, d, s, out),
         NEW t, StrangleRecord(t), SamePosition(s, t), t.high = s.high,
         NEW x, x \notin {"BUY_LIMIT_TRANCHE", "TAKE_PROFIT", "FLAT_STRANGLE",
                          "DYNAMIC_REBUILD_FENCE"}
  PROVE  StrangleChain(s0, d, t, out \cup {x})
<1>1. T8!Value(t, d) = T8!Value(s, d)
  BY StrangleSameValue
<1>2. T8!SameStrikes(s0, t) <=> T8!SameStrikes(s0, s)
  BY DEF T8!SameStrikes, SamePosition
<1>3. ProfitableMark(t) <=> ProfitableMark(s)
  BY DEF ProfitableMark, SamePosition
<1>4. /\ TakenIn(s0, d, out \cup {x}) <=> TakenIn(s0, d, out)
      /\ GivenUp(out \cup {x}) <=> GivenUp(out)
  BY DEF TakenIn, GivenUp
<1> QED BY <1>1, <1>2, <1>3, <1>4 DEF StrangleChain, SamePosition

LEMMA StrangleClosing ==
  ASSUME NEW s0, NEW d, NEW s, NEW out, StrangleChain(s0, d, s, out), s.active,
         NEW x \in {"TAKE_PROFIT", "FLAT_STRANGLE"}
  PROVE  StrangleChain(s0, d, T8!Fresh, out \cup {x})
<1>1. "BUY_LIMIT_TRANCHE" \in out \cup {x} => ~(s0.active /\ s0.date = d.date)
  BY DEF StrangleChain
<1>2. ProfitableMark(T8!Fresh)
  BY StrangleFresh DEF ProfitableMark
<1>3. TakenIn(s0, d, out \cup {x}) /\ GivenUp(out \cup {x})
  BY DEF StrangleChain, TakenIn, GivenUp
<1> QED BY <1>1, <1>2, <1>3, StrangleFresh DEF StrangleChain

LEMMA StrangleHigher ==
  ASSUME NEW s0, NEW d \in T8!Inputs, NEW s, NEW out, StrangleChain(s0, d, s, out),
         s.active, T8!Enough(s, d), "DYNAMIC_REBUILD_FENCE" \notin out, s0.high \in Nat
  PROVE  StrangleChain(s0, d, [s EXCEPT !.high = T8!Larger(s.high, T8!Value(s, d))], out)
<1> DEFINE value == T8!Value(s, d)
<1> DEFINE high == T8!Larger(s.high, value)
<1> DEFINE t == [s EXCEPT !.high = high]
<1>0. StrangleRecord(s) /\ s \in T8!Track8State
  BY DEF StrangleChain, StrangleRecord
<1>1. value \in Nat
  BY <1>0, StrangleValue
<1>2. s.high \in Nat /\ s.spent \in Nat
  BY <1>0 DEF T8!Track8State
<1>3. 10 * value >= 18 * s.spent
  <2>1. 10 * value >= s.spent * (IF d.vol < 13 THEN 18 ELSE 25)
    BY DEF T8!Enough
  <2> HIDE DEF value
  <2> QED BY <1>1, <1>2, <2>1
<1> HIDE DEF value
<1>4. high \in Nat /\ high >= value /\ (high = value \/ high = s.high)
  BY <1>1, <1>2 DEF T8!Larger
<1> HIDE DEF high
<1>5. StrangleRecord(t) /\ SamePosition(s, t) /\ t.high = high
  BY <1>0, <1>4, StrangleMarked
<1>6. T8!Value(t, d) = value
  BY <1>5, StrangleSameValue DEF value
<1> HIDE DEF t
<1>7. T8!SameStrikes(s0, t) <=> T8!SameStrikes(s0, s)
  BY <1>5 DEF T8!SameStrikes, SamePosition
<1>8. ProfitableMark(t)
  BY <1>1, <1>2, <1>3, <1>4, <1>5 DEF ProfitableMark, SamePosition
<1>9. t.high <= value \/ (T8!SameStrikes(s0, t) /\ t.high <= s0.high)
  <2>1. s.high <= value \/ (T8!SameStrikes(s0, s) /\ s.high <= s0.high)
    BY DEF StrangleChain, value
  <2> QED BY <1>1, <1>2, <1>4, <1>5, <1>7, <2>1
<1>10. StrangleChain(s0, d, t, out)
  BY <1>5, <1>6, <1>8, <1>9 DEF StrangleChain, SamePosition
<1> QED BY <1>10 DEF t, high, value

LEMMA StrangleRebuilt ==
  ASSUME NEW s0, NEW d \in T8!Inputs, NEW s, NEW out, StrangleChain(s0, d, s, out), s.active
  PROVE  StrangleChain(s0, d, T8!Struck([s EXCEPT !.high = 0], d),
                       (out \cup {"DYNAMIC_PROFIT_TAKE"}) \cup {"DYNAMIC_REBUILD_FENCE"})
<1> DEFINE u == [s EXCEPT !.high = 0]
<1> DEFINE t == T8!Struck(u, d)
<1>0. StrangleRecord(s)
  BY DEF StrangleChain
<1>1. StrangleRecord(u) /\ SamePosition(s, u) /\ u.high = 0
  BY <1>0, StrangleMarked
<1> HIDE DEF u
<1>2. /\ t \in T8!Track8State
      /\ t.active <=> u.active
      /\ t.date = u.date /\ t.spent = u.spent /\ t.high = u.high
      /\ t.quantity_call = u.quantity_call
  BY <1>1, StrangleStruck DEF StrangleRecord
<1> HIDE DEF t
<1>3. StrangleRecord(t) /\ t.active /\ t.high = 0 /\ t.date = s.date
  BY <1>1, <1>2 DEF StrangleRecord, SamePosition
<1>4. ProfitableMark(t)
  BY <1>3 DEF ProfitableMark
<1>5. StrangleChain(s0, d, t, (out \cup {"DYNAMIC_PROFIT_TAKE"}) \cup {"DYNAMIC_REBUILD_FENCE"})
  BY <1>3, <1>4 DEF StrangleChain, TakenIn, GivenUp
<1> QED BY <1>5 DEF t, u

\* The same of a part's result, before and after the rebuilding.
StrangleBefore(s0, d, r) ==
  StrangleChain(s0, d, r.s, r.out) /\ "DYNAMIC_REBUILD_FENCE" \notin r.out
StrangleAfter(s0, d, r) == StrangleChain(s0, d, r.s, r.out)

LEMMA StrangleEntry ==
  ASSUME NEW s0, StrangleInv, s0 = state, NEW d \in T8!Inputs
  PROVE  StrangleBefore(s0, d, T8!Entry([s |-> s0, out |-> {}], d))
<1> DEFINE first == [s |-> s0, out |-> {}]
<1> DEFINE s == IF s0.date \notin {0, d.date} THEN T8!Fresh ELSE s0
<1> DEFINE kept == T8!Silently(first, s)
<1> DEFINE bought == T8!Also(first,
             T8!Struck([s EXCEPT !.active = TRUE, !.date = d.date, !.spent = T8!Cost(d),
                                 !.quantity_call = T8!Calls(d),
                                 !.quantity_put = T8!Puts(d)], d), "BUY_LIMIT_TRANCHE")
<1>1. /\ StrangleRecord(s0) /\ s0 \in T8!Track8State
      /\ s0.active <=> s0.date # 0
      /\ s0.high > 0 => 10 * s0.high >= 18 * s0.spent
  BY DEF StrangleInv, T8!TypeOK, StrangleRecord, T8!StopOfPresentStrikes
<1>2. d.date \in DOMAIN DaysToExpiry /\ d.date \in Nat \ {0}
  BY StrangleInputs
<1>3. StrangleRecord(s) /\ s.date \in {0, d.date} /\ ProfitableMark(s)
  BY <1>1, StrangleFresh DEF ProfitableMark
<1>4. s.active => s = s0 /\ s0.active /\ s0.date = d.date
  BY <1>1, StrangleFresh
<1>5. ~s.active => ~(s0.active /\ s0.date = d.date)
  BY <1>1
<1>6. first.s = s0 /\ first.out = {}
  OBVIOUS
<1> HIDE DEF s, first
<1>7. StrangleBefore(s0, d, kept)
  <2>1. kept.s = s /\ kept.out = {}
    BY <1>6 DEF T8!Silently
  <2>2. s.active => T8!SameStrikes(s0, s) /\ s.high <= s0.high
    <3>1. s0.high \in Nat
      BY <1>1 DEF T8!Track8State
    <3> QED BY <1>4, <3>1 DEF T8!SameStrikes
  <2>3. StrangleChain(s0, d, s, {})
    BY <1>3, <1>4, <1>5, <2>2 DEF StrangleChain, TakenIn, GivenUp
  <2> HIDE DEF kept
  <2> QED BY <2>1, <2>3 DEF StrangleBefore
<1>8. ASSUME ~s.active PROVE StrangleBefore(s0, d, bought)
  <2> DEFINE cost == T8!Cost(d)
  <2> DEFINE calls == T8!Calls(d)
  <2> DEFINE puts == T8!Puts(d)
  <2> DEFINE u == [s EXCEPT !.active = TRUE, !.date = d.date, !.spent = cost,
                            !.quantity_call = calls, !.quantity_put = puts]
  <2> DEFINE t == T8!Struck(u, d)
  <2>1. s = T8!Fresh
    BY <1>3, <1>8 DEF StrangleRecord
  <2>2. calls \in Nat \ {0} /\ puts \in Nat /\ cost \in Nat
    BY StrangleQuantities
  <2>5. bought.s = t /\ bought.out = {"BUY_LIMIT_TRANCHE"}
    BY <1>6 DEF T8!Also
  <2> HIDE DEF calls, puts, cost, bought
  <2>3. s \in T8!Track8State /\ s.high = 0
    BY <2>1, StrangleFresh DEF StrangleRecord
  <2>4. /\ u \in T8!Track8State
        /\ u.active
        /\ u.date = d.date /\ u.high = 0 /\ u.quantity_call = calls
    BY <1>2, <2>2, <2>3 DEF T8!Track8State
  <2> HIDE DEF u
  <2>6. /\ t \in T8!Track8State
        /\ t.active
        /\ t.date = d.date /\ t.high = 0
        /\ t.quantity_call = calls
    BY <2>4, StrangleStruck
  <2>7. T8!Value(t, d) \in Nat
    BY <2>6, StrangleValue
  <2> HIDE DEF t
  <2>8. StrangleRecord(t) /\ ProfitableMark(t)
    BY <1>2, <2>2, <2>6 DEF StrangleRecord, ProfitableMark
  <2>9. StrangleChain(s0, d, t, {"BUY_LIMIT_TRANCHE"})
    BY <1>5, <1>8, <2>6, <2>7, <2>8 DEF StrangleChain, TakenIn, GivenUp
  <2> QED BY <2>5, <2>9 DEF StrangleBefore
<1>9. T8!Entry(first, d) = kept \/ (~s.active /\ T8!Entry(first, d) = bought)
  BY <1>6 DEF T8!Entry, s
<1> HIDE DEF kept, bought
<1> QED BY <1>7, <1>8, <1>9 DEF first

LEMMA StrangleMacro ==
  ASSUME NEW s0, NEW d, NEW r, StrangleBefore(s0, d, r)
  PROVE  StrangleBefore(s0, d, T8!MacroProtection(r, d))
<1> DEFINE scaled == T8!Also(r, r.s, "MACRO_HEDGE_SCALE_UP")
<1>1. /\ StrangleChain(s0, d, r.s, r.out)
      /\ StrangleRecord(r.s) /\ SamePosition(r.s, r.s)
  BY DEF StrangleBefore, StrangleChain, SamePosition
<1>2. StrangleChain(s0, d, r.s, r.out \cup {"MACRO_HEDGE_SCALE_UP"})
  BY <1>1, StrangleQuiet
<1>3. scaled.s = r.s /\ scaled.out = r.out \cup {"MACRO_HEDGE_SCALE_UP"}
  BY DEF T8!Also
<1> HIDE DEF scaled
<1>4. StrangleBefore(s0, d, scaled)
  BY <1>2, <1>3 DEF StrangleBefore
<1>5. T8!MacroProtection(r, d) \in {r, scaled}
  BY DEF T8!MacroProtection, scaled
<1> QED BY <1>4, <1>5

LEMMA StrangleTakeProfit ==
  ASSUME NEW s0, s0.high \in Nat, NEW d \in T8!Inputs, NEW r, StrangleBefore(s0, d, r)
  PROVE  StrangleBefore(s0, d, T8!TakeProfit(r, d))
<1> DEFINE high == T8!Larger(r.s.high, T8!Value(r.s, d))
<1> DEFINE t == [r.s EXCEPT !.high = high]
<1> DEFINE closed == T8!Taken(r)
<1> DEFINE told == T8!Also(r, t, "UPDATE_TRAILING")
<1> DEFINE silent == T8!Silently(r, t)
<1> DEFINE rising == r.s.active /\ T8!Enough(r.s, d)
<1>1. StrangleChain(s0, d, r.s, r.out) /\ "DYNAMIC_REBUILD_FENCE" \notin r.out
  BY DEF StrangleBefore
<1>2. ASSUME rising PROVE StrangleBefore(s0, d, closed)
  <2>1. StrangleChain(s0, d, T8!Fresh, r.out \cup {"TAKE_PROFIT"})
    BY <1>1, <1>2, StrangleClosing
  <2>2. closed.s = T8!Fresh /\ closed.out = r.out \cup {"TAKE_PROFIT"}
    BY DEF T8!Also, T8!Taken
  <2> HIDE DEF closed
  <2> QED BY <1>1, <2>1, <2>2 DEF StrangleBefore
<1>3. ASSUME rising PROVE StrangleBefore(s0, d, told) /\ StrangleBefore(s0, d, silent)
  <2>1. StrangleChain(s0, d, t, r.out)
    BY <1>1, <1>3, StrangleHigher
  <2> HIDE DEF t
  <2>2. StrangleRecord(t) /\ SamePosition(t, t)
    BY <2>1 DEF StrangleChain, SamePosition
  <2>3. StrangleChain(s0, d, t, r.out \cup {"UPDATE_TRAILING"})
    BY <2>1, <2>2, StrangleQuiet
  <2>4. told.s = t /\ told.out = r.out \cup {"UPDATE_TRAILING"}
        /\ silent.s = t /\ silent.out = r.out
    BY DEF T8!Also, T8!Silently
  <2> HIDE DEF told, silent
  <2> QED BY <1>1, <2>1, <2>3, <2>4 DEF StrangleBefore
<1>4. \/ T8!TakeProfit(r, d) = r
      \/ rising /\ T8!TakeProfit(r, d) \in {closed, told, silent}
  BY Zenon DEF T8!TakeProfit
<1> HIDE DEF closed, told, silent, rising
<1> QED BY <1>2, <1>3, <1>4

LEMMA StrangleRebuild ==
  ASSUME NEW s0, NEW d \in T8!Inputs, NEW r, StrangleAfter(s0, d, r)
  PROVE  StrangleAfter(s0, d, T8!ProfitRebuild(r, d))
<1> DEFINE t == T8!Struck([r.s EXCEPT !.high = 0], d)
<1> DEFINE taken == T8!Also(r, r.s, "DYNAMIC_PROFIT_TAKE")
<1> DEFINE rebuilt == T8!Also(taken, t, "DYNAMIC_REBUILD_FENCE")
<1>1. ASSUME r.s.active PROVE StrangleAfter(s0, d, rebuilt)
  <2>1. StrangleChain(s0, d, t, (r.out \cup {"DYNAMIC_PROFIT_TAKE"}) \cup {"DYNAMIC_REBUILD_FENCE"})
    BY <1>1, StrangleRebuilt DEF StrangleAfter
  <2> HIDE DEF t
  <2>2. rebuilt.s = t
        /\ rebuilt.out = (r.out \cup {"DYNAMIC_PROFIT_TAKE"}) \cup {"DYNAMIC_REBUILD_FENCE"}
    BY DEF T8!Also
  <2> HIDE DEF rebuilt
  <2> QED BY <2>1, <2>2 DEF StrangleAfter
<1>2. T8!ProfitRebuild(r, d) = r \/ (r.s.active /\ T8!ProfitRebuild(r, d) = rebuilt)
  BY DEF T8!ProfitRebuild
<1> HIDE DEF rebuilt
<1> QED BY <1>1, <1>2

LEMMA StrangleExpiry ==
  ASSUME NEW s0, NEW d \in T8!Inputs, NEW r, StrangleAfter(s0, d, r)
  PROVE  StrangleAfter(s0, d, T8!ExpiryCutoff(r, d))
<1> DEFINE up == [r.s EXCEPT !.counter = r.s.counter + 1]
<1> DEFINE down == [r.s EXCEPT !.counter = r.s.counter - 1]
<1> DEFINE cancelled == T8!Also(r, r.s, "CANCEL_PENDING_TRANCHES")
<1> DEFINE flat == T8!Also(r, T8!Fresh, "FLAT_STRANGLE")
<1> DEFINE attack == T8!Also(r, up, "HOLD_LONG_ATTACK")
<1> DEFINE hold == T8!Also(r, down, "HOLD_HYSTERESIS")
<1>1. /\ StrangleChain(s0, d, r.s, r.out)
      /\ StrangleRecord(r.s) /\ SamePosition(r.s, r.s)
      /\ r.s.counter \in Nat
  BY DEF StrangleAfter, StrangleChain, SamePosition, StrangleRecord, T8!Track8State
<1>2. StrangleAfter(s0, d, cancelled)
  <2>1. StrangleChain(s0, d, r.s, r.out \cup {"CANCEL_PENDING_TRANCHES"})
    BY <1>1, StrangleQuiet
  <2>2. cancelled.s = r.s /\ cancelled.out = r.out \cup {"CANCEL_PENDING_TRANCHES"}
    BY DEF T8!Also
  <2> HIDE DEF cancelled
  <2> QED BY <2>1, <2>2 DEF StrangleAfter
<1>3. ASSUME r.s.active PROVE StrangleAfter(s0, d, flat)
  <2>1. StrangleChain(s0, d, T8!Fresh, r.out \cup {"FLAT_STRANGLE"})
    BY <1>1, <1>3, StrangleClosing
  <2>2. flat.s = T8!Fresh /\ flat.out = r.out \cup {"FLAT_STRANGLE"}
    BY DEF T8!Also
  <2> HIDE DEF flat
  <2> QED BY <2>1, <2>2 DEF StrangleAfter
<1>4. ASSUME r.s.active PROVE StrangleAfter(s0, d, attack)
  <2>1. r.s.counter + 1 \in Nat
    BY <1>1
  <2>2. StrangleRecord(up) /\ SamePosition(r.s, up) /\ up.high = r.s.high
    BY <1>1, <1>4, <2>1, StrangleMarked
  <2> HIDE DEF up
  <2>3. StrangleChain(s0, d, up, r.out \cup {"HOLD_LONG_ATTACK"})
    BY <1>1, <2>2, StrangleQuiet
  <2>4. attack.s = up /\ attack.out = r.out \cup {"HOLD_LONG_ATTACK"}
    BY DEF T8!Also
  <2> HIDE DEF attack
  <2> QED BY <2>3, <2>4 DEF StrangleAfter
<1>5. ASSUME r.s.active, r.s.counter > 0 PROVE StrangleAfter(s0, d, hold)
  <2>1. r.s.counter - 1 \in Nat
    BY <1>1, <1>5
  <2>2. StrangleRecord(down) /\ SamePosition(r.s, down) /\ down.high = r.s.high
    BY <1>1, <1>5, <2>1, StrangleMarked
  <2> HIDE DEF down
  <2>3. StrangleChain(s0, d, down, r.out \cup {"HOLD_HYSTERESIS"})
    BY <1>1, <2>2, StrangleQuiet
  <2>4. hold.s = down /\ hold.out = r.out \cup {"HOLD_HYSTERESIS"}
    BY DEF T8!Also
  <2> HIDE DEF hold
  <2> QED BY <2>3, <2>4 DEF StrangleAfter
<1>6. \/ T8!ExpiryCutoff(r, d) \in {r, cancelled}
      \/ r.s.active /\ T8!ExpiryCutoff(r, d) \in {attack, flat}
      \/ r.s.active /\ r.s.counter > 0 /\ T8!ExpiryCutoff(r, d) = hold
  BY Zenon DEF T8!ExpiryCutoff
<1> HIDE DEF cancelled, flat, attack, hold
<1> QED BY <1>2, <1>3, <1>4, <1>5, <1>6

LEMMA StrangleEvaluated ==
  ASSUME StrangleInv, NEW d \in T8!Inputs
  PROVE  StrangleAfter(state, d, T8!Evaluated(state, d))
<1> DEFINE r1 == T8!Entry([s |-> state, out |-> {}], d)
<1> DEFINE r2 == T8!MacroProtection(r1, d)
<1> DEFINE r3 == T8!TakeProfit(r2, d)
<1> DEFINE r4 == T8!ProfitRebuild(r3, d)
<1>0. state.high \in Nat
  BY DEF StrangleInv, T8!TypeOK, T8!Track8State
<1>1. StrangleBefore(state, d, r1)
  BY StrangleEntry
<1>2. T8!Evaluated(state, d) = T8!ExpiryCutoff(r4, d)
  BY DEF T8!Evaluated
<1> HIDE DEF r1
<1>3. StrangleBefore(state, d, r2)
  BY <1>1, StrangleMacro
<1> HIDE DEF r2
<1>4. StrangleAfter(state, d, r3)
  <2>1. StrangleBefore(state, d, r3)
    BY <1>0, <1>3, StrangleTakeProfit
  <2> QED BY <2>1 DEF StrangleBefore, StrangleAfter
<1> HIDE DEF r3
<1>5. StrangleAfter(state, d, r4)
  BY <1>4, StrangleRebuild
<1> HIDE DEF r4
<1> QED BY <1>2, <1>5, StrangleExpiry

LEMMA StrangleInit == T8!Init => StrangleInv
<1> SUFFICES ASSUME T8!Init PROVE StrangleInv
  OBVIOUS
<1>1. state = T8!Fresh /\ history = T8!NoHistory
  BY DEF T8!Init
<1>2. clock \in [date : DOMAIN DaysToExpiry, time : {900, 1515}]
  BY StrangleAssumption DEF T8!Init
<1>3. T8!NoHistory \in [held : Int, best : Nat]
  BY DEF T8!NoHistory
<1>4. T8!TypeOK
  BY <1>1, <1>2, <1>3, StrangleFresh DEF T8!TypeOK, StrangleRecord
<1> QED BY <1>1, <1>4, StrangleFresh DEF StrangleInv, T8!StopOfPresentStrikes

LEMMA StrangleReset == ASSUME StrangleInv, T8!Reset PROVE StrangleInv' /\ T8!StrangleMovesWithSignals
<1> DEFINE held == history.held - T8!Believed(state)
<1>1. state' = T8!Fresh /\ history' = [held |-> held, best |-> 0] /\ clock' = clock
  BY DEF T8!Reset
<1>2. clock \in [date : DOMAIN DaysToExpiry, time : {900, 1515}]
  BY DEF StrangleInv, T8!TypeOK
<1>3. history.held \in Int /\ T8!Believed(state) \in {0, 1} /\ T8!Believed(T8!Fresh) = 0
  BY StrangleFresh DEF StrangleInv, T8!TypeOK, T8!Believed
<1>4. held \in Int /\ held - history.held = T8!Believed(T8!Fresh) - T8!Believed(state)
  BY <1>3
<1> HIDE DEF held
<1>5. history' \in [held : Int, best : Nat] /\ history'.held = held
  BY <1>1, <1>4
<1>6. T8!TypeOK'
  BY <1>1, <1>2, <1>5, StrangleFresh DEF T8!TypeOK, StrangleRecord
<1>7. StrangleInv'
  BY <1>1, <1>6, StrangleFresh DEF StrangleInv, T8!StopOfPresentStrikes
<1>8. T8!StrangleMovesWithSignals
  BY <1>1, <1>4, <1>5 DEF T8!StrangleMovesWithSignals
<1> QED BY <1>7, <1>8

LEMMA StrangleEvaluate ==
  ASSUME StrangleInv, NEW d \in T8!Inputs, T8!Evaluate(d)
  PROVE  StrangleInv' /\ T8!StrangleMovesWithSignals
<1> DEFINE r == T8!Evaluated(state, d)
<1> DEFINE s == r.s
<1> DEFINE out == r.out
<1> DEFINE held == history.held + T8!Bought(out) - T8!Closed(out)
<1> DEFINE best == IF ~s.active THEN 0
                   ELSE IF T8!SameStrikes(state, s) /\ "DYNAMIC_REBUILD_FENCE" \notin out
                   THEN T8!Larger(history.best, T8!Value(s, d))
                   ELSE IF "DYNAMIC_REBUILD_FENCE" \in out THEN 0
                   ELSE T8!Value(s, d)
<1>1. /\ clock' = [date |-> d.date, time |-> d.time]
      /\ state' = s
      /\ history' = [held |-> held, best |-> best]
  BY DEF T8!Evaluate, T8!At
<1>2. StrangleChain(state, d, s, out)
  BY StrangleEvaluated DEF StrangleAfter
<1> HIDE DEF r, s, out
<1>3. StrangleRecord(s) /\ s.date \in {0, d.date} /\ s \in T8!Track8State
  BY <1>2 DEF StrangleChain, StrangleRecord
<1>4. T8!Value(s, d) \in Nat
  BY <1>3, StrangleValue
<1>5. history \in [held : Int, best : Nat] /\ history.held \in Int /\ history.best \in Nat
  BY DEF StrangleInv, T8!TypeOK
<1>6. T8!Bought(out) \in {0, 1} /\ T8!Closed(out) \in {0, 1}
  BY DEF T8!Bought, T8!Closed
<1>7. held \in Int
  BY <1>5, <1>6
<1>8. best \in Nat
  BY <1>4, <1>5 DEF T8!Larger
<1>9. s.high > 0 => s.high <= best
  <2> SUFFICES ASSUME s.high > 0 PROVE s.high <= best
    OBVIOUS
  <2>1. s.active
    BY <1>3, StrangleFresh DEF StrangleRecord
  <2>2. "DYNAMIC_REBUILD_FENCE" \notin out
        /\ (s.high <= T8!Value(s, d) \/ (T8!SameStrikes(state, s) /\ s.high <= state.high))
    BY <1>2, <2>1 DEF StrangleChain
  <2>3. s.high \in Nat /\ state.high \in Nat
    BY <1>3 DEF StrangleInv, T8!TypeOK, T8!Track8State
  <2>4. state.high <= history.best
    BY <1>5, <2>3 DEF StrangleInv, T8!StopOfPresentStrikes
  <2>5. CASE T8!SameStrikes(state, s)
    <3>1. best = T8!Larger(history.best, T8!Value(s, d))
      BY <2>1, <2>2, <2>5
    <3> HIDE DEF best
    <3> QED BY <1>4, <1>5, <2>2, <2>3, <2>4, <3>1 DEF T8!Larger
  <2>6. CASE ~T8!SameStrikes(state, s)
    <3>1. best = T8!Value(s, d)
      BY <2>1, <2>2, <2>6
    <3> HIDE DEF best
    <3> QED BY <2>2, <2>6, <3>1
  <2> QED BY <2>5, <2>6
<1> HIDE DEF held, best
<1>10. history' \in [held : Int, best : Nat] /\ history'.held = held /\ history'.best = best
  BY <1>1, <1>7, <1>8
<1>11. clock' \in [date : DOMAIN DaysToExpiry, time : {900, 1515}] /\ clock'.date = d.date
  <2>1. d.date \in DOMAIN DaysToExpiry /\ d.time \in {900, 1515}
    BY StrangleInputs
  <2> QED BY <1>1, <2>1
<1>12. StrangleInv'
  <2>1. T8!TypeOK'
    BY <1>1, <1>3, <1>10, <1>11 DEF T8!TypeOK, StrangleRecord
  <2>2. T8!StopOfPresentStrikes'
    BY <1>1, <1>2, <1>9, <1>10 DEF T8!StopOfPresentStrikes, StrangleChain, ProfitableMark
  <2> QED BY <1>1, <1>3, <1>11, <2>1, <2>2 DEF StrangleInv
<1>13. T8!StrangleMovesWithSignals
  <2> SUFFICES ASSUME clock'.date = clock.date
               PROVE  history'.held - history.held = T8!Believed(state') - T8!Believed(state)
    BY DEF T8!StrangleMovesWithSignals
  <2>1. state.active => state.date = d.date
    BY <1>11 DEF StrangleInv, T8!TypeOK
  <2>2. /\ s.active <=> TakenIn(state, d, out) /\ ~GivenUp(out)
        /\ GivenUp(out) => TakenIn(state, d, out)
        /\ "BUY_LIMIT_TRANCHE" \in out => ~state.active
    BY <1>2, <2>1 DEF StrangleChain
  <2>3. TakenIn(state, d, out) <=> "BUY_LIMIT_TRANCHE" \in out \/ state.active
    BY <2>1 DEF TakenIn
  <2>4. T8!Closed(out) = (IF GivenUp(out) THEN 1 ELSE 0)
    <3>1. {"TAKE_PROFIT", "FLAT_STRANGLE"} \cap out # {} <=> GivenUp(out)
      BY DEF GivenUp
    <3> QED BY <3>1 DEF T8!Closed
  <2>5. T8!Bought(out) = (IF "BUY_LIMIT_TRANCHE" \in out THEN 1 ELSE 0)
    BY DEF T8!Bought
  <2>6. T8!Believed(state') = (IF s.active THEN 1 ELSE 0)
    BY <1>1 DEF T8!Believed
  <2>7. T8!Believed(state) = (IF state.active THEN 1 ELSE 0)
    BY DEF T8!Believed
  <2>8. held = history.held + T8!Bought(out) - T8!Closed(out)
    BY DEF held
  <2> QED BY <1>5, <1>10, <2>2, <2>3, <2>4, <2>5, <2>6, <2>7, <2>8
<1> QED BY <1>12, <1>13

LEMMA StrangleNext == StrangleInv /\ T8!Next => StrangleInv' /\ T8!StrangleMovesWithSignals
<1> SUFFICES ASSUME StrangleInv, T8!Next PROVE StrangleInv' /\ T8!StrangleMovesWithSignals
  OBVIOUS
<1>1. ASSUME NEW d \in T8!Inputs, T8!Evaluate(d) PROVE StrangleInv' /\ T8!StrangleMovesWithSignals
  BY <1>1, StrangleEvaluate
<1>2. CASE T8!Reset
  BY <1>2, StrangleReset
<1> QED BY <1>1, <1>2 DEF T8!Next
-----------------------------------------------------------------------------
(* Track 9. *)

\* What has not been done yet today has no signal; a record of no date is
\* untouched.
EventInv ==
  /\ T9!TypeOK
  /\ T9!OncePerDay
  /\ T9!EventLocked
  /\ ~state.early => history.early = 0
  /\ ~state.reentered => history.reentries = 0
  /\ state.date = 0 => ~state.early /\ ~state.reentered

LEMMA EventFresh ==
  /\ T9!Fresh \in T9!Track9State
  /\ ~T9!Fresh.active /\ ~T9!Fresh.early /\ ~T9!Fresh.reentered
  /\ T9!Fresh.date = 0
<1>1. T9!Fresh \in T9!Track9State
  BY DaysAssumption DEF T9!Fresh, T9!Track9State, T9!Phases
<1>2. ~T9!Fresh.active /\ ~T9!Fresh.early /\ ~T9!Fresh.reentered
  BY DEF T9!Fresh
<1>3. T9!Fresh.date = 0
  BY DEF T9!Fresh
<1> QED BY <1>1, <1>2, <1>3

LEMMA EventNoHistory ==
  /\ T9!NoHistory \in [early : Nat, reentries : Nat, held : Int, best : Int, last : Int]
  /\ T9!NoHistory.early = 0 /\ T9!NoHistory.reentries = 0
  BY DEF T9!NoHistory

LEMMA EventInputs ==
  ASSUME NEW d \in T9!Inputs
  PROVE  d.date \in 1..Days /\ d.time \in {905, 910, 930} /\ d.pnl \in Int
<1>1. d.date \in 1..Days
  BY DEF T9!Inputs
<1>2. d.time \in {905, 910, 930}
  BY DEF T9!Inputs
<1>3. d.pnl \in EventProfits
  BY DEF T9!Inputs
<1> QED BY <1>1, <1>2, <1>3, EventAssumption

\* What the parts of a tick write into the record.
IsSold(s, p, t) == t = [s EXCEPT !.early = TRUE, !.phase = p]
IsBought(s, p, t) == t = [s EXCEPT !.reentered = TRUE, !.phase = p]
IsEntered(s, n, p, t) == t = [s EXCEPT !.active = TRUE, !.high = n, !.phase = p]
IsClosed(s, p, t) == t = [s EXCEPT !.active = FALSE, !.phase = p]

LEMMA EventSold ==
  ASSUME NEW s \in T9!Track9State, NEW p \in T9!Phases, NEW t,
         IsSold(s, p, t)
  PROVE  /\ t \in T9!Track9State
         /\ t.early
         /\ t.active <=> s.active
         /\ t.reentered <=> s.reentered
         /\ t.high = s.high
         /\ t.date = s.date
<1>1. t \in T9!Track9State
  BY DEF T9!Track9State, IsSold
<1>2. t.early
  BY DEF T9!Track9State, IsSold
<1>3. t.active <=> s.active
  BY DEF T9!Track9State, IsSold
<1>4. t.reentered <=> s.reentered
  BY DEF T9!Track9State, IsSold
<1>5. t.high = s.high
  BY DEF T9!Track9State, IsSold
<1>6. t.date = s.date
  BY DEF T9!Track9State, IsSold
<1> QED BY <1>1, <1>2, <1>3, <1>4, <1>5, <1>6

LEMMA EventBought ==
  ASSUME NEW s \in T9!Track9State, NEW p \in T9!Phases, NEW t,
         IsBought(s, p, t)
  PROVE  /\ t \in T9!Track9State
         /\ t.reentered
         /\ t.active <=> s.active
         /\ t.early <=> s.early
         /\ t.high = s.high
         /\ t.date = s.date
<1>1. t \in T9!Track9State
  BY DEF T9!Track9State, IsBought
<1>2. t.reentered
  BY DEF T9!Track9State, IsBought
<1>3. t.active <=> s.active
  BY DEF T9!Track9State, IsBought
<1>4. t.early <=> s.early
  BY DEF T9!Track9State, IsBought
<1>5. t.high = s.high
  BY DEF T9!Track9State, IsBought
<1>6. t.date = s.date
  BY DEF T9!Track9State, IsBought
<1> QED BY <1>1, <1>2, <1>3, <1>4, <1>5, <1>6

LEMMA EventEntered ==
  ASSUME NEW s \in T9!Track9State, NEW p \in T9!Phases, NEW n \in Int, NEW t,
         IsEntered(s, n, p, t)
  PROVE  /\ t \in T9!Track9State
         /\ t.active
         /\ t.high = n
         /\ t.early <=> s.early
         /\ t.reentered <=> s.reentered
         /\ t.date = s.date
<1>1. t \in T9!Track9State
  BY DEF T9!Track9State, IsEntered
<1>2. t.active
  BY DEF T9!Track9State, IsEntered
<1>3. t.high = n
  BY DEF T9!Track9State, IsEntered
<1>4. t.early <=> s.early
  BY DEF T9!Track9State, IsEntered
<1>5. t.reentered <=> s.reentered
  BY DEF T9!Track9State, IsEntered
<1>6. t.date = s.date
  BY DEF T9!Track9State, IsEntered
<1> QED BY <1>1, <1>2, <1>3, <1>4, <1>5, <1>6

LEMMA EventClosed ==
  ASSUME NEW s \in T9!Track9State, NEW p \in T9!Phases, NEW t,
         IsClosed(s, p, t)
  PROVE  /\ t \in T9!Track9State
         /\ ~t.active
         /\ t.early <=> s.early
         /\ t.reentered <=> s.reentered
         /\ t.date = s.date
<1>1. t \in T9!Track9State
  BY DEF T9!Track9State, IsClosed
<1>2. ~t.active
  BY DEF T9!Track9State, IsClosed
<1>3. t.early <=> s.early
  BY DEF T9!Track9State, IsClosed
<1>4. t.reentered <=> s.reentered
  BY DEF T9!Track9State, IsClosed
<1>5. t.date = s.date
  BY DEF T9!Track9State, IsClosed
<1> QED BY <1>1, <1>2, <1>3, <1>4, <1>5

LEMMA EventRaised ==
  ASSUME NEW s \in T9!Track9State, NEW n \in Int, NEW t,
         t = [s EXCEPT !.high = n]
  PROVE  /\ t \in T9!Track9State
         /\ t.high = n
         /\ t.active <=> s.active
         /\ t.early <=> s.early
         /\ t.reentered <=> s.reentered
         /\ t.date = s.date
<1>1. t \in T9!Track9State
  BY DEF T9!Track9State
<1>2. t.high = n
  BY DEF T9!Track9State
<1>3. t.active <=> s.active
  BY DEF T9!Track9State
<1>4. t.early <=> s.early
  BY DEF T9!Track9State
<1>5. t.reentered <=> s.reentered
  BY DEF T9!Track9State
<1>6. t.date = s.date
  BY DEF T9!Track9State
<1> QED BY <1>1, <1>2, <1>3, <1>4, <1>5, <1>6

LEMMA EventWatched ==
  ASSUME NEW s \in T9!Track9State, NEW p \in T9!Phases, NEW t,
         t = [s EXCEPT !.phase = p]
  PROVE  /\ t \in T9!Track9State
         /\ t.active <=> s.active
         /\ t.early <=> s.early
         /\ t.reentered <=> s.reentered
         /\ t.high = s.high
         /\ t.date = s.date
<1>1. t \in T9!Track9State
  BY DEF T9!Track9State
<1>2. t.active <=> s.active
  BY DEF T9!Track9State
<1>3. t.early <=> s.early
  BY DEF T9!Track9State
<1>4. t.reentered <=> s.reentered
  BY DEF T9!Track9State
<1>5. t.high = s.high
  BY DEF T9!Track9State
<1>6. t.date = s.date
  BY DEF T9!Track9State
<1> QED BY <1>1, <1>2, <1>3, <1>4, <1>5, <1>6

\* What holds of the state and the signals so far after each part of a tick
\* that began in s0, synchronised to its date: what is done once is signalled
\* when it is done.
EventDone(s0, d, s, out) ==
  /\ s \in T9!Track9State
  /\ s.date = d.date
  /\ s0.early => s.early
  /\ "EARLY_PROFIT_TAKE" \in out => ~s0.early /\ s.early
  /\ s0.reentered => s.reentered
  /\ "REHEDGE_ENTRY" \in out => ~s0.reentered /\ s.reentered

\* Before the event part, and after it.
EventUnmoved(s0, s, out) ==
  /\ s.active <=> s0.active
  /\ s.high = s0.high
  /\ "ENTER_EVENT_STRANGLE" \notin out
  /\ "CLOSE_EVENT_STRANGLE" \notin out
EventMoved(s0, d, s, out) ==
  /\ "ENTER_EVENT_STRANGLE" \in out <=> ~s0.active /\ s.active
  /\ "CLOSE_EVENT_STRANGLE" \in out <=> s0.active /\ ~s.active
  /\ ~s0.active /\ s.active => s.high = T9!Larger(0, d.pnl)
  /\ s0.active /\ s.active =>
       /\ s.high = T9!Larger(s0.high, d.pnl)
       /\ s.high > T9!EventFloor => ~T9!Fallen(d.pnl, s.high, EventPremium)

EventBefore(s0, d, r) == EventDone(s0, d, r.s, r.out) /\ EventUnmoved(s0, r.s, r.out)
EventAfter(s0, d, r) == EventDone(s0, d, r.s, r.out) /\ EventMoved(s0, d, r.s, r.out)

LEMMA EventSynced ==
  ASSUME EventInv, NEW d \in T9!Inputs
  PROVE  LET s == T9!Synced(state, d) IN
         /\ s \in T9!Track9State /\ s.date = d.date
         /\ state.date = d.date => s = state
         /\ state.date # d.date => ~s.active /\ ~s.early /\ ~s.reentered
<1> DEFINE s == [T9!Fresh EXCEPT !.date = d.date]
<1>1. d.date \in 1..Days
  BY EventInputs
<1>2. s \in T9!Track9State /\ s.date = d.date
  BY <1>1, EventFresh DEF T9!Track9State
<1>3. ~s.active /\ ~s.early /\ ~s.reentered
  BY EventFresh DEF T9!Track9State
<1>4. state \in T9!Track9State
  BY DEF EventInv, T9!TypeOK
<1> HIDE DEF s
<1>5. T9!Synced(state, d) = IF state.date = d.date THEN state ELSE s
  BY DEF T9!Synced, s
<1> QED BY <1>2, <1>3, <1>4, <1>5

LEMMA EventInsurance ==
  ASSUME NEW s0, NEW d \in T9!Inputs,
         T9!Synced(s0, d) \in T9!Track9State, T9!Synced(s0, d).date = d.date
  PROVE  EventBefore(T9!Synced(s0, d), d, T9!Insurance([s |-> s0, out |-> {}], d))
<1> DEFINE s == T9!Synced(s0, d)
<1> DEFINE x == CASE d.insured = T9!TargetInsurance -> "HOLD_INSURANCE"
                  [] d.insured < T9!TargetInsurance -> "ADD_INSURANCE"
                  [] d.insured > T9!TargetInsurance -> "REDUCE_INSURANCE"
<1> DEFINE r == T9!Insurance([s |-> s0, out |-> {}], d)
<1>1. r = [s |-> s, out |-> {} \cup {x}]
  BY DEF T9!Insurance, T9!Also
<1>2. d.insured \in Int
  BY DEF T9!Inputs
<1>3. x \notin {"EARLY_PROFIT_TAKE", "REHEDGE_ENTRY", "ENTER_EVENT_STRANGLE",
                "CLOSE_EVENT_STRANGLE"}
  BY <1>2 DEF T9!TargetInsurance
<1> HIDE DEF s, x
<1>4. r.s = s /\ r.out = {x}
  BY <1>1
<1> HIDE DEF r
<1>5. EventDone(s, d, s, {x}) /\ EventUnmoved(s, s, {x})
  BY <1>3 DEF EventDone, EventUnmoved, s
<1>6. EventBefore(s, d, r)
  BY <1>4, <1>5 DEF EventBefore
<1> QED BY <1>6 DEF r, s

LEMMA EventEarly ==
  ASSUME NEW s0, NEW d \in T9!Inputs, NEW r, EventBefore(s0, d, r)
  PROVE  EventBefore(s0, d, T9!Early(r, d))
<1> DEFINE t == [r.s EXCEPT !.early = TRUE, !.phase = "EARLY_PROFIT_TAKEN"]
<1> DEFINE u == [r.s EXCEPT !.phase = "MARKET_STABILIZATION_MONITORING"]
<1> DEFINE sold == T9!Also(r, t, "EARLY_PROFIT_TAKE")
<1> DEFINE watched == T9!Silently(r, u)
<1>1. EventDone(s0, d, r.s, r.out) /\ EventUnmoved(s0, r.s, r.out) /\ r.s \in T9!Track9State
  BY DEF EventBefore, EventDone
<1>2. ASSUME ~r.s.early PROVE EventBefore(s0, d, sold)
  <2>1. "EARLY_PROFIT_TAKEN" \in T9!Phases
    BY DEF T9!Phases
  <2>2. /\ t \in T9!Track9State /\ t.early /\ t.date = r.s.date /\ t.high = r.s.high
        /\ t.active <=> r.s.active
        /\ t.reentered <=> r.s.reentered
    <3> DEFINE s == r.s
    <3> DEFINE p == "EARLY_PROFIT_TAKEN"
    <3>1. s \in T9!Track9State /\ p \in T9!Phases /\ IsSold(s, p, t)
      BY <1>1, <2>1 DEF IsSold
    <3> HIDE DEF s, p, t
    <3>2. /\ t \in T9!Track9State
          /\ t.early
          /\ t.active <=> s.active
          /\ t.reentered <=> s.reentered
          /\ t.high = s.high
          /\ t.date = s.date
      BY <3>1, EventSold
    <3> QED BY <3>2 DEF s
  <2> HIDE DEF t
  <2>3. sold.s = t /\ sold.out = r.out \cup {"EARLY_PROFIT_TAKE"}
    BY DEF T9!Also
  <2> HIDE DEF sold
  <2>4. EventDone(s0, d, t, r.out \cup {"EARLY_PROFIT_TAKE"})
    BY <1>1, <1>2, <2>2 DEF EventDone
  <2>5. EventUnmoved(s0, t, r.out \cup {"EARLY_PROFIT_TAKE"})
    BY <1>1, <2>2 DEF EventUnmoved
  <2> QED BY <2>3, <2>4, <2>5 DEF EventBefore
<1>3. EventBefore(s0, d, watched)
  <2>1. "MARKET_STABILIZATION_MONITORING" \in T9!Phases
    BY DEF T9!Phases
  <2>2. /\ u \in T9!Track9State /\ u.high = r.s.high /\ u.date = r.s.date
        /\ u.active <=> r.s.active
        /\ u.early <=> r.s.early
        /\ u.reentered <=> r.s.reentered
    BY <1>1, <2>1, EventWatched
  <2> HIDE DEF u
  <2>3. watched.s = u /\ watched.out = r.out
    BY DEF T9!Silently
  <2> HIDE DEF watched
  <2>4. EventDone(s0, d, u, r.out) /\ EventUnmoved(s0, u, r.out)
    BY <1>1, <2>2 DEF EventDone, EventUnmoved
  <2> QED BY <2>3, <2>4 DEF EventBefore
<1>4. \/ T9!Early(r, d) = r \/ T9!Early(r, d) = watched
      \/ ~r.s.early /\ T9!Early(r, d) = sold
  BY DEF T9!Early
<1> HIDE DEF sold, watched
<1> QED BY <1>2, <1>3, <1>4

LEMMA EventReentry ==
  ASSUME NEW s0, NEW d \in T9!Inputs, NEW r, EventBefore(s0, d, r)
  PROVE  EventBefore(s0, d, T9!Reentry(r, d))
<1> DEFINE t == [r.s EXCEPT !.reentered = TRUE, !.phase = "REHEDGE_ACTIVE"]
<1> DEFINE bought == T9!Also(r, t, "REHEDGE_ENTRY")
<1>1. EventDone(s0, d, r.s, r.out) /\ EventUnmoved(s0, r.s, r.out) /\ r.s \in T9!Track9State
  BY DEF EventBefore, EventDone
<1>2. ASSUME ~r.s.reentered PROVE EventBefore(s0, d, bought)
  <2>1. "REHEDGE_ACTIVE" \in T9!Phases
    BY DEF T9!Phases
  <2>2. /\ t \in T9!Track9State /\ t.reentered /\ t.date = r.s.date /\ t.high = r.s.high
        /\ t.active <=> r.s.active
        /\ t.early <=> r.s.early
    <3> DEFINE s == r.s
    <3> DEFINE p == "REHEDGE_ACTIVE"
    <3>1. s \in T9!Track9State /\ p \in T9!Phases /\ IsBought(s, p, t)
      BY <1>1, <2>1 DEF IsBought
    <3> HIDE DEF s, p, t
    <3>2. /\ t \in T9!Track9State
          /\ t.reentered
          /\ t.active <=> s.active
          /\ t.early <=> s.early
          /\ t.high = s.high
          /\ t.date = s.date
      BY <3>1, EventBought
    <3> QED BY <3>2 DEF s
  <2> HIDE DEF t
  <2>3. bought.s = t /\ bought.out = r.out \cup {"REHEDGE_ENTRY"}
    BY DEF T9!Also
  <2> HIDE DEF bought
  <2>4. EventDone(s0, d, t, r.out \cup {"REHEDGE_ENTRY"})
    BY <1>1, <1>2, <2>2 DEF EventDone
  <2>5. EventUnmoved(s0, t, r.out \cup {"REHEDGE_ENTRY"})
    BY <1>1, <2>2 DEF EventUnmoved
  <2> QED BY <2>3, <2>4, <2>5 DEF EventBefore
<1>3. T9!Reentry(r, d) = r \/ (~r.s.reentered /\ T9!Reentry(r, d) = bought)
  BY DEF T9!Reentry
<1> HIDE DEF bought
<1> QED BY <1>2, <1>3

LEMMA EventEnter ==
  ASSUME NEW s0, NEW d \in T9!Inputs, NEW r, EventBefore(s0, d, r), ~r.s.active
  PROVE  EventAfter(s0, d, T9!Enter(r, d))
<1> DEFINE s == r.s
<1> DEFINE n == T9!Larger(0, d.pnl)
<1> DEFINE p == "EVENT_ACTIVE"
<1> DEFINE t == [s EXCEPT !.active = TRUE, !.high = n, !.phase = p]
<1> DEFINE blocked == T9!Also(r, s, "EVENT_BUDGET_BLOCKED")
<1> DEFINE entered == T9!Also(r, t, "ENTER_EVENT_STRANGLE")
<1>1. EventDone(s0, d, s, r.out) /\ EventUnmoved(s0, s, r.out) /\ s \in T9!Track9State /\ ~s.active
  BY DEF EventBefore, EventDone
<1>2. blocked.s = s /\ blocked.out = r.out \cup {"EVENT_BUDGET_BLOCKED"}
  BY DEF T9!Also
<1>3. T9!Enter(r, d) \in {r, blocked, entered}
  BY DEF T9!Enter
<1>4. EventAfter(s0, d, r)
  BY <1>1 DEF EventAfter, EventUnmoved, EventMoved
<1>5. p \in T9!Phases /\ n \in Int /\ IsEntered(s, n, p, t)
  <2>1. n \in Int
    BY EventInputs DEF T9!Larger
  <2> QED BY <2>1 DEF T9!Phases, IsEntered
<1> HIDE DEF t
<1>6. entered.s = t /\ entered.out = r.out \cup {"ENTER_EVENT_STRANGLE"}
  BY DEF T9!Also
<1> HIDE DEF blocked, entered, s
<1>7. EventAfter(s0, d, blocked)
  <2>1. EventDone(s0, d, s, r.out \cup {"EVENT_BUDGET_BLOCKED"})
    BY <1>1 DEF EventDone
  <2>2. EventMoved(s0, d, s, r.out \cup {"EVENT_BUDGET_BLOCKED"})
    BY <1>1 DEF EventUnmoved, EventMoved
  <2> QED BY <1>2, <2>1, <2>2 DEF EventAfter
<1>8. EventAfter(s0, d, entered)
  <2>0. n = T9!Larger(0, d.pnl)
    OBVIOUS
  <2> HIDE DEF n, p
  <2>1. /\ t \in T9!Track9State
        /\ t.active
        /\ t.high = n
        /\ t.early <=> s.early
        /\ t.reentered <=> s.reentered
        /\ t.date = s.date
    BY <1>1, <1>5, EventEntered
  <2>2. EventDone(s0, d, t, r.out \cup {"ENTER_EVENT_STRANGLE"})
    BY <1>1, <2>1 DEF EventDone
  <2>3. EventMoved(s0, d, t, r.out \cup {"ENTER_EVENT_STRANGLE"})
    BY <1>1, <2>0, <2>1 DEF EventUnmoved, EventMoved
  <2> QED BY <1>6, <2>2, <2>3 DEF EventAfter
<1> QED BY <1>3, <1>4, <1>7, <1>8

LEMMA EventFollow ==
  ASSUME NEW s0, NEW d \in T9!Inputs, NEW r, EventBefore(s0, d, r), r.s.active
  PROVE  EventAfter(s0, d, T9!Follow(r, d))
<1> DEFINE s == r.s
<1> DEFINE high == T9!Larger(s.high, d.pnl)
<1> DEFINE fallen == high > T9!EventFloor /\ T9!Fallen(d.pnl, high, EventPremium)
<1> DEFINE stop == "EVENT_TRAILING_STOP"
<1> DEFINE end == "EVENT_CLOSED"
<1> DEFINE t == [s EXCEPT !.active = FALSE, !.phase = stop]
<1> DEFINE u == [s EXCEPT !.active = FALSE, !.phase = end]
<1> DEFINE v == [s EXCEPT !.high = high]
<1> DEFINE stopped == T9!Also(r, t, "CLOSE_EVENT_STRANGLE")
<1> DEFINE ended == T9!Also(r, u, "CLOSE_EVENT_STRANGLE")
<1> DEFINE kept == T9!Silently(r, v)
<1>1. EventDone(s0, d, s, r.out) /\ EventUnmoved(s0, s, r.out) /\ s \in T9!Track9State /\ s.active
  BY DEF EventBefore, EventDone
<1>2. \/ T9!Follow(r, d) = stopped
      \/ T9!Follow(r, d) = ended
      \/ ~fallen /\ T9!Follow(r, d) = kept
  BY DEF T9!Follow
<1>3. high \in Int
  <2>1. s.high \in Int /\ d.pnl \in Int
    BY <1>1, EventInputs DEF T9!Track9State
  <2> QED BY <2>1 DEF T9!Larger
<1>4. stop \in T9!Phases /\ end \in T9!Phases /\ IsClosed(s, stop, t) /\ IsClosed(s, end, u)
  BY DEF T9!Phases, IsClosed
<1>5. high = T9!Larger(s.high, d.pnl)
  OBVIOUS
<1>6. ~fallen => (high > T9!EventFloor => ~T9!Fallen(d.pnl, high, EventPremium))
  OBVIOUS
<1> HIDE DEF s, t, u, stop, end
<1>7. stopped.s = t /\ stopped.out = r.out \cup {"CLOSE_EVENT_STRANGLE"}
  BY DEF T9!Also
<1>8. ended.s = u /\ ended.out = r.out \cup {"CLOSE_EVENT_STRANGLE"}
  BY DEF T9!Also
<1> HIDE DEF stopped, ended, high, fallen
<1>9. /\ v \in T9!Track9State
      /\ v.high = high
      /\ v.active <=> s.active
      /\ v.early <=> s.early
      /\ v.reentered <=> s.reentered
      /\ v.date = s.date
  BY <1>1, <1>3, EventRaised
<1> HIDE DEF v
<1>10. kept.s = v /\ kept.out = r.out
  BY DEF T9!Silently
<1> HIDE DEF kept
<1>11. ASSUME NEW q, NEW w, NEW p \in T9!Phases, IsClosed(s, p, w),
              q.s = w, q.out = r.out \cup {"CLOSE_EVENT_STRANGLE"}
       PROVE  EventAfter(s0, d, q)
  <2>1. /\ w \in T9!Track9State
        /\ ~w.active
        /\ w.early <=> s.early
        /\ w.reentered <=> s.reentered
        /\ w.date = s.date
    BY <1>1, <1>11, EventClosed
  <2>2. EventDone(s0, d, w, r.out \cup {"CLOSE_EVENT_STRANGLE"})
    BY <1>1, <2>1 DEF EventDone
  <2>3. EventMoved(s0, d, w, r.out \cup {"CLOSE_EVENT_STRANGLE"})
    BY <1>1, <2>1 DEF EventUnmoved, EventMoved
  <2> QED BY <1>11, <2>2, <2>3 DEF EventAfter
<1>12. EventAfter(s0, d, stopped) /\ EventAfter(s0, d, ended)
  BY <1>4, <1>7, <1>8, <1>11
<1>13. ASSUME ~fallen PROVE EventAfter(s0, d, kept)
  <2>1. EventDone(s0, d, v, r.out)
    BY <1>1, <1>9 DEF EventDone
  <2>2. EventMoved(s0, d, v, r.out)
    BY <1>1, <1>5, <1>6, <1>9, <1>13 DEF EventUnmoved, EventMoved
  <2> QED BY <1>10, <2>1, <2>2 DEF EventAfter
<1> QED BY <1>2, <1>12, <1>13

LEMMA EventRebuild ==
  ASSUME NEW s0, NEW d \in T9!Inputs, NEW r, EventAfter(s0, d, r)
  PROVE  EventAfter(s0, d, T9!ProfitRebuild(r, d))
<1> DEFINE s == r.s
<1> DEFINE p == "REHEDGE_ACTIVE"
<1> DEFINE t == [s EXCEPT !.reentered = TRUE, !.phase = p]
<1> DEFINE rebuilt == T9!Also(T9!Also(r, s, "DYNAMIC_PROFIT_TAKE"), t, "DYNAMIC_REBUILD_FENCE")
<1> DEFINE out == (r.out \cup {"DYNAMIC_PROFIT_TAKE"}) \cup {"DYNAMIC_REBUILD_FENCE"}
<1>1. EventDone(s0, d, s, r.out) /\ EventMoved(s0, d, s, r.out) /\ s \in T9!Track9State
  BY DEF EventAfter, EventDone
<1>2. T9!ProfitRebuild(r, d) \in {r, rebuilt}
  BY DEF T9!ProfitRebuild
<1>3. p \in T9!Phases /\ IsBought(s, p, t)
  BY DEF T9!Phases, IsBought
<1> HIDE DEF t
<1>4. rebuilt.s = t /\ rebuilt.out = out
  BY DEF T9!Also
<1> HIDE DEF rebuilt, s, p
<1>5. /\ t \in T9!Track9State
      /\ t.reentered
      /\ t.active <=> s.active
      /\ t.early <=> s.early
      /\ t.high = s.high
      /\ t.date = s.date
  BY <1>1, <1>3, EventBought
<1>6. EventDone(s0, d, t, out)
  BY <1>1, <1>5 DEF EventDone
<1>7. EventMoved(s0, d, t, out)
  BY <1>1, <1>5 DEF EventMoved
<1> HIDE DEF out
<1>8. EventAfter(s0, d, rebuilt)
  BY <1>4, <1>6, <1>7 DEF EventAfter
<1> QED BY <1>2, <1>8

LEMMA EventEvaluated ==
  ASSUME EventInv, NEW d \in T9!Inputs
  PROVE  EventAfter(T9!Synced(state, d), d, T9!Evaluated(state, d))
<1> DEFINE s0 == T9!Synced(state, d)
<1> DEFINE r1 == T9!Insurance([s |-> state, out |-> {}], d)
<1> DEFINE r2 == T9!Early(r1, d)
<1> DEFINE r3 == T9!Reentry(r2, d)
<1> DEFINE r4 == T9!Event(r3, d)
<1>1. EventBefore(s0, d, r1)
  BY EventSynced, EventInsurance
<1>2. T9!Evaluated(state, d) = T9!ProfitRebuild(r4, d)
  BY DEF T9!Evaluated
<1> HIDE DEF s0, r1
<1>3. EventBefore(s0, d, r2)
  BY <1>1, EventEarly
<1> HIDE DEF r2
<1>4. EventBefore(s0, d, r3)
  BY <1>3, EventReentry
<1> HIDE DEF r3
<1>5. EventAfter(s0, d, r4)
  <2>1. CASE r3.s.active
    BY <1>4, <2>1, EventFollow DEF T9!Event
  <2>2. CASE ~r3.s.active
    BY <1>4, <2>2, EventEnter DEF T9!Event
  <2> QED BY <2>1, <2>2
<1> HIDE DEF r4
<1>6. EventAfter(s0, d, T9!Evaluated(state, d))
  BY <1>2, <1>5, EventRebuild
<1> QED BY <1>6 DEF s0

LEMMA EventInit == T9!Init => EventInv
<1> SUFFICES ASSUME T9!Init PROVE EventInv
  OBVIOUS
<1>1. state = T9!Fresh /\ history = T9!NoHistory
  BY DEF T9!Init
<1>2. clock \in [date : 1..Days, time : {905, 910, 930}]
  BY DaysAssumption DEF T9!Init
<1>3. T9!TypeOK
  BY <1>1, <1>2, EventFresh, EventNoHistory DEF T9!TypeOK
<1>4. T9!OncePerDay
  BY <1>1, EventNoHistory DEF T9!OncePerDay
<1>5. T9!EventLocked
  BY <1>1, EventFresh DEF T9!EventLocked
<1> QED BY <1>1, <1>3, <1>4, <1>5, EventFresh, EventNoHistory DEF EventInv

LEMMA EventReset == ASSUME EventInv, T9!Reset PROVE EventInv' /\ T9!EventMovesWithSignals
<1> DEFINE held == history.held - T9!Believed(state)
<1>1. state' = T9!Fresh /\ history' = [T9!NoHistory EXCEPT !.held = held] /\ clock' = clock
  BY DEF T9!Reset
<1>2. clock \in [date : 1..Days, time : {905, 910, 930}]
  BY DEF EventInv, T9!TypeOK
<1>3. history.held \in Int /\ T9!Believed(state) \in {0, 1} /\ T9!Believed(T9!Fresh) = 0
  BY EventFresh DEF EventInv, T9!TypeOK, T9!Believed
<1>4. held \in Int /\ held - history.held = T9!Believed(T9!Fresh) - T9!Believed(state)
  BY <1>3
<1> HIDE DEF held
<1>5. /\ history' \in [early : Nat, reentries : Nat, held : Int, best : Int, last : Int]
      /\ history'.early = 0 /\ history'.reentries = 0 /\ history'.held = held
  BY <1>1, <1>4 DEF T9!NoHistory
<1>6. T9!TypeOK'
  BY <1>1, <1>2, <1>5, EventFresh DEF T9!TypeOK
<1>7. T9!OncePerDay'
  BY <1>5 DEF T9!OncePerDay
<1>8. T9!EventLocked'
  BY <1>1, EventFresh DEF T9!EventLocked
<1>9. EventInv'
  BY <1>1, <1>5, <1>6, <1>7, <1>8, EventFresh DEF EventInv
<1>10. T9!EventMovesWithSignals
  BY <1>1, <1>4, <1>5 DEF T9!EventMovesWithSignals
<1> QED BY <1>9, <1>10

LEMMA EventEvaluate ==
  ASSUME EventInv, NEW d \in T9!Inputs, T9!Evaluate(d)
  PROVE  EventInv' /\ T9!EventMovesWithSignals
<1> DEFINE s0 == T9!Synced(state, d)
<1> DEFINE r == T9!Evaluated(state, d)
<1> DEFINE s == r.s
<1> DEFINE out == r.out
<1> DEFINE h == IF d.date = clock.date THEN history ELSE T9!NoHistory
<1> DEFINE early == h.early + T9!One("EARLY_PROFIT_TAKE", out)
<1> DEFINE reentries == h.reentries + T9!One("REHEDGE_ENTRY", out)
<1> DEFINE held == history.held + T9!One("ENTER_EVENT_STRANGLE", out)
                                - T9!One("CLOSE_EVENT_STRANGLE", out)
<1> DEFINE best == CASE ~s.active -> 0
                     [] "ENTER_EVENT_STRANGLE" \in out -> T9!Larger(0, d.pnl)
                     [] OTHER -> T9!Larger(h.best, d.pnl)
<1> DEFINE last == IF s.active /\ "ENTER_EVENT_STRANGLE" \notin out THEN d.pnl ELSE 0
<1>1. /\ clock' = [date |-> d.date, time |-> d.time]
      /\ state' = s
      /\ history' = [early |-> early, reentries |-> reentries, held |-> held,
                     best |-> best, last |-> last]
  BY DEF T9!Evaluate, T9!At, T9!Recorded
<1>2. EventDone(s0, d, s, out) /\ EventMoved(s0, d, s, out)
  BY EventEvaluated DEF EventAfter
<1>3. /\ s0 \in T9!Track9State /\ s0.date = d.date
      /\ state.date = d.date => s0 = state
      /\ state.date # d.date => ~s0.active /\ ~s0.early /\ ~s0.reentered
  BY EventSynced
<1>4. /\ state \in T9!Track9State
      /\ state.active => state.date # 0
      /\ state.date \in {0, clock.date}
      /\ history \in [early : Nat, reentries : Nat, held : Int, best : Int, last : Int]
      /\ history.early <= 1 /\ history.reentries <= 1
      /\ state.active => state.high = history.best
      /\ ~state.early => history.early = 0
      /\ ~state.reentered => history.reentries = 0
      /\ state.date = 0 => ~state.early /\ ~state.reentered
  BY DEF EventInv, T9!TypeOK, T9!OncePerDay, T9!EventLocked
<1>5. d.date \in 1..Days /\ d.time \in {905, 910, 930} /\ d.pnl \in Int
  BY EventInputs
<1> HIDE DEF s0, r, s, out
<1>6. /\ h \in [early : Nat, reentries : Nat, held : Int, best : Int, last : Int]
      /\ h.early <= 1 /\ h.reentries <= 1
  BY <1>4, EventNoHistory
<1>7. /\ ~s0.early => h.early = 0
      /\ ~s0.reentered => h.reentries = 0
  <2>1. CASE d.date = clock.date
    <3>1. h = history
      BY <2>1
    <3>2. d.date # 0
      BY <1>5
    <3>3. CASE state.date = d.date
      BY <1>3, <1>4, <3>1, <3>3
    <3>4. CASE state.date = 0
      BY <1>4, <3>1, <3>4
    <3> QED BY <1>4, <2>1, <3>3, <3>4
  <2>2. CASE d.date # clock.date
    BY <2>2, EventNoHistory
  <2> QED BY <2>1, <2>2
<1>8. s0.active => state = s0 /\ h = history /\ state.active
  <2> SUFFICES ASSUME s0.active PROVE state = s0 /\ h = history /\ state.active
    OBVIOUS
  <2>1. state = s0 /\ state.date = d.date
    BY <1>3
  <2>2. state.date # 0
    BY <1>4, <2>1
  <2> QED BY <1>4, <2>1, <2>2
<1>9. s0.active => s0.high = h.best
  BY <1>4, <1>8
<1>10. h.early \in Nat /\ h.reentries \in Nat /\ h.best \in Int /\ history.held \in Int
  BY <1>4, <1>6
<1>11. \A x : T9!One(x, out) = (IF x \in out THEN 1 ELSE 0)
  BY DEF T9!One
<1> HIDE DEF h
<1>12. /\ early \in Nat /\ early <= 1
       /\ ~s.early => early = 0
  <2>1. early = h.early + (IF "EARLY_PROFIT_TAKE" \in out THEN 1 ELSE 0)
    BY <1>11
  <2>2. /\ s0.early => s.early
        /\ "EARLY_PROFIT_TAKE" \in out => ~s0.early /\ s.early
    BY <1>2 DEF EventDone
  <2> HIDE DEF early
  <2>3. CASE "EARLY_PROFIT_TAKE" \in out
    BY <1>7, <2>1, <2>2, <2>3
  <2>4. CASE "EARLY_PROFIT_TAKE" \notin out
    BY <1>6, <1>7, <1>10, <2>1, <2>2, <2>4
  <2> QED BY <2>3, <2>4
<1>13. /\ reentries \in Nat /\ reentries <= 1
       /\ ~s.reentered => reentries = 0
  <2>1. reentries = h.reentries + (IF "REHEDGE_ENTRY" \in out THEN 1 ELSE 0)
    BY <1>11
  <2>2. /\ s0.reentered => s.reentered
        /\ "REHEDGE_ENTRY" \in out => ~s0.reentered /\ s.reentered
    BY <1>2 DEF EventDone
  <2> HIDE DEF reentries
  <2>3. CASE "REHEDGE_ENTRY" \in out
    BY <1>7, <2>1, <2>2, <2>3
  <2>4. CASE "REHEDGE_ENTRY" \notin out
    BY <1>6, <1>7, <1>10, <2>1, <2>2, <2>4
  <2> QED BY <2>3, <2>4
<1>14. held = history.held + (IF "ENTER_EVENT_STRANGLE" \in out THEN 1 ELSE 0)
                           - (IF "CLOSE_EVENT_STRANGLE" \in out THEN 1 ELSE 0)
  BY <1>11
<1> HIDE DEF early, reentries, held
<1>15. held \in Int
  BY <1>10, <1>14
<1>16. T9!Larger(0, d.pnl) \in Int /\ T9!Larger(h.best, d.pnl) \in Int
  BY <1>5, <1>10 DEF T9!Larger
<1>17. best \in Int /\ last \in Int
  BY <1>5, <1>16
<1>18. s.active =>
         /\ s.high = best
         /\ last # 0 /\ s.high > T9!EventFloor => ~T9!Fallen(last, s.high, EventPremium)
  <2> SUFFICES ASSUME s.active
               PROVE  /\ s.high = best
                      /\ last # 0 /\ s.high > T9!EventFloor
                           => ~T9!Fallen(last, s.high, EventPremium)
    OBVIOUS
  <2>1. CASE s0.active
    <3>1. /\ "ENTER_EVENT_STRANGLE" \notin out
          /\ s.high = T9!Larger(s0.high, d.pnl)
          /\ s.high > T9!EventFloor => ~T9!Fallen(d.pnl, s.high, EventPremium)
      BY <1>2, <2>1 DEF EventMoved
    <3>2. best = T9!Larger(h.best, d.pnl) /\ last = d.pnl
      BY <3>1
    <3> QED BY <1>9, <2>1, <3>1, <3>2
  <2>2. CASE ~s0.active
    <3>1. "ENTER_EVENT_STRANGLE" \in out /\ s.high = T9!Larger(0, d.pnl)
      BY <1>2, <2>2 DEF EventMoved
    <3>2. best = T9!Larger(0, d.pnl) /\ last = 0
      BY <3>1
    <3> QED BY <3>1, <3>2
  <2> QED BY <2>1, <2>2
<1> HIDE DEF best, last
<1>19. /\ history' \in [early : Nat, reentries : Nat, held : Int, best : Int, last : Int]
       /\ history'.early = early /\ history'.reentries = reentries /\ history'.held = held
       /\ history'.best = best /\ history'.last = last
  BY <1>1, <1>12, <1>13, <1>15, <1>17
<1>20. clock' \in [date : 1..Days, time : {905, 910, 930}] /\ clock'.date = d.date
  BY <1>1, <1>5
<1>21. s \in T9!Track9State /\ s.date = d.date
  BY <1>2 DEF EventDone
<1>22. EventInv'
  <2>1. d.date # 0
    BY <1>5
  <2>2. T9!TypeOK'
    BY <1>1, <1>19, <1>20, <1>21, <2>1 DEF T9!TypeOK
  <2>3. T9!OncePerDay'
    BY <1>12, <1>13, <1>19 DEF T9!OncePerDay
  <2>4. T9!EventLocked'
    BY <1>1, <1>18, <1>19 DEF T9!EventLocked
  <2> QED BY <1>1, <1>12, <1>13, <1>19, <1>21, <2>1, <2>2, <2>3, <2>4 DEF EventInv
<1>23. T9!EventMovesWithSignals
  <2> SUFFICES ASSUME clock'.date = clock.date
               PROVE  history'.held - history.held = T9!Believed(state') - T9!Believed(state)
    BY DEF T9!EventMovesWithSignals
  <2>1. s0.active <=> state.active
    BY <1>3, <1>4, <1>8, <1>20
  <2>2. /\ "ENTER_EVENT_STRANGLE" \in out <=> ~s0.active /\ s.active
        /\ "CLOSE_EVENT_STRANGLE" \in out <=> s0.active /\ ~s.active
    BY <1>2 DEF EventMoved
  <2>3. /\ T9!Believed(state') = (IF s.active THEN 1 ELSE 0)
        /\ T9!Believed(state) = (IF state.active THEN 1 ELSE 0)
    BY <1>1 DEF T9!Believed
  <2>4. held - history.held = (IF s.active THEN 1 ELSE 0) - (IF state.active THEN 1 ELSE 0)
    <3>1. CASE s.active
      BY <1>10, <1>14, <2>1, <2>2, <3>1
    <3>2. CASE ~s.active
      BY <1>10, <1>14, <2>1, <2>2, <3>2
    <3> QED BY <3>1, <3>2
  <2> QED BY <1>19, <2>3, <2>4
<1> QED BY <1>22, <1>23

LEMMA EventNext == EventInv /\ T9!Next => EventInv' /\ T9!EventMovesWithSignals
<1> SUFFICES ASSUME EventInv, T9!Next PROVE EventInv' /\ T9!EventMovesWithSignals
  OBVIOUS
<1>1. ASSUME NEW d \in T9!Inputs, T9!Evaluate(d) PROVE EventInv' /\ T9!EventMovesWithSignals
  BY <1>1, EventEvaluate
<1>2. CASE T9!Reset
  BY <1>2, EventReset
<1> QED BY <1>1, <1>2 DEF T9!Next
-----------------------------------------------------------------------------
(* The tracks together. *)

Tracks == {1, 3, 5, 6, 7, 8, 9}

\* The inductive invariant: that of the track that runs.
TracksInv ==
  /\ track \in Tracks
  /\ track = 1 => TailInv
  /\ track = 3 => SpreadInv
  /\ track = 5 => GapInv
  /\ track = 6 => InsuranceInv
  /\ track = 7 => SkewInv
  /\ track = 8 => StrangleInv
  /\ track = 9 => EventInv

LEMMA TracksInit == Init => TracksInv
<1> SUFFICES ASSUME Init PROVE TracksInv
  OBVIOUS
<1>1. track \in Tracks
  BY DEF Init, Tracks
<1>2. /\ track = 1 => T1!Init
      /\ track = 3 => T3!Init
      /\ track = 5 => T5!Init
      /\ track = 6 => T6!Init
      /\ track = 7 => T7!Init
      /\ track = 8 => T8!Init
      /\ track = 9 => T9!Init
  BY DEF Init
<1> QED BY <1>1, <1>2, TailInit, SpreadInit, GapInit, InsuranceInit, SkewInit, StrangleInit,
           EventInit DEF TracksInv

\* A step of a track keeps its invariant and the promises of its steps.
LEMMA TracksStep ==
  TracksInv /\ Next =>
    /\ TracksInv'
    /\ track' = track
    /\ track = 3 => T3!CooldownKept
    /\ track = 8 => T8!StrangleMovesWithSignals
    /\ track = 9 => T9!EventMovesWithSignals
<1> SUFFICES ASSUME TracksInv, Next
             PROVE  /\ TracksInv'
                    /\ track' = track
                    /\ track = 3 => T3!CooldownKept
                    /\ track = 8 => T8!StrangleMovesWithSignals
                    /\ track = 9 => T9!EventMovesWithSignals
  OBVIOUS
<1>1. track' = track /\ track \in Tracks
  BY DEF Next, TracksInv
<1>2. CASE track = 1
  BY <1>1, <1>2, TailNext DEF Next, TracksInv, Tracks
<1>3. CASE track = 3
  BY <1>1, <1>3, SpreadNext DEF Next, TracksInv, Tracks
<1>4. CASE track = 5
  BY <1>1, <1>4, GapNext DEF Next, TracksInv, Tracks
<1>5. CASE track = 6
  BY <1>1, <1>5, InsuranceNext DEF Next, TracksInv, Tracks
<1>6. CASE track = 7
  BY <1>1, <1>6, SkewNext DEF Next, TracksInv, Tracks
<1>7. CASE track = 8
  BY <1>1, <1>7, StrangleNext DEF Next, TracksInv, Tracks
<1>8. CASE track = 9
  BY <1>1, <1>8, EventNext DEF Next, TracksInv, Tracks
<1> QED BY <1>1, <1>2, <1>3, <1>4, <1>5, <1>6, <1>7, <1>8 DEF Tracks

LEMMA TracksStutter == TracksInv /\ UNCHANGED vars => TracksInv'
<1> SUFFICES ASSUME TracksInv, UNCHANGED vars PROVE TracksInv'
  OBVIOUS
<1>0. UNCHANGED <<track, clock, state, signals, history>>
  BY DEF vars
<1>1. TailInv => TailInv'
  BY <1>0 DEF TailInv, T1!TypeOK, T1!HedgeIsSignalled
<1>2. SpreadInv => SpreadInv'
  BY <1>0 DEF SpreadInv, T3!TypeOK, T3!StopHonoured
<1>3. GapInv => GapInv'
  BY <1>0 DEF GapInv, T5!TypeOK, T5!InsideBarriers, T5!ProfitLocked
<1>4. InsuranceInv => InsuranceInv'
  BY <1>0 DEF InsuranceInv, T6!TypeOK, T6!WatermarkTracksPeak, T6!ArmedStopFires
<1>5. SkewInv => SkewInv'
  BY <1>0 DEF SkewInv, T7!TypeOK, T7!InsuranceSignalled, T7!SkewSentOnce
<1>6. StrangleInv => StrangleInv'
  BY <1>0 DEF StrangleInv, T8!TypeOK, T8!StopOfPresentStrikes
<1>7. EventInv => EventInv'
  BY <1>0 DEF EventInv, T9!TypeOK, T9!OncePerDay, T9!EventLocked
<1> QED BY <1>0, <1>1, <1>2, <1>3, <1>4, <1>5, <1>6, <1>7 DEF TracksInv

LEMMA TracksInductive == TracksInv /\ [Next]_vars => TracksInv'
  BY TracksStep, TracksStutter

LEMMA TracksHold == Spec => []TracksInv
  BY TracksInit, TracksInductive, PTL DEF Spec

\* Whatever a feed delivers, each track keeps its record of itself well formed.
THEOREM TracksTyped == Spec => []TypeOK
<1>1. TracksInv => TypeOK
  <2> SUFFICES ASSUME TracksInv PROVE TypeOK
    OBVIOUS
  <2>1. /\ track = 1 => T1!TypeOK
        /\ track = 3 => T3!TypeOK
        /\ track = 5 => T5!TypeOK
        /\ track = 6 => T6!TypeOK
        /\ track = 7 => T7!TypeOK
        /\ track = 8 => T8!TypeOK
        /\ track = 9 => T9!TypeOK
    BY DEF TracksInv, TailInv, SpreadInv, GapInv, InsuranceInv, SkewInv, StrangleInv, EventInv
  <2>2. track \in Tracks
    BY DEF TracksInv
  <2> QED BY <2>1, <2>2 DEF TypeOK, Tracks
<1> QED BY <1>1, TracksHold, PTL

\* For any prices, profits and spreads, in any order and however far apart two
\* ticks are: an armed gain is never given back beyond its stop, an open
\* position is inside its barriers, and the mark a stop is judged by is that of
\* the present position.
THEOREM StopsAreHonoured == Spec => []StopsHonoured
<1>1. TracksInv => GainLocked
  BY DEF TracksInv, GainLocked, GapInv, InsuranceInv, EventInv
<1>2. TracksInv => WithinBarriers
  BY DEF TracksInv, WithinBarriers, SpreadInv, GapInv
<1>3. TracksInv => MarkOfPresentPosition
  BY DEF TracksInv, MarkOfPresentPosition, InsuranceInv, StrangleInv
<1>4. TracksInv => StopsHonoured
  BY <1>1, <1>2, <1>3 DEF StopsHonoured
<1> QED BY <1>4, TracksHold, PTL

\* For any feed, what a strategy takes itself to hold is what its signals asked
\* for and did not close.
THEOREM BeliefIsOfSignals == Spec => BeliefFollowsSignals
<1>1. TracksInv => BeliefIsSignalled
  BY DEF TracksInv, BeliefIsSignalled, TailInv, SkewInv
<1>2. TracksInv /\ Next => (/\ track = 8 => T8!StrangleMovesWithSignals
                            /\ track = 9 => T9!EventMovesWithSignals)
  BY TracksStep
<1>3. TracksInv /\ [Next]_vars => [ /\ track = 8 => T8!StrangleMovesWithSignals
                                    /\ track = 9 => T9!EventMovesWithSignals ]_vars
  BY <1>2
<1>4. Spec => []BeliefIsSignalled
  BY <1>1, TracksHold, PTL
<1>5. Spec => BeliefMovesWithSignals
  BY <1>3, TracksHold, PTL DEF Spec, BeliefMovesWithSignals
<1> QED BY <1>4, <1>5 DEF BeliefFollowsSignals

\* For any feed, nothing is entered too often on a date, after the close, or
\* within the cooldown of the last exit.
THEOREM EntriesAreRationed == Spec => EntriesRationed
<1>1. TracksInv => Rationed
  <2>1. TailInv => T1!HedgesPerDay
    <3>1. TailInv => state \in T1!Track1State /\ history.entries = state.count
      BY DEF TailInv, T1!TypeOK
    <3>2. state \in T1!Track1State => state.count \in 0..MaxHedges
      BY DEF T1!Track1State
    <3> QED BY <3>1, <3>2, TailAssumption DEF T1!HedgesPerDay
  <2> QED BY <2>1 DEF TracksInv, Rationed, SkewInv, EventInv
<1>2. TracksInv => FlatAfterClose
  BY DEF TracksInv, FlatAfterClose, SpreadInv, T3!FlatAfterClose
<1>3. TracksInv /\ [Next]_vars => [track = 3 => T3!CooldownKept]_vars
  BY TracksStep
<1>4. Spec => [](Rationed /\ FlatAfterClose)
  BY <1>1, <1>2, TracksHold, PTL
<1>5. Spec => CooldownRespected
  BY <1>3, TracksHold, PTL DEF Spec, CooldownRespected
<1> QED BY <1>4, <1>5 DEF EntriesRationed
==============================================================================
