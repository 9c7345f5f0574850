------------------------ MODULE OrderAdmissionProofs ------------------------
(***************************************************************************)
(* For any strategies, plans, limits and quantities: a stopped day sends   *)
(* nothing; a tick's orders are its approved signals and never oppose each *)
(* other; a plan leaves no hole; and positions stay within their limit     *)
(* where each order was judged as it went, by what was held.  AdmissionInv *)
(* says what keeps a judgement true until the order is sent: the view of a *)
(* tick in progress is still the present one, and a plan in progress was   *)
(* admitted on a day that has not been stopped since.  QueueInv says what  *)
(* the queue in progress holds, PlanInv how far the plan has gone,         *)
(* IdsOfTicks that a context's own command went at most once, LimitInv     *)
(* what each order that is open would make of the position.                *)
(***************************************************************************)
EXTENDS OrderAdmission, FiniteSetTheorems, SequenceTheorems, TLAPS

Running == ~engine.kill /\ account > -MaxDailyLoss

CallTyped ==
  /\ call = [kind |-> call.kind, view |-> call.view,
             signals |-> call.signals, commands |-> call.commands]
  /\ call.kind \in {"idle", "tick", "group"}
  /\ call.kind = "idle" => call = Idle

HistoryTyped ==
  history = [sent |-> history.sent, groups |-> history.groups,
             plan |-> history.plan, blind |-> history.blind,
             unseen |-> history.unseen]

JudgementHolds ==
  /\ call.kind = "tick" => call.view = View
  /\ call.kind = "group" => Running

AdmissionInv ==
  /\ engine \in Engines
  /\ account \in Int
  /\ CallTyped
  /\ HistoryTyped
  /\ JudgementHolds
-----------------------------------------------------------------------------
\* The gate approves nothing when stopped: by the switch, or because what the
\* account shows alone reaches the limit.
LEMMA ApprovedMeansRunning ==
  ASSUME engine \in Engines, account \in Int, NEW order, NEW diet, NEW reducible,
         NEW positionsShown,
         ApprovedQty(order, engine, View.account, positionsShown, diet, reducible) > 0
  PROVE  Running
<1>1. View.account.realized = account
  BY DEF View, AccountShown
<1>2. ~Stopped(engine, View.account)
  BY DEF ApprovedQty
<1>3. ~engine.kill /\ ~(TotalLoss(engine, View.account) >= MaxDailyLoss)
  BY <1>2 DEF Stopped
<1>4. engine.loss \in Nat /\ MaxDailyLoss \in Nat
  BY RiskConfigAssumption DEF Engines, ConfigAdmitted
<1>5. TotalLoss(engine, View.account) = engine.loss + (IF account < 0 THEN -account ELSE 0)
  BY <1>1 DEF TotalLoss
<1>6. account > -MaxDailyLoss
  BY <1>3, <1>4, <1>5
<1> QED
  BY <1>3, <1>6 DEF Running

LEMMA InitAdmission == Init => AdmissionInv
  BY DEF Init, AdmissionInv, Engines, CallTyped, HistoryTyped, JudgementHolds, Idle

\* The queue moves on: the call ends or keeps its kind and view.
LEMMA NextCommandsKeeps ==
  ASSUME CallTyped, call # Idle, call' = NextCommands
  PROVE  /\ CallTyped'
         /\ call'.kind = "idle" \/ (call'.kind = call.kind /\ call'.view = call.view)
<1>1. CASE Len(call.commands) = 1
  BY <1>1 DEF CallTyped, NextCommands, Idle
<1>2. CASE Len(call.commands) # 1
  <2>1. call' = [call EXCEPT !.commands = Tail(call.commands)]
    BY <1>2 DEF NextCommands
  <2> DEFINE next == [kind |-> call.kind, view |-> call.view, signals |-> call.signals,
                      commands |-> Tail(call.commands)]
  <2>2. call' = next
    BY <2>1 DEF CallTyped
  <2>3. call.kind # "idle"
    BY DEF CallTyped
  <2> QED
    BY <2>2, <2>3 DEF CallTyped
<1> QED
  BY <1>1, <1>2

\* While a call is in progress, nothing moves what it was judged by.
LEMMA CallStep ==
  ASSUME AdmissionInv, Deny \/ Route \/ Fail
  PROVE  AdmissionInv'
<1>1. /\ UNCHANGED <<engine, account, positions>>
      /\ call # Idle
      /\ call' = NextCommands \/ call' = Idle
  BY DEF Deny, Route, Fail
<1>2. View' = View /\ Running' = Running
  BY <1>1 DEF View, AccountShown, UsedMargin, PositionsShown, Held, Running
<1>3. /\ CallTyped'
      /\ call'.kind = "idle" \/ (call'.kind = call.kind /\ call'.view = call.view)
  <2>1. CASE call' = NextCommands
    BY <1>1, <2>1, NextCommandsKeeps DEF AdmissionInv
  <2>2. CASE call' = Idle
    BY <2>2 DEF CallTyped, Idle
  <2> QED
    BY <1>1, <2>1, <2>2
<1>4. JudgementHolds'
  BY <1>2, <1>3 DEF JudgementHolds, AdmissionInv
<1>5. HistoryTyped'
  BY DEF Deny, Route, Fail, HistoryTyped, AdmissionInv
<1> QED
  BY <1>1, <1>3, <1>4, <1>5 DEF AdmissionInv

LEMMA TickStep ==
  ASSUME AdmissionInv, NEW sequence, NEW run, NEW sources, Tick(sequence, run, sources)
  PROVE  AdmissionInv'
<1> DEFINE signals == Collected(sequence, run)
           begun == [kind |-> "tick", view |-> View, signals |-> signals,
                     commands |-> Commands(signals)]
<1>1. /\ UNCHANGED <<engine, account, positions>>
      /\ call' = Idle \/ call' = begun
  BY DEF Tick
<1>2. View' = View
  BY <1>1 DEF View, AccountShown, UsedMargin, PositionsShown, Held
<1> HIDE DEF signals
<1>3. CallTyped'
  BY <1>1 DEF CallTyped, Idle
<1>4. JudgementHolds'
  BY <1>1, <1>2 DEF JudgementHolds, Idle
<1>5. HistoryTyped'
  BY DEF Tick, HistoryTyped, AdmissionInv
<1> QED
  BY <1>1, <1>3, <1>4, <1>5 DEF AdmissionInv

\* A plan is begun only when each of its legs was approved.
LEMMA GroupStep ==
  ASSUME AdmissionInv, NEW sides, NEW instruments, NEW quantities, NEW diet, NEW reducible,
         Group(sides, instruments, quantities, diet, reducible)
  PROVE  AdmissionInv'
<1> DEFINE legs == [n \in DOMAIN instruments |->
                      Leg(history.groups + 1, n, instruments[n], sides[n], quantities[n])]
           approved == [n \in DOMAIN legs |->
                          ApprovedQty(legs[n], engine, View.account, View.positions,
                                      diet, reducible)]
           commands == Submitted(legs, approved)
           begun == [kind |-> "group", view |-> View, signals |-> {}, commands |-> commands]
<1>1. /\ UNCHANGED <<engine, account, positions>>
      /\ call' = IF commands = <<>> THEN Idle ELSE begun
  BY DEF Group
<1>2. CallTyped'
  BY <1>1 DEF CallTyped, Idle
<1>3. HistoryTyped'
  BY DEF Group, HistoryTyped, AdmissionInv
<1>4. CASE commands = <<>>
  BY <1>1, <1>2, <1>3, <1>4 DEF AdmissionInv, JudgementHolds, Idle
<1>5. CASE commands # <<>>
  <2>1. \A n \in DOMAIN legs : approved[n] > 0
    BY <1>5 DEF Submitted
  <2>2. DOMAIN instruments # {}
    <3> SUFFICES ASSUME DOMAIN instruments = {} PROVE FALSE
      OBVIOUS
    <3>1. commands = legs /\ legs = [n \in {} |-> legs[n]]
      BY <2>1 DEF Submitted
    <3>2. commands = <<>>
      BY <3>1
    <3> QED
      BY <1>5, <3>2
  <2>3. PICK n \in DOMAIN instruments : TRUE
    BY <2>2
  <2>4. ApprovedQty(legs[n], engine, View.account, View.positions, diet, reducible) > 0
    BY <2>1, <2>3
  <2>5. Running
    BY <2>4, ApprovedMeansRunning DEF AdmissionInv
  <2> HIDE DEF commands
  <2>6. call'.kind = "group"
    BY <1>1, <1>5
  <2> QED
    BY <1>1, <1>2, <1>3, <2>5, <2>6 DEF AdmissionInv, JudgementHolds, Running
<1> QED
  BY <1>4, <1>5

\* What comes between calls: it leaves no call in progress.
Between ==
  \/ \E o \in open : Fill(o) \/ Refuse(o)
  \/ \E told \in BOOLEAN : Lose(told)
  \/ TriggerKillSwitch \/ ResetKillSwitch
  \/ \E track \in TrackIds, on \in BOOLEAN : SetEnabled(track, on)

LEMMA BetweenStep ==
  ASSUME AdmissionInv, Between
  PROVE  AdmissionInv'
<1>1. call = Idle /\ call' = Idle
  BY DEF Between, Fill, Refuse, Lose, TriggerKillSwitch, ResetKillSwitch, SetEnabled
<1>2. engine' \in Engines /\ account' \in Int
  <2>1. CASE \E told \in BOOLEAN : Lose(told)
    BY <2>1 DEF Lose, AdmissionInv, Engines
  <2>2. CASE TriggerKillSwitch \/ ResetKillSwitch
    BY <2>2 DEF TriggerKillSwitch, ResetKillSwitch, AdmissionInv, Engines
  <2>3. CASE UNCHANGED <<engine, account>>
    BY <2>3 DEF AdmissionInv
  <2> QED
    BY <2>1, <2>2, <2>3 DEF Between, Fill, Refuse, SetEnabled
<1>3. HistoryTyped'
  BY DEF Between, Fill, Refuse, Lose, TriggerKillSwitch, ResetKillSwitch, SetEnabled,
         HistoryTyped, AdmissionInv
<1> QED
  BY <1>1, <1>2, <1>3 DEF AdmissionInv, CallTyped, JudgementHolds, Idle

LEMMA NextAdmission == AdmissionInv /\ [Next]_vars => AdmissionInv'
<1> SUFFICES ASSUME AdmissionInv, [Next]_vars PROVE AdmissionInv'
  OBVIOUS
<1>1. ASSUME NEW sequence \in 1..MaxTicks, NEW run \in Runs, NEW sources \in BOOLEAN,
             Tick(sequence, run, sources)
      PROVE  AdmissionInv'
  BY <1>1, TickStep
<1>2. ASSUME NEW sides \in [1..Cardinality(Instruments) -> Sides],
             NEW instruments \in SetToSeqs(Instruments),
             NEW quantities \in [1..Cardinality(Instruments) -> LegQuantities],
             NEW diet \in BOOLEAN, NEW reducible \in BOOLEAN,
             Group(sides, instruments, quantities, diet, reducible)
      PROVE  AdmissionInv'
  BY <1>2, GroupStep
<1>3. CASE Deny \/ Route \/ Fail
  BY <1>3, CallStep
<1>4. CASE Between
  BY <1>4, BetweenStep
<1>5. CASE UNCHANGED vars
  <2>1. View' = View /\ Running' = Running
    BY <1>5 DEF vars, View, AccountShown, UsedMargin, PositionsShown, Held, Running
  <2> QED
    BY <1>5, <2>1 DEF vars, AdmissionInv, CallTyped, HistoryTyped, JudgementHolds
<1> QED
  BY <1>1, <1>2, <1>3, <1>4, <1>5 DEF Next, Between

LEMMA SendsWhileRunning ==
  ASSUME AdmissionInv, [Next]_vars, history'.sent # history.sent
  PROVE  Running
<1>1. ASSUME Route PROVE Running
  <2> DEFINE c == Head(call.commands)
  <2>1. call # Idle /\ Judged(c) > 0
    BY <1>1 DEF Route
  <2>2. CASE call.kind = "group"
    BY <2>2 DEF AdmissionInv, JudgementHolds
  <2>3. CASE call.kind = "tick"
    <3>1. call.view = View
      BY <2>3 DEF AdmissionInv, JudgementHolds
    <3>2. ApprovedQty(c, engine, View.account, View.positions, FALSE, FALSE) > 0
      BY <2>1, <2>3, <3>1 DEF Judged
    <3> QED
      BY <3>2, ApprovedMeansRunning DEF AdmissionInv
  <2> QED
    BY <2>1, <2>2, <2>3 DEF AdmissionInv, CallTyped
<1>2. ASSUME NEW sides, NEW instruments, NEW quantities, NEW diet, NEW reducible,
             Group(sides, instruments, quantities, diet, reducible)
      PROVE  FALSE
  BY <1>2 DEF Group, AdmissionInv, HistoryTyped
<1>3. CASE UNCHANGED vars
  BY <1>3 DEF vars
<1>4. CASE \E sequence \in 1..MaxTicks, run \in Runs, sources \in BOOLEAN :
             Tick(sequence, run, sources)
  BY <1>4 DEF Tick
<1>5. CASE Deny \/ Fail \/ Between
  BY <1>5 DEF Deny, Fail, Between, Fill, Refuse, Lose, TriggerKillSwitch,
              ResetKillSwitch, SetEnabled
<1> QED
  BY <1>1, <1>2, <1>3, <1>4, <1>5 DEF Next, Between
-----------------------------------------------------------------------------
\* Nothing leaves for the broker with the kill switch on or the day's loss at
\* its limit, neither from a tick nor from a plan, however long ago the order
\* was judged.
THEOREM StoppedDaySendsNothing == Spec => StoppedMeansSilent
<1>1. AdmissionInv /\ [Next]_vars =>
        [history'.sent # history.sent => ~engine.kill /\ account > -MaxDailyLoss]_vars
  BY SendsWhileRunning DEF Running
<1> QED
  BY <1>1, InitAdmission, NextAdmission, PTL DEF Spec, StoppedMeansSilent
-----------------------------------------------------------------------------

LEMMA PriorityIsInteger == \A track : Priority(track) \in Int
  BY DEF Priority

SignalSet == [id : 1..Len(Tracks), track : TrackIds, tick : 1..MaxTicks,
              instrument : Instruments, side : Sides, qty : Nat]

\* Signals of one tick: finitely many, numbered differently.
OneTick(signals) ==
  /\ signals \subseteq SignalSet
  /\ IsFiniteSet(signals)
  /\ \A s, t \in signals : s.id = t.id => s = t
  /\ \A s, t \in signals : s.tick = t.tick

LEMMA BeforeIsOrder ==
  ASSUME NEW signals, OneTick(signals)
  PROVE  /\ \A s \in signals : ~Before(s, s)
         /\ \A s, t \in signals : s # t => Before(s, t) \/ Before(t, s)
         /\ \A s, t, u \in signals : Before(s, t) /\ Before(t, u) => Before(s, u)
<1>1. \A s \in signals : s.id \in Nat /\ s.qty \in Nat /\ Priority(s.track) \in Int
  BY PriorityIsInteger DEF OneTick, SignalSet
<1>2. \A s, t \in signals : s # t => s.id # t.id
  BY DEF OneTick
<1>3. \A s \in signals : ~Before(s, s)
  BY <1>1 DEF Before
<1>4. \A s, t \in signals : s # t => Before(s, t) \/ Before(t, s)
  BY <1>1, <1>2 DEF Before
<1>5. \A s, t, u \in signals : Before(s, t) /\ Before(t, u) => Before(s, u)
  BY <1>1 DEF Before
<1> QED
  BY <1>3, <1>4, <1>5

Below(s, signals) == {t \in signals : Before(t, s)}

\* Ranks are all taken: for each place there is a signal with as many before it.
LEMMA EveryRankIsTaken ==
  ASSUME NEW signals, OneTick(signals), NEW n \in 1..Cardinality(signals)
  PROVE  \E s \in signals : Cardinality(Below(s, signals)) + 1 = n
<1> DEFINE Rank == [s \in signals |-> Cardinality(Below(s, signals)) + 1]
           Places == 1..Cardinality(signals)
<1>1. IsFiniteSet(signals) /\ Cardinality(signals) \in Nat
  BY FS_CardinalityType DEF OneTick
<1>2. ASSUME NEW s \in signals
      PROVE  /\ IsFiniteSet(Below(s, signals)) /\ Cardinality(Below(s, signals)) \in Nat
             /\ Cardinality(Below(s, signals)) < Cardinality(signals)
  <2>1. Below(s, signals) \subseteq signals /\ s \notin Below(s, signals)
    BY BeforeIsOrder DEF Below
  <2> QED
    BY <2>1, <1>1, FS_Subset, FS_CardinalityType
<1>3. ASSUME NEW s \in signals, NEW t \in signals, Before(s, t)
      PROVE  Cardinality(Below(s, signals)) < Cardinality(Below(t, signals))
  <2>1. Below(s, signals) \subseteq Below(t, signals)
    BY <1>3, BeforeIsOrder DEF Below
  <2>2. s \in Below(t, signals) /\ s \notin Below(s, signals)
    BY <1>3, BeforeIsOrder DEF Below
  <2> QED
    BY <2>1, <2>2, <1>2, FS_Subset
<1>4. Rank \in Injection(signals, Places)
  <2>1. \A s \in signals : Rank[s] \in Places
    BY <1>1, <1>2
  <2>2. \A s, t \in signals : s # t => Rank[s] # Rank[t]
    BY <1>2, <1>3, BeforeIsOrder
  <2> QED
    BY <2>1, <2>2 DEF Injection, IsInjective
<1>5. IsFiniteSet(Places) /\ Cardinality(Places) = Cardinality(signals)
  BY <1>1, FS_Interval
<1>6. Rank \in Surjection(signals, Places)
  <2> HIDE DEF Rank, Places
  <2> QED
    BY <1>4, <1>5, FS_Injection
<1>7. \A p \in Places : \E s \in signals : Rank[s] = p
  <2> HIDE DEF Rank, Places
  <2> QED
    BY <1>6 DEF Surjection
<1> QED
  BY <1>7

LEMMA ApprovedAreSignals ==
  ASSUME NEW signals, OneTick(signals)
  PROVE  Approved(signals) \subseteq signals /\ OneTick(Approved(signals))
<1>1. Approved(signals) \subseteq signals
  BY DEF Approved
<1> HIDE DEF Approved
<1>2. IsFiniteSet(Approved(signals))
  BY <1>1, FS_Subset DEF OneTick
<1> QED
  BY <1>1, <1>2 DEF OneTick

\* The commands of a tick are those of its approved signals.
LEMMA RankedAreApproved ==
  ASSUME NEW signals, OneTick(signals)
  PROVE  /\ DOMAIN Ranked(signals) = 1..Cardinality(Approved(signals))
         /\ Cardinality(Approved(signals)) \in Nat
         /\ \A n \in DOMAIN Ranked(signals) : Ranked(signals)[n] \in Approved(signals)
<1> DEFINE approved == Approved(signals)
           Rank(s) == Cardinality({t \in approved : Before(t, s)}) + 1
<1>1. Cardinality(approved) \in Nat
  BY ApprovedAreSignals, FS_CardinalityType DEF OneTick
<1>2. ASSUME NEW n \in 1..Cardinality(approved)
      PROVE  (CHOOSE s \in approved : Rank(s) = n) \in approved
  <2>1. OneTick(approved)
    BY ApprovedAreSignals
  <2> HIDE DEF approved
  <2>2. \E s \in approved : Cardinality(Below(s, approved)) + 1 = n
    BY <2>1, EveryRankIsTaken
  <2>3. \E s \in approved : Rank(s) = n
    BY <2>2 DEF Below
  <2> QED
    BY <2>3
<1>3. Ranked(signals) = [n \in 1..Cardinality(approved) |-> CHOOSE s \in approved : Rank(s) = n]
  BY DEF Ranked
<1> HIDE DEF approved, Rank
<1> QED
  BY <1>1, <1>2, <1>3 DEF approved

\* On an instrument somebody's claim stands.
LEMMA ClaimStands ==
  ASSUME NEW signals, OneTick(signals), NEW s \in signals
  PROVE  \E c \in signals : c.instrument = s.instrument /\ Claims(c, signals)
<1> DEFINE J == {t \in signals : t.instrument = s.instrument}
<1>1. J \subseteq signals /\ s \in J
  OBVIOUS
<1>2. OneTick(J) /\ IsFiniteSet(J) /\ Cardinality(J) \in Nat
  BY <1>1, FS_Subset, FS_CardinalityType DEF OneTick
<1>3. Cardinality(J) # 0
  BY <1>1, <1>2, FS_EmptySet
<1>4. PICK c \in J : Cardinality(Below(c, J)) + 1 = 1
  <2> HIDE DEF J
  <2> QED
    BY <1>2, <1>3, EveryRankIsTaken
<1>5. Below(c, J) = {}
  <2>1. Below(c, J) \subseteq J
    BY DEF Below
  <2>2. IsFiniteSet(Below(c, J)) /\ Cardinality(Below(c, J)) \in Nat
    BY <2>1, <1>2, FS_Subset, FS_CardinalityType
  <2>3. Below(c, J) = {}
    <3> DEFINE B == Below(c, J)
    <3>1. IsFiniteSet(B) /\ Cardinality(B) = 0
      BY <2>2, <1>4
    <3> HIDE DEF B
    <3>2. B = {}
      BY <3>1, FS_EmptySet
    <3> QED
      BY <3>2 DEF B
  <2> QED
    BY <2>3
<1>6. Claims(c, signals)
  BY <1>5 DEF Claims, Below
<1> QED
  BY <1>4, <1>6

LEMMA RejectedForBetterOnes ==
  ASSUME NEW signals, OneTick(signals), NEW s \in signals \ Approved(signals)
  PROVE  \E t \in Approved(signals) :
           /\ t.instrument = s.instrument /\ t.side # s.side
           /\ \/ Priority(t.track) < Priority(s.track)
              \/ Priority(t.track) = Priority(s.track) /\ t.qty >= s.qty
<1>1. PICK c \in signals : c.instrument = s.instrument /\ Claims(c, signals)
  BY ClaimStands
<1>2. c \in Approved(signals) /\ c.side # s.side
  BY <1>1 DEF Approved
<1>3. ~Before(s, c) /\ s # c
  BY <1>1, <1>2 DEF Claims
<1>4. Before(c, s)
  BY <1>3, BeforeIsOrder
<1>5. s.qty \in Nat /\ c.qty \in Nat
  BY DEF OneTick, SignalSet
<1> QED
  BY <1>1, <1>2, <1>4, <1>5 DEF Before

\* Whatever the signals of a tick, the arbiter never approves two of opposite
\* sides on one instrument.
THEOREM ArbiterNeverOpposes ==
  ASSUME NEW signals, OneTick(signals)
  PROVE  \A s, t \in Approved(signals) : s.instrument = t.instrument => s.side = t.side
<1> SUFFICES ASSUME NEW s \in Approved(signals), NEW t \in Approved(signals),
                    s.instrument = t.instrument
             PROVE  s.side = t.side
  OBVIOUS
<1>1. PICK c \in signals :
        c.instrument = s.instrument /\ Claims(c, signals) /\ c.side = s.side
  BY DEF Approved
<1>2. PICK d \in signals :
        d.instrument = t.instrument /\ Claims(d, signals) /\ d.side = t.side
  BY DEF Approved
<1>3. ~Before(c, d) /\ ~Before(d, c)
  BY <1>1, <1>2 DEF Claims
<1> QED
  BY <1>1, <1>2, <1>3, BeforeIsOrder

-----------------------------------------------------------------------------
\* What a tick collects is numbered differently, from 1 to the number of
\* strategies.
LEMMA PlacesDiffer ==
  ASSUME NEW run
  PROVE  /\ \A i \in Producing(run) : Place(i, run) \in 1..Len(Tracks)
         /\ \A i, j \in Producing(run) : Place(i, run) = Place(j, run) => i = j
         /\ IsFiniteSet(Producing(run))
<1> DEFINE P == Producing(run)
           Upto(i) == {j \in P : j <= i}
<1>0. DOMAIN Tracks = 1..Len(Tracks) /\ Len(Tracks) \in Nat
  BY AdmissionAssumption
<1>1. P \subseteq 1..Len(Tracks)
  BY <1>0 DEF Producing
<1>2. IsFiniteSet(1..Len(Tracks)) /\ Cardinality(1..Len(Tracks)) = Len(Tracks)
  <2> DEFINE k == Len(Tracks)
  <2>1. k \in Nat
    BY <1>0
  <2> HIDE DEF k
  <2>2. IsFiniteSet(1..k) /\ Cardinality(1..k) = k
    BY <2>1, FS_Interval
  <2> QED
    BY <2>2 DEF k
<1>3. IsFiniteSet(P) /\ Cardinality(P) <= Len(Tracks) /\ Cardinality(P) \in Nat
  BY <1>1, <1>2, FS_Subset, FS_CardinalityType
<1> HIDE DEF P
<1>7. \A i \in P : i \in Int
  <2> DEFINE k == Len(Tracks)
  <2>1. k \in Nat /\ P \subseteq 1..k
    BY <1>0, <1>1
  <2> HIDE DEF k
  <2> QED
    BY <2>1
<1>4. ASSUME NEW i \in P
      PROVE  /\ IsFiniteSet(Upto(i)) /\ Cardinality(Upto(i)) \in 1..Len(Tracks)
             /\ i \in Upto(i) /\ Cardinality(Upto(i)) \in Nat
  <2>1. Upto(i) \subseteq P /\ i \in Upto(i)
    BY <1>7
  <2>2. IsFiniteSet(Upto(i)) /\ Cardinality(Upto(i)) \in Nat /\ Cardinality(Upto(i)) <= Cardinality(P)
    BY <2>1, <1>3, FS_Subset, FS_CardinalityType
  <2>3. Cardinality(Upto(i)) # 0
    BY <2>1, <2>2, FS_EmptySet
  <2> QED
    BY <2>1, <2>2, <2>3, <1>3
<1>5. ASSUME NEW i \in P, NEW j \in P, i < j
      PROVE  Cardinality(Upto(i)) < Cardinality(Upto(j))
  <2>0. i \in Int /\ j \in Int
    BY <1>7
  <2>1. Upto(i) \subseteq Upto(j)
    BY <1>5, <1>7
  <2>2. j \notin Upto(i) /\ j \in Upto(j)
    BY <1>5, <1>4, <2>0
  <2>3. IsFiniteSet(Upto(j)) /\ Cardinality(Upto(j)) \in Nat /\ Cardinality(Upto(i)) \in Nat
    BY <1>4
  <2> HIDE DEF Upto
  <2> QED
    BY <2>1, <2>2, <2>3, FS_Subset
<1>6. \A i \in P : Place(i, run) = Cardinality(Upto(i))
  BY DEF Place, P
<1> HIDE DEF Upto
<1>8. \A i, j \in P : Place(i, run) = Place(j, run) => i = j
  <2> SUFFICES ASSUME NEW i \in P, NEW j \in P, Place(i, run) = Place(j, run), i # j
               PROVE  FALSE
    OBVIOUS
  <2>1. i < j \/ j < i
    BY <1>7
  <2>2. Cardinality(Upto(i)) \in Nat /\ Cardinality(Upto(j)) \in Nat
    BY <1>4
  <2> QED
    BY <2>1, <2>2, <1>5, <1>6
<1> QED
  BY <1>3, <1>4, <1>6, <1>8 DEF P

LEMMA CollectedIsOneTick ==
  ASSUME NEW sequence \in 1..MaxTicks, NEW run \in Runs
  PROVE  OneTick(Collected(sequence, run))
<1>1. CASE Refused(run)
  BY <1>1, FS_EmptySet DEF Collected, OneTick
<1>2. CASE ~Refused(run)
  <2> DEFINE P == Producing(run)
             Made(i) == [id |-> Place(i, run), track |-> Tracks[i], tick |-> sequence,
                         instrument |-> run[i].instrument, side |-> run[i].side,
                         qty |-> run[i].qty]
  <2>1. Collected(sequence, run) = {Made(i) : i \in P}
    BY <1>2 DEF Collected, Signals
  <2>2. DOMAIN Tracks = 1..Len(Tracks) /\ P \subseteq DOMAIN Tracks
    BY AdmissionAssumption DEF Producing
  <2>3. ASSUME NEW i \in P
        PROVE  run[i].instrument \in Instruments /\ run[i].side \in Sides /\ run[i].qty \in Nat
    <3>1. run[i].how # "unsound" /\ Produces(run[i]) /\ run[i] \in Outcomes
      BY <1>2, <2>2 DEF Refused, Producing, Runs
    <3>2. run[i] \in [how : {"signal"}, instrument : Instruments, side : Sides, qty : Quantities]
      BY <3>1 DEF Outcomes, Produces
    <3> QED
      BY <3>2, AdmissionAssumption
  <2>4. \A i \in P : Tracks[i] \in TrackIds
    <3> HIDE DEF P
    <3> QED
      BY <2>2 DEF TrackIds
  <2>5. /\ \A i \in P : Place(i, run) \in 1..Len(Tracks)
        /\ \A i, j \in P : Place(i, run) = Place(j, run) => i = j
        /\ IsFiniteSet(P)
    BY PlacesDiffer
  <2>6. {Made(i) : i \in P} \subseteq SignalSet
    <3> HIDE DEF P
    <3>1. ASSUME NEW i \in P PROVE Made(i) \in SignalSet
      <4>1. /\ Place(i, run) \in 1..Len(Tracks) /\ Tracks[i] \in TrackIds
            /\ run[i].instrument \in Instruments /\ run[i].side \in Sides /\ run[i].qty \in Nat
        BY <2>3, <2>4, <2>5
      <4> QED
        BY <4>1 DEF SignalSet
    <3> QED
      BY <3>1
  <2>7. \A i \in P : Made(i).id = Place(i, run) /\ Made(i).tick = sequence
    OBVIOUS
  <2> HIDE DEF P, Made
  <2>8. IsFiniteSet({Made(i) : i \in P})
    <3> DEFINE f == [i \in P |-> Made(i)]
               T == {Made(i) : i \in P}
    <3>1. f \in Surjection(P, T)
      BY DEF Surjection
    <3> HIDE DEF f, T
    <3>2. IsFiniteSet(T)
      BY <3>1, <2>5, FS_Surjection
    <3> QED
      BY <3>2 DEF T
  <2> QED
    BY <2>1, <2>5, <2>6, <2>7, <2>8 DEF OneTick
<1> QED
  BY <1>1, <1>2

-----------------------------------------------------------------------------
\* Induction over the naturals, on a set: a set with 0 and the successor of
\* each of its numbers has them all.
LEMMA Climbs ==
  ASSUME NEW S, 0 \in S, \A n \in Nat : n \in S => n + 1 \in S
  PROVE  Nat \subseteq S
<1> DEFINE Missing == {0..n : n \in Nat \ S}
<1> SUFFICES ASSUME Nat \ S # {} PROVE FALSE
  OBVIOUS
<1>1. Missing # {} /\ Missing \subseteq FiniteSubsetsOf(Nat)
  <2>1. \A n \in Nat : 0..n \in SUBSET Nat /\ IsFiniteSet(0..n)
    BY FS_Interval
  <2>2. \A n \in Nat : 0..n \in FiniteSubsetsOf(Nat)
    BY <2>1 DEF FiniteSubsetsOf
  <2> QED BY <2>2
<1>2. PICK X \in Missing : \A Y \in Missing : <<Y, X>> \notin StrictSubsetOrdering(Nat)
  <2> HIDE DEF Missing
  <2> QED BY <1>1, WFMin, FS_StrictSubsetOrderingWellFounded
<1>3. PICK x \in Nat \ S : X = 0..x
  BY <1>2
<1>4. x # 0 /\ x - 1 \in Nat /\ (x - 1) + 1 = x
  BY <1>3
<1>5. CASE x - 1 \in S
  BY <1>5, <1>4, <1>3
<1>6. CASE x - 1 \notin S
  <2>1. 0..(x - 1) \in Missing
    BY <1>6, <1>4
  <2> DEFINE A == 0..(x - 1)
             B == 0..x
  <2>2. A \in SUBSET Nat /\ B \in SUBSET Nat /\ A \subseteq B /\ x \in B /\ x \notin A
    BY <1>4
  <2> HIDE DEF A, B
  <2>3. <<A, B>> \in StrictSubsetOrdering(Nat)
    BY <2>2 DEF StrictSubsetOrdering
  <2> QED
    BY <2>1, <2>3, <1>2, <1>3 DEF A, B
<1> QED
  BY <1>5, <1>6

\* The fold a sum is, as the library defines it.
Part(F, w, s) == IF s = {} THEN 0
                 ELSE LET x == CHOOSE x \in s : TRUE IN Size(w[x]) + F[s \ {x}]
Adds(F, w, X) == F = [s \in SUBSET X |-> Part(F, w, s)]
AddsUpto(F, w, X, n) ==
  /\ F = [s \in SUBSET X |-> F[s]]
  /\ \A s \in SUBSET X : Cardinality(s) <= n => F[s] = Part(F, w, s)

\* Without the element the fold takes first.
Rest(s) == s \ {CHOOSE x \in s : TRUE}

LEMMA RestIsSmaller ==
  ASSUME NEW X, IsFiniteSet(X), NEW s \in SUBSET X, s # {}
  PROVE  /\ (CHOOSE x \in s : TRUE) \in X
         /\ Rest(s) \in SUBSET X
         /\ Cardinality(s) \in Nat
         /\ Cardinality(Rest(s)) = Cardinality(s) - 1
<1>1. IsFiniteSet(s)
  BY FS_Subset
<1>2. (CHOOSE x \in s : TRUE) \in s
  OBVIOUS
<1> DEFINE x == CHOOSE x \in s : TRUE
<1>3. x \in s
  BY <1>2
<1> HIDE DEF x
<1>4. Cardinality(s) \in Nat
  BY <1>1, FS_CardinalityType
<1>5. Cardinality(s \ {x}) = Cardinality(s) - 1
  BY <1>1, <1>3, FS_RemoveElement
<1> QED
  BY <1>3, <1>4, <1>5 DEF Rest, x

\* Over a finite set there is such a sum, built up by the size of the subset.
LEMMA SumExists ==
  ASSUME NEW X, IsFiniteSet(X), NEW w
  PROVE  \E F : Adds(F, w, X)
<1> DEFINE S == {n \in Nat : \E F : AddsUpto(F, w, X, n)}
<1>1. \A s \in SUBSET X : IsFiniteSet(s) /\ Cardinality(s) \in Nat /\ Cardinality(s) <= Cardinality(X)
                           /\ (Cardinality(s) = 0 <=> s = {})
  BY FS_Subset, FS_CardinalityType, FS_EmptySet
<1>2. 0 \in S
  <2> DEFINE F == [s \in SUBSET X |-> 0]
  <2>1. \A s \in SUBSET X : Cardinality(s) <= 0 => s = {} /\ F[s] = 0
    BY <1>1
  <2>2. F = [s \in SUBSET X |-> F[s]]
    OBVIOUS
  <2> HIDE DEF F
  <2>3. AddsUpto(F, w, X, 0)
    BY <2>1, <2>2 DEF AddsUpto, Part
  <2> QED
    BY <2>3
<1>3. ASSUME NEW n \in Nat, n \in S PROVE n + 1 \in S
  <2>1. PICK F : AddsUpto(F, w, X, n)
    BY <1>3
  <2> DEFINE G == [s \in SUBSET X |-> IF Cardinality(s) = n + 1 THEN Part(F, w, s) ELSE F[s]]
  <2>g. \A s \in SUBSET X :
          G[s] = IF Cardinality(s) = n + 1 THEN Part(F, w, s) ELSE F[s]
    OBVIOUS
  <2>4. G = [s \in SUBSET X |-> G[s]]
    OBVIOUS
  <2> HIDE DEF G
  <2>2. ASSUME NEW s \in SUBSET X, Cardinality(s) <= n + 1 PROVE G[s] = Part(G, w, s)
    <3>1. G[s] = Part(F, w, s)
      <4>1. CASE Cardinality(s) = n + 1
        BY <4>1, <2>g
      <4>2. CASE Cardinality(s) <= n
        BY <4>2, <2>g, <2>1, <1>1 DEF AddsUpto
      <4> QED
        BY <4>1, <4>2, <2>2, <1>1
    <3>2. CASE s = {}
      BY <3>1, <3>2 DEF Part
    <3>3. CASE s # {}
      <4>1. Rest(s) \in SUBSET X /\ Cardinality(Rest(s)) = Cardinality(s) - 1
        BY <3>3, RestIsSmaller
      <4>2. G[Rest(s)] = F[Rest(s)]
        BY <4>1, <2>2, <1>1, <2>g
      <4>3. Part(G, w, s) = Part(F, w, s)
        BY <4>2, <3>3 DEF Rest, Part
      <4> QED
        BY <4>3, <3>1
    <3> QED
      BY <3>2, <3>3
  <2>3. AddsUpto(G, w, X, n + 1)
    BY <2>2, <2>4 DEF AddsUpto
  <2> QED
    BY <2>3
<1>4. Nat \subseteq S
  <2> HIDE DEF S
  <2> QED
    BY <1>2, <1>3, Climbs
<1>5. Cardinality(X) \in Nat
  BY FS_CardinalityType
<1>6. PICK F : AddsUpto(F, w, X, Cardinality(X))
  BY <1>4, <1>5
<1>7. F = [s \in SUBSET X |-> Part(F, w, s)]
  BY <1>6, <1>1 DEF AddsUpto
<1> QED
  BY <1>7 DEF Adds

\* It is a natural number.
LEMMA SumIsNatural ==
  ASSUME NEW X, IsFiniteSet(X), NEW w \in [X -> Int], NEW F, Adds(F, w, X)
  PROVE  F[X] \in Nat
<1> DEFINE S == {n \in Nat : \A s \in SUBSET X : Cardinality(s) = n => F[s] \in Nat}
<1>1. \A s \in SUBSET X : IsFiniteSet(s) /\ Cardinality(s) \in Nat
                           /\ (Cardinality(s) = 0 <=> s = {})
  BY FS_Subset, FS_CardinalityType, FS_EmptySet
<1>2. 0 \in S
  BY <1>1 DEF Adds, Part
<1>3. ASSUME NEW n \in Nat, n \in S PROVE n + 1 \in S
  <2>1. ASSUME NEW s \in SUBSET X, Cardinality(s) = n + 1 PROVE F[s] \in Nat
    <3> DEFINE x == CHOOSE x \in s : TRUE
    <3>1. s # {}
      BY <2>1, <1>1
    <3>2. x \in X /\ Rest(s) \in SUBSET X /\ Cardinality(Rest(s)) = n
      BY <3>1, <2>1, RestIsSmaller
    <3>3. F[Rest(s)] \in Nat
      BY <3>2, <1>3
    <3>4. F[s] = Size(w[x]) + F[Rest(s)]
      BY <3>1 DEF Adds, Part, Rest
    <3>5. w[x] \in Int
      BY <3>2
    <3> HIDE DEF x
    <3>6. Size(w[x]) \in Nat
      BY <3>5 DEF Size
    <3> QED
      BY <3>3, <3>4, <3>6
  <2> QED
    BY <2>1
<1>4. Nat \subseteq S
  <2> HIDE DEF S
  <2> QED
    BY <1>2, <1>3, Climbs
<1> QED
  BY <1>4, <1>1

\* So is the library's fold of the sizes.
LEMMA FoldIsSum ==
  ASSUME NEW X, IsFiniteSet(X), NEW held \in [X -> Int]
  PROVE  FoldFunction(LAMBDA p, sum : Size(p) + sum, 0, held) \in Nat
<1> DEFINE G == CHOOSE iter : Adds(iter, held, X)
<1>1. DOMAIN held = X
  OBVIOUS
<1>2. FoldFunction(LAMBDA p, sum : Size(p) + sum, 0, held) = G[X]
  BY <1>1 DEF FoldFunction, FoldFunctionOnSet, MapThenFoldSet, Adds, Part
<1>3. Adds(G, held, X)
  BY SumExists
<1> HIDE DEF G
<1> QED
  BY <1>2, <1>3, SumIsNatural

-----------------------------------------------------------------------------
PositionsTyped == positions \in [Instruments -> Int]

\* The margin in use is a natural number, whatever is held.
LEMMA UsedMarginIsNatural ==
  ASSUME PositionsTyped
  PROVE  UsedMargin \in Nat
<1>1. FoldFunction(LAMBDA p, sum : Size(p) + sum, 0, positions) \in Nat
  BY FoldIsSum, AdmissionAssumption DEF PositionsTyped
<1>2. MarginUnit \in Nat
  BY RiskConfigAssumption DEF ConfigAdmitted
<1> DEFINE f == FoldFunction(LAMBDA p, sum : Size(p) + sum, 0, positions)
<1>3. UsedMargin = MarginUnit * f
  BY DEF UsedMargin, MarginOf
<1> HIDE DEF f
<1>4. f \in Nat
  BY <1>1 DEF f
<1> QED
  BY <1>2, <1>3, <1>4

LEMMA FreeIsInteger ==
  ASSUME PositionsTyped, account \in Int
  PROVE  View.account.free \in Int /\ View.positions = PositionsShown
<1>1. View.account.free = Balance + account - UsedMargin
  BY DEF View, AccountShown
<1> QED
  BY <1>1, UsedMarginIsNatural, AdmissionAssumption DEF View

Shown(i) == [side |-> IF positions[i] > 0 THEN "BUY" ELSE "SELL", qty |-> Size(positions[i])]

\* The instrument's key finds what is held of it, if anything is.
Seen(i) == i \in Held => Current(KeyOf[i], PositionsShown) = Shown(i)

\* What the gate takes to be held under a key is nothing, or is held.
LEMMA CurrentIsShown ==
  ASSUME PositionsTyped, NEW key
  PROVE  Current(key, PositionsShown).qty \in Nat
<1>1. DOMAIN PositionsShown = Held /\ \A j \in Held : PositionsShown[j] = Shown(j)
  BY DEF PositionsShown, Shown
<1>2. \A j \in Held : Shown(j).qty \in Nat
  BY DEF Held, Shown, Size, PositionsTyped
<1>3. IsFiniteSet(Held)
  BY AdmissionAssumption, FS_Subset DEF Held
<1>4. Cardinality(Held) = 1 => (CHOOSE held \in Held : TRUE) \in Held
  BY <1>3, FS_EmptySet
<1>5. Nothing.qty \in Nat
  BY DEF Nothing
<1>6. CASE key \in Held
  BY <1>6, <1>1, <1>2 DEF Current
<1>7. CASE key \notin Held /\ Cardinality(Held) = 1
  <2> DEFINE j == CHOOSE held \in Held : TRUE
  <2>1. Current(key, PositionsShown) = PositionsShown[j]
    BY <1>7, <1>1 DEF Current
  <2>2. j \in Held
    BY <1>4, <1>7
  <2> HIDE DEF j
  <2> QED
    BY <2>1, <2>2, <1>1, <1>2
<1>8. CASE key \notin Held /\ Cardinality(Held) # 1
  BY <1>8, <1>1, <1>5 DEF Current
<1> QED
  BY <1>6, <1>7, <1>8

\* The gate approves at most what is asked, all of it or nothing if it may not
\* reduce.
LEMMA PlacedWithin ==
  ASSUME NEW side, NEW qty \in Nat, NEW current, current.qty \in Nat, NEW reducible
  PROVE  /\ WithinPosition(side, qty, current, reducible) \in 0..qty
         /\ ~reducible => WithinPosition(side, qty, current, reducible) \in {0, qty}
<1>1. MaxPositionPerInstrument \in Nat
  BY RiskConfigAssumption DEF ConfigAdmitted
<1> QED
  BY <1>1 DEF WithinPosition

LEMMA AffordedWithin ==
  ASSUME NEW qty \in Nat, NEW shown, shown.free \in Int, NEW reducible
  PROVE  /\ WithinMargin(qty, shown, reducible) \in 0..qty
         /\ ~reducible => WithinMargin(qty, shown, reducible) \in {0, qty}
<1>1. MarginUnit \in Nat \ {0}
  BY RiskConfigAssumption DEF ConfigAdmitted
<1> DEFINE a == shown.free \div MarginUnit
<1>2. a \in Int
  BY <1>1
<1> HIDE DEF a
<1>3. WithinMargin(qty, shown, reducible) =
        IF MarginUnit * qty <= shown.free THEN qty
        ELSE IF reducible /\ 0 < a /\ a < qty THEN a ELSE 0
  BY DEF WithinMargin, a
<1> QED
  BY <1>2, <1>3

LEMMA ApprovedWithin ==
  ASSUME NEW order, order.qty \in Nat, NEW shown, shown.free \in Int,
         NEW held, Current(KeyOf[order.instrument], held).qty \in Nat,
         NEW diet, NEW reducible
  PROVE  LET q == ApprovedQty(order, engine, shown, held, diet, reducible) IN
         /\ q \in 0..order.qty
         /\ q <= MaxOrderQty
         /\ q > 0 => order.qty <= MaxOrderQty
         /\ ~reducible => q \in {0, order.qty}
<1> DEFINE current == Current(KeyOf[order.instrument], held)
           placed == WithinPosition(order.side, order.qty, current, reducible)
           afforded == WithinMargin(placed, shown, reducible)
           q == ApprovedQty(order, engine, shown, held, diet, reducible)
<1>0. MaxOrderQty \in Nat
  BY RiskConfigAssumption DEF ConfigAdmitted
<1>1. placed \in 0..order.qty /\ (~reducible => placed \in {0, order.qty})
  BY PlacedWithin
<1>2. afforded \in 0..placed /\ (~reducible => afforded \in {0, placed})
  <2> HIDE DEF placed
  <2>1. placed \in Nat
    BY <1>1
  <2> QED
    BY <2>1, AffordedWithin
<1>3. q = 0 \/ (q = afforded /\ order.qty <= MaxOrderQty)
  BY <1>0 DEF ApprovedQty
<1> HIDE DEF placed, afforded, q
<1>4. /\ q \in 0..order.qty /\ q <= MaxOrderQty
      /\ q > 0 => order.qty <= MaxOrderQty
      /\ ~reducible => q \in {0, order.qty}
  BY <1>0, <1>1, <1>2, <1>3
<1> QED
  BY <1>4 DEF q

-----------------------------------------------------------------------------
Moved(position, side, qty) == IF side = "BUY" THEN position + qty ELSE position - qty
Within(position) == Size(position) <= MaxPositionPerInstrument

\* A smaller order keeps the limit where a larger one would.
LEMMA LessMovesLess ==
  ASSUME NEW p \in Int, NEW side \in Sides, NEW q \in Nat, NEW r \in 0..q,
         Within(p), Within(Moved(p, side, q))
  PROVE  Within(Moved(p, side, r))
  BY RiskConfigAssumption DEF ConfigAdmitted, Within, Moved, Size

\* What the position limit leaves of an order keeps the limit.
LEMMA PlacedKeepsLimit ==
  ASSUME PositionsTyped, NEW i \in Instruments, NEW side \in Sides, NEW qty \in Nat,
         NEW reducible, Within(positions[i]), Seen(i),
         qty <= MaxOrderQty, MaxOrderQty <= MaxPositionPerInstrument
  PROVE  Within(Moved(positions[i], side,
                      WithinPosition(side, qty, Current(KeyOf[i], PositionsShown), reducible)))
<1> DEFINE p == positions[i]
           current == Current(KeyOf[i], PositionsShown)
           placed == WithinPosition(side, qty, current, reducible)
<1>0. MaxPositionPerInstrument \in Nat /\ MaxOrderQty \in Nat
  BY RiskConfigAssumption DEF ConfigAdmitted
<1>1. p \in Int
  BY DEF PositionsTyped
<1>2. placed \in 0..qty
  BY PlacedWithin, CurrentIsShown
<1>3. CASE i \in Held
  <2>1. current = Shown(i)
    BY <1>3 DEF Seen
  <2>2. current.qty = Size(p) /\ current.side = IF p > 0 THEN "BUY" ELSE "SELL"
    BY <2>1 DEF Shown
  <2> HIDE DEF current, p
  <2>3. placed = qty => ExpectedQty(side, qty, current) <= MaxPositionPerInstrument \/ qty = 0
                        \/ (MaxPositionPerInstrument - current.qty < qty /\ qty = MaxPositionPerInstrument - current.qty)
    BY <1>0 DEF WithinPosition
  <2>4. CASE ExpectedQty(side, qty, current) <= MaxPositionPerInstrument
    <3>1. placed = qty
      BY <2>4 DEF WithinPosition
    <3>2. Within(Moved(p, side, qty))
      BY <2>2, <2>4, <1>0, <1>1 DEF ExpectedQty, Within, Moved, Size, Sides
    <3> QED
      BY <3>1, <3>2 DEF p, current
  <2>5. CASE ~(ExpectedQty(side, qty, current) <= MaxPositionPerInstrument)
    <3>1. placed = 0 \/ (placed = MaxPositionPerInstrument - current.qty /\ placed > 0)
      BY <2>5 DEF WithinPosition
    <3>2. Within(p)
      BY DEF p
    <3> HIDE DEF placed
    <3>3. Within(Moved(p, side, placed))
      BY <3>1, <3>2, <2>2, <1>0, <1>1 DEF Within, Moved, Size, Sides
    <3> QED
      BY <3>3 DEF p, current, placed
  <2> QED
    BY <2>4, <2>5
<1>4. CASE i \notin Held
  <2>1. p = 0
    BY <1>4 DEF Held
  <2> HIDE DEF placed, p
  <2>2. Within(Moved(p, side, placed))
    BY <2>1, <1>0, <1>2 DEF Within, Moved, Size
  <2> QED
    BY <2>2 DEF p, placed
<1> QED
  BY <1>3, <1>4

\* So does what the gate approves, if no order exceeds the position limit.
LEMMA ApprovedKeepsLimit ==
  ASSUME PositionsTyped, NEW order, order.instrument \in Instruments, order.side \in Sides,
         order.qty \in Nat, NEW shown, shown.free \in Int, NEW diet, NEW reducible,
         Within(positions[order.instrument]), Seen(order.instrument),
         MaxOrderQty <= MaxPositionPerInstrument
  PROVE  Within(Moved(positions[order.instrument], order.side,
                      ApprovedQty(order, engine, shown, PositionsShown, diet, reducible)))
<1> DEFINE i == order.instrument
           current == Current(KeyOf[i], PositionsShown)
           placed == WithinPosition(order.side, order.qty, current, reducible)
           afforded == WithinMargin(placed, shown, reducible)
           q == ApprovedQty(order, engine, shown, PositionsShown, diet, reducible)
<1>0. MaxOrderQty \in Nat
  BY RiskConfigAssumption DEF ConfigAdmitted
<1>1. placed \in Nat
  BY PlacedWithin, CurrentIsShown
<1>2. afforded \in 0..placed
  <2> HIDE DEF placed
  <2> QED
    BY <1>1, AffordedWithin
<1>3. q = 0 \/ (q = afforded /\ order.qty <= MaxOrderQty)
  BY <1>0 DEF ApprovedQty
<1>4. positions[i] \in Int
  BY DEF PositionsTyped
<1>5. order.qty <= MaxOrderQty => Within(Moved(positions[i], order.side, placed))
  BY PlacedKeepsLimit
<1> HIDE DEF placed, afforded, q
<1>6. CASE q = 0
  <2>1. Moved(positions[i], order.side, 0) = positions[i]
    BY <1>4 DEF Moved
  <2> QED
    BY <2>1, <1>6 DEF q
<1>7. CASE q = afforded /\ order.qty <= MaxOrderQty
  <2>1. Within(Moved(positions[i], order.side, afforded))
    BY <1>1, <1>2, <1>4, <1>5, <1>7, LessMovesLess
  <2> QED
    BY <2>1, <1>7 DEF q
<1> QED
  BY <1>3, <1>6, <1>7
-----------------------------------------------------------------------------
\* What a queue in progress holds: commands of the tick's approved signals, or
\* legs of the plan, each approved.
CommandSet ==
  [id : (1..(MaxTicks + MaxGroups)) \X (1..(Len(Tracks) + Cardinality(Instruments))),
   instrument : Instruments, side : Sides, qty : Nat, hedge : {FALSE}]

TradesTyped ==
  /\ enabled \subseteq TrackIds
  /\ account \in -MaxLoss..0
  /\ PositionsTyped
  /\ open \subseteq Orders
  /\ {o.id : o \in open} \subseteq history.sent
  /\ history.groups \in 0..MaxGroups
  /\ template \in {None} \cup Templates

QueueTyped ==
  call.kind # "idle" =>
    /\ call.view = View
    /\ call.commands \in Seq(CommandSet)
    /\ call.commands # <<>>

OfSignals(commands, signals) ==
  \A n \in DOMAIN commands : \E s \in Approved(signals) : commands[n] = Command(s)

TickInv ==
  /\ call.kind = "tick" => OneTick(call.signals) /\ OfSignals(call.commands, call.signals)
  /\ call.kind # "tick" => call.signals = {}

GroupInv ==
  call.kind = "group" =>
    \A n \in DOMAIN call.commands : call.commands[n].qty \in 1..MaxOrderQty

QueueInv == AdmissionInv /\ TradesTyped /\ QueueTyped /\ TickInv /\ GroupInv

LEMMA InitQueue == Init => QueueInv
  BY InitAdmission, AdmissionAssumption
  DEF Init, QueueInv, TradesTyped, QueueTyped, TickInv, GroupInv, Idle, PositionsTyped

\* The head of the queue, and what the gate makes of it.
LEMMA HeadOfQueue ==
  ASSUME QueueInv, call # Idle
  PROVE  /\ call.kind \in {"tick", "group"}
         /\ 1 \in DOMAIN call.commands
         /\ Head(call.commands) = call.commands[1]
         /\ Head(call.commands) \in CommandSet
<1>1. call.kind \in {"tick", "group"}
  BY DEF QueueInv, AdmissionInv, CallTyped
<1>2. call.commands \in Seq(CommandSet) /\ call.commands # <<>>
  BY <1>1 DEF QueueInv, QueueTyped
<1> DEFINE q == call.commands
<1> HIDE DEF q
<1>3. q \in Seq(CommandSet) /\ q # <<>>
  BY <1>2 DEF q
<1>4. 1 \in DOMAIN q /\ Head(q) = q[1] /\ Head(q) \in CommandSet
  BY <1>3, EmptySeq, LenProperties, HeadTailProperties
<1> QED
  BY <1>1, <1>4 DEF q

LEMMA JudgedWithin ==
  ASSUME QueueInv, call # Idle, Judged(Head(call.commands)) > 0
  PROVE  LET c == Head(call.commands) IN
         /\ Judged(c) \in 1..MaxOrderQty
         /\ Judged(c) <= c.qty
<1> DEFINE c == Head(call.commands)
<1>1. c \in CommandSet /\ c = call.commands[1] /\ 1 \in DOMAIN call.commands
      /\ call.kind \in {"tick", "group"}
  BY HeadOfQueue
<1>2. c.qty \in Nat
  BY <1>1 DEF CommandSet
<1>3. CASE call.kind = "group"
  <2>1. c.qty \in 1..MaxOrderQty
    BY <1>1, <1>3 DEF QueueInv, GroupInv
  <2>2. Judged(c) = c.qty
    BY <1>3 DEF Judged
  <2> QED
    BY <1>2, <2>1, <2>2
<1>4. CASE call.kind = "tick"
  <2>1. call.view = View
    BY <1>4 DEF QueueInv, QueueTyped
  <2>2. Judged(c) = ApprovedQty(c, engine, View.account, PositionsShown, FALSE, FALSE)
    BY <1>4, <2>1 DEF Judged, View
  <2>3. View.account.free \in Int
    BY FreeIsInteger DEF QueueInv, TradesTyped, AdmissionInv
  <2>4. Current(KeyOf[c.instrument], PositionsShown).qty \in Nat
    BY CurrentIsShown DEF QueueInv, TradesTyped
  <2> DEFINE q == ApprovedQty(c, engine, View.account, PositionsShown, FALSE, FALSE)
  <2>5. q \in 0..c.qty /\ q <= MaxOrderQty
    <3> DEFINE a == View.account
    <3> HIDE DEF a, c
    <3> QED
      BY <1>2, <2>3, <2>4, ApprovedWithin DEF a
  <2>6. MaxOrderQty \in Nat
    BY RiskConfigAssumption DEF ConfigAdmitted
  <2>7. q > 0
    BY <2>2
  <2> HIDE DEF q
  <2>8. q \in 1..MaxOrderQty /\ q <= c.qty
    BY <1>2, <2>5, <2>6, <2>7
  <2> QED
    BY <2>2, <2>8 DEF q
<1> QED
  BY <1>1, <1>3, <1>4

\* What Route sends: the head of the queue, at the judged quantity, or the
\* context's own command in its place.
Sends(order) ==
  LET c == Head(call.commands) IN
  /\ order \in Orders
  /\ order.id = c.id
  /\ order.qty = Judged(c) /\ Judged(c) <= c.qty
  /\ call.kind = "group" \/ template = None =>
       order.instrument = c.instrument /\ order.side = c.side
  /\ call.kind = "tick" /\ template # None => order.id = template.id
  /\ c.id \notin history.sent
  /\ open' = open \cup {order}
  /\ history' = [sent |-> history.sent \cup {c.id}, groups |-> history.groups,
                 plan |-> history.plan, blind |-> history.blind \cup Blind(c, order),
                 unseen |-> history.unseen \cup Unseen(order)]

LEMMA RouteSends ==
  ASSUME QueueInv, Route
  PROVE  \E order : Sends(order)
<1> DEFINE c == Head(call.commands)
           q == Judged(c)
           order == Projected(c, q)
<1>1. call # Idle /\ q > 0 /\ order # None
  BY DEF Route
<1>2. c \in CommandSet /\ call.kind \in {"tick", "group"}
  BY <1>1, HeadOfQueue
<1>3. q \in 1..MaxOrderQty /\ q <= c.qty
  BY <1>1, JudgedWithin
<1> DEFINE Own == [c EXCEPT !.qty = q]
           Theirs == [c EXCEPT !.instrument = template.instrument, !.side = template.side,
                               !.qty = q]
           Plain == call.kind = "group" \/ template = None
<1>4. /\ Plain => order = Own
      /\ ~Plain => order = Theirs /\ template.id = c.id
  <2> HIDE DEF c, q
  <2> QED
    BY <1>1, <1>2 DEF Projected
<1> HIDE DEF c, q
<1>5. order \in Orders /\ order.id = c.id /\ order.qty = q
      /\ (Plain => order.instrument = c.instrument /\ order.side = c.side)
      /\ (~Plain => order.id = template.id)
  <2> HIDE DEF order
  <2>1. CASE Plain
    BY <1>2, <1>3, <1>4, <2>1 DEF CommandSet, Orders
  <2>2. CASE ~Plain
    <3>1. template.instrument \in Instruments /\ template.side \in Sides
      BY <2>2, AdmissionAssumption DEF QueueInv, TradesTyped
    <3>2. order = Theirs /\ template.id = c.id
      BY <1>4, <2>2
    <3> QED
      BY <1>2, <1>3, <2>2, <3>1, <3>2 DEF CommandSet, Orders
  <2> QED
    BY <2>1, <2>2
<1>6. c.id \notin history.sent /\ open' = open \cup {order}
  BY <1>5 DEF Route, Known, c, q
<1> DEFINE blinded == Blind(c, order)
           missed == Unseen(order)
<1>7. history' = [history EXCEPT !.sent = @ \cup {c.id}, !.blind = @ \cup blinded,
                                 !.unseen = @ \cup missed]
  BY <1>5 DEF Route, c, q
<1>8. HistoryTyped
  BY DEF QueueInv, AdmissionInv
<1> HIDE DEF blinded, missed, order
<1>9. history' = [sent |-> history.sent \cup {c.id}, groups |-> history.groups,
                  plan |-> history.plan, blind |-> history.blind \cup blinded,
                  unseen |-> history.unseen \cup missed]
  BY <1>7, <1>8 DEF HistoryTyped
<1> QED
  BY <1>2, <1>3, <1>5, <1>6, <1>9 DEF Sends, c, q, blinded, missed

\* The queue moves on: the call ends, or its queue loses its head.
Follows(next) ==
  /\ next.kind = call.kind /\ next.view = call.view /\ next.signals = call.signals
  /\ next.commands \in Seq(CommandSet) /\ next.commands # <<>>
  /\ Len(next.commands) = Len(call.commands) - 1
  /\ \A n \in DOMAIN next.commands :
       n + 1 \in DOMAIN call.commands /\ next.commands[n] = call.commands[n + 1]

LEMMA QueueMovesOn ==
  ASSUME QueueInv, call # Idle, call' = NextCommands
  PROVE  call' = Idle \/ Follows(call')
<1> DEFINE q == call.commands
<1>1. q \in Seq(CommandSet) /\ q # <<>> /\ CallTyped
  BY HeadOfQueue DEF QueueInv, QueueTyped, AdmissionInv
<1> HIDE DEF q
<1>2. Len(q) \in Nat /\ DOMAIN q = 1..Len(q)
  BY <1>1, LenProperties
<1>3. /\ Tail(q) \in Seq(CommandSet) /\ Len(Tail(q)) = Len(q) - 1
      /\ \A i \in 1..Len(Tail(q)) : Tail(q)[i] = q[i + 1]
  BY <1>1, HeadTailProperties
<1>4. DOMAIN Tail(q) = 1..Len(Tail(q))
  BY <1>3, LenProperties
<1>5. CASE Len(q) = 1
  BY <1>5 DEF NextCommands, q
<1>6. CASE Len(q) # 1
  <2> DEFINE next == [kind |-> call.kind, view |-> call.view, signals |-> call.signals,
                      commands |-> Tail(q)]
  <2>1. call' = next
    BY <1>1, <1>6 DEF NextCommands, CallTyped, q
  <2>2. Len(q) # 0
    BY <1>1, EmptySeq
  <2>3. Tail(q) # <<>>
    <3>1. Len(Tail(q)) # 0
      BY <1>2, <1>3, <1>6
    <3>2. Len(<<>>) = 0
      OBVIOUS
    <3> QED
      BY <3>1, <3>2
  <2>4. \A n \in DOMAIN Tail(q) : n + 1 \in DOMAIN q /\ Tail(q)[n] = q[n + 1]
    BY <1>2, <1>3, <1>4
  <2> QED
    BY <1>3, <2>1, <2>3, <2>4 DEF Follows, q
<1> QED
  BY <1>5, <1>6

LEMMA RouteQueue ==
  ASSUME QueueInv, Route
  PROVE  TradesTyped'
<1>1. PICK order : Sends(order)
  BY RouteSends
<1>2. order \in Orders /\ open' = open \cup {order}
      /\ history'.sent = history.sent \cup {order.id} /\ history'.groups = history.groups
  BY <1>1 DEF Sends
<1>3. UNCHANGED <<enabled, account, positions, template>>
  BY DEF Route
<1> QED
  BY <1>2, <1>3 DEF QueueInv, TradesTyped, PositionsTyped

\* While a call is in progress its queue only shrinks.
LEMMA CallKeepsQueue ==
  ASSUME QueueInv, Deny \/ Route \/ Fail
  PROVE  QueueInv'
<1>1. /\ UNCHANGED <<enabled, engine, account, positions>>
      /\ call # Idle
      /\ call' = NextCommands \/ call' = Idle
  BY DEF Deny, Route, Fail
<1>2. View' = View
  BY <1>1 DEF View, AccountShown, UsedMargin, PositionsShown, Held
<1>3. AdmissionInv'
  BY CallStep DEF QueueInv
<1>4. TradesTyped'
  <2>1. CASE Route
    BY <2>1, RouteQueue
  <2>2. CASE Deny \/ Fail
    BY <2>2 DEF Deny, Fail, QueueInv, TradesTyped, PositionsTyped
  <2> QED
    BY <2>1, <2>2
<1>5. CASE call' = Idle
  BY <1>3, <1>4, <1>5 DEF QueueInv, QueueTyped, TickInv, GroupInv, Idle
<1>6. CASE Follows(call')
  <2>1. call.kind # "idle" /\ call'.kind = call.kind
    BY <1>6, <1>1, HeadOfQueue DEF Follows
  <2>2. QueueTyped'
    BY <1>2, <1>6, <2>1 DEF QueueInv, QueueTyped, Follows
  <2>3. TickInv'
    <3>1. OfSignals(call.commands, call.signals) => OfSignals(call'.commands, call.signals)
      BY <1>6 DEF OfSignals, Follows
    <3> QED
      BY <1>6, <3>1 DEF QueueInv, TickInv, Follows
  <2>4. GroupInv'
    BY <1>6 DEF QueueInv, GroupInv, Follows
  <2> QED
    BY <1>3, <1>4, <2>2, <2>3, <2>4 DEF QueueInv
<1> QED
  BY <1>1, <1>5, <1>6, QueueMovesOn

\* The queue a tick begins with.
LEMMA TickCommands ==
  ASSUME NEW sequence \in 1..MaxTicks, NEW run \in Runs
  PROVE  LET signals == Collected(sequence, run) IN
         /\ OneTick(signals)
         /\ OfSignals(Commands(signals), signals)
         /\ Commands(signals) \in Seq(CommandSet)
         /\ \A n \in DOMAIN Commands(signals) : Commands(signals)[n].id[1] \in 1..MaxTicks
<1> DEFINE signals == Collected(sequence, run)
           k == Cardinality(Approved(signals))
           ranked == Ranked(signals)
           commands == Commands(signals)
<1>1. OneTick(signals)
  BY CollectedIsOneTick
<1> HIDE DEF signals
<1>2. DOMAIN ranked = 1..k /\ k \in Nat /\ \A n \in DOMAIN ranked : ranked[n] \in Approved(signals)
  BY <1>1, RankedAreApproved
<1>3. commands = [n \in DOMAIN ranked |-> Command(ranked[n])]
  BY DEF Commands
<1>4. Approved(signals) \subseteq SignalSet
  BY <1>1, ApprovedAreSignals DEF OneTick
<1> HIDE DEF k, ranked, commands
<1>5. Len(Tracks) \in Nat /\ Cardinality(Instruments) \in Nat /\ MaxTicks \in Nat /\ MaxGroups \in Nat
  BY AdmissionAssumption, FS_CardinalityType
<1>6. ASSUME NEW s \in SignalSet
      PROVE  Command(s) \in CommandSet /\ Command(s).id[1] \in 1..MaxTicks
  <2>1. s.id \in 1..Len(Tracks) /\ s.tick \in 1..MaxTicks
        /\ s.instrument \in Instruments /\ s.side \in Sides /\ s.qty \in Nat
    BY DEF SignalSet
  <2>2. <<s.tick, s.id>> \in (1..(MaxTicks + MaxGroups)) \X (1..(Len(Tracks) + Cardinality(Instruments)))
    BY <1>5, <2>1
  <2> QED
    BY <2>1, <2>2 DEF Command, CommandSet
<1>7. \A n \in 1..k : commands[n] \in CommandSet /\ commands[n].id[1] \in 1..MaxTicks
  BY <1>2, <1>3, <1>4, <1>6
<1>8. commands \in [1..k -> CommandSet]
  BY <1>2, <1>3, <1>7
<1>9. commands \in Seq(CommandSet)
  BY <1>2, <1>8, SeqDef
<1>10. OfSignals(commands, signals)
  BY <1>2, <1>3 DEF OfSignals
<1>11. DOMAIN commands = 1..k
  BY <1>8
<1> QED
  BY <1>1, <1>7, <1>9, <1>10, <1>11 DEF commands, signals

LEMMA TickKeepsQueue ==
  ASSUME QueueInv, NEW sequence \in 1..MaxTicks, NEW run \in Runs, NEW sources,
         Tick(sequence, run, sources)
  PROVE  QueueInv'
<1> DEFINE signals == Collected(sequence, run)
           commands == Commands(signals)
           begun == [kind |-> "tick", view |-> View, signals |-> signals,
                     commands |-> commands]
<1>1. /\ UNCHANGED <<enabled, engine, account, positions, open, template, history>>
      /\ call' = Idle \/ (commands # <<>> /\ call' = begun)
  BY DEF Tick
<1>2. View' = View
  BY <1>1 DEF View, AccountShown, UsedMargin, PositionsShown, Held
<1>3. AdmissionInv'
  BY TickStep DEF QueueInv
<1>4. TradesTyped'
  BY <1>1 DEF QueueInv, TradesTyped, PositionsTyped
<1>5. OneTick(signals) /\ OfSignals(commands, signals) /\ commands \in Seq(CommandSet)
  BY TickCommands
<1>6. CASE call' = Idle
  BY <1>3, <1>4, <1>6 DEF QueueInv, QueueTyped, TickInv, GroupInv, Idle
<1>7. CASE commands # <<>> /\ call' = begun
  <2> HIDE DEF signals, commands
  <2>1. call'.kind = "tick" /\ call'.view = View /\ call'.signals = signals
        /\ call'.commands = commands
    BY <1>7
  <2> QED
    BY <1>2, <1>3, <1>4, <1>5, <1>7, <2>1 DEF QueueInv, QueueTyped, TickInv, GroupInv
<1> QED
  BY <1>1, <1>6, <1>7

-----------------------------------------------------------------------------
\* The queue a plan begins with: every leg in its place, approved, and whole.
Legs(sides, instruments, quantities) ==
  [n \in DOMAIN instruments |->
     Leg(history.groups + 1, n, instruments[n], sides[n], quantities[n])]

ApprovedOf(leg, diet, reducible) ==
  ApprovedQty(leg, engine, View.account, PositionsShown, diet, reducible)

AllApproved(legs, diet, reducible) ==
  \A n \in DOMAIN legs :
    /\ legs[n].qty \in 1..MaxOrderQty
    /\ ApprovedOf(legs[n], diet, reducible) \in 1..legs[n].qty

Reduced(legs, diet, reducible) ==
  {legs[n].instrument : n \in {m \in DOMAIN legs :
                                 ApprovedOf(legs[m], diet, reducible) < legs[m].qty}}

LEMMA GroupBegins ==
  ASSUME QueueInv,
         NEW sides \in [1..Cardinality(Instruments) -> Sides],
         NEW instruments \in SetToSeqs(Instruments),
         NEW quantities \in [1..Cardinality(Instruments) -> LegQuantities],
         NEW diet, NEW reducible,
         Group(sides, instruments, quantities, diet, reducible)
  PROVE  LET legs == Legs(sides, instruments, quantities)
             group == history.groups + 1
             k == Cardinality(Instruments) IN
         /\ k \in Nat /\ DOMAIN legs = 1..k
         /\ group \in 1..MaxGroups
         /\ \A n \in 1..k : legs[n] \in CommandSet /\ legs[n].id = <<MaxTicks + group, n>>
         /\ history' = [sent |-> history.sent, groups |-> group,
                        plan |-> [n \in 1..k |-> <<MaxTicks + group, n>>],
                        blind |-> history'.blind, unseen |-> history.unseen]
         /\ history.blind \subseteq history'.blind
         /\ \/ call' = Idle
            \/ /\ legs \in Seq(CommandSet) /\ legs # <<>>
               /\ AllApproved(legs, diet, reducible)
               /\ Reduced(legs, diet, reducible) \subseteq history'.blind
               /\ call' = [kind |-> "group", view |-> View, signals |-> {},
                           commands |-> legs]
         /\ UNCHANGED <<enabled, engine, account, positions, open, template>>
<1> DEFINE legs == Legs(sides, instruments, quantities)
           group == history.groups + 1
           k == Cardinality(Instruments)
           approved == [n \in DOMAIN legs |->
                          ApprovedQty(legs[n], engine, View.account, View.positions,
                                      diet, reducible)]
           commands == Submitted(legs, approved)
<1>1. k \in Nat /\ Len(Tracks) \in Nat /\ MaxTicks \in Nat /\ MaxGroups \in Nat
  BY AdmissionAssumption, FS_CardinalityType
<1>2. instruments \in [1..k -> Instruments]
  BY DEF SetToSeqs
<1>3. DOMAIN legs = 1..k
  BY <1>2 DEF Legs
<1>4. group \in 1..MaxGroups
  BY <1>1 DEF Group, QueueInv, TradesTyped
<1> HIDE DEF group, k
<1>5. ASSUME NEW n \in 1..k
      PROVE  /\ legs[n] \in CommandSet /\ legs[n].id = <<MaxTicks + group, n>>
             /\ legs[n].qty \in Nat
  <2>1. legs[n] = Leg(group, n, instruments[n], sides[n], quantities[n])
    BY <1>2 DEF Legs, group
  <2>2. instruments[n] \in Instruments /\ sides[n] \in Sides /\ quantities[n] \in Nat
    BY <1>2, AdmissionAssumption DEF k
  <2>3. <<MaxTicks + group, n>> \in (1..(MaxTicks + MaxGroups)) \X (1..(Len(Tracks) + k))
    BY <1>1, <1>4
  <2> QED
    BY <2>1, <2>2, <2>3 DEF Leg, CommandSet, k
<1> HIDE DEF legs
<1> DEFINE reduced == {legs[n].instrument : n \in {m \in DOMAIN commands :
                                                     approved[m] < commands[m].qty}}
<1>6. history' = [history EXCEPT !.groups = @ + 1, !.plan = [n \in DOMAIN legs |-> legs[n].id],
                                 !.blind = @ \cup reduced]
  BY DEF Group, legs, Legs
<1>7. [n \in DOMAIN legs |-> legs[n].id] = [n \in 1..k |-> <<MaxTicks + group, n>>]
  BY <1>3, <1>5
<1>9. /\ call' = IF commands = <<>> THEN Idle
                 ELSE [kind |-> "group", view |-> View, signals |-> {}, commands |-> commands]
      /\ UNCHANGED <<enabled, engine, account, positions, open, template>>
  BY DEF Group, legs, Legs
<1>10. ASSUME commands # <<>>
       PROVE  /\ commands = legs /\ legs \in Seq(CommandSet)
              /\ AllApproved(legs, diet, reducible)
              /\ Reduced(legs, diet, reducible) = reduced
  <2>1. \A n \in DOMAIN legs : approved[n] > 0
    BY <1>10 DEF Submitted
  <2>2. commands = legs
    BY <2>1 DEF Submitted
  <2>3. \A n \in DOMAIN legs : approved[n] = ApprovedOf(legs[n], diet, reducible)
    BY DEF View, ApprovedOf
  <2>4. ASSUME NEW n \in 1..k
        PROVE  approved[n] \in 1..legs[n].qty /\ legs[n].qty \in 1..MaxOrderQty
    <3> DEFINE leg == legs[n]
               a == View.account
               q == ApprovedQty(leg, engine, a, PositionsShown, diet, reducible)
    <3>1. approved[n] = q
      BY <1>3 DEF View
    <3>2. a.free \in Int
      BY FreeIsInteger DEF QueueInv, TradesTyped, AdmissionInv
    <3>3. Current(KeyOf[leg.instrument], PositionsShown).qty \in Nat
      BY CurrentIsShown DEF QueueInv, TradesTyped
    <3>4. leg.qty \in Nat
      BY <1>5
    <3> HIDE DEF leg, a
    <3>5. q \in 0..leg.qty /\ (q > 0 => leg.qty <= MaxOrderQty)
      BY <3>2, <3>3, <3>4, ApprovedWithin
    <3>6. MaxOrderQty \in Nat
      BY RiskConfigAssumption DEF ConfigAdmitted
    <3>7. q > 0
      BY <2>1, <3>1, <1>3
    <3> HIDE DEF q, approved
    <3>8. q \in 1..leg.qty /\ leg.qty \in 1..MaxOrderQty
      BY <3>4, <3>5, <3>6, <3>7
    <3> QED
      BY <3>1, <3>8 DEF q, leg, a
  <2> HIDE DEF approved
  <2>5. legs \in [1..k -> CommandSet]
    <3>1. legs = [n \in 1..k |-> legs[n]]
      BY <1>3 DEF legs, Legs
    <3> QED
      BY <1>5, <3>1
  <2>6. legs \in Seq(CommandSet)
    BY <2>5, <1>1, SeqDef DEF k
  <2>7. AllApproved(legs, diet, reducible)
    BY <1>3, <2>3, <2>4 DEF AllApproved
  <2>8. Reduced(legs, diet, reducible) = reduced
    <3> HIDE DEF commands
    <3> QED
      BY <2>2, <2>3 DEF Reduced
  <2> QED
    BY <2>2, <2>6, <2>7, <2>8
<1> HIDE DEF commands, reduced
<1>8. /\ history' = [sent |-> history.sent, groups |-> group,
                     plan |-> [n \in 1..k |-> <<MaxTicks + group, n>>],
                     blind |-> history'.blind, unseen |-> history.unseen]
      /\ history'.blind = history.blind \cup reduced
  BY <1>6, <1>7 DEF QueueInv, AdmissionInv, HistoryTyped, group
<1>11. \/ call' = Idle
       \/ /\ legs \in Seq(CommandSet) /\ legs # <<>>
          /\ AllApproved(legs, diet, reducible)
          /\ Reduced(legs, diet, reducible) \subseteq history'.blind
          /\ call' = [kind |-> "group", view |-> View, signals |-> {}, commands |-> legs]
  BY <1>8, <1>9, <1>10
<1> QED
  BY <1>1, <1>3, <1>4, <1>5, <1>8, <1>9, <1>11 DEF legs, group, k

LEMMA GroupKeepsQueue ==
  ASSUME QueueInv,
         NEW sides \in [1..Cardinality(Instruments) -> Sides],
         NEW instruments \in SetToSeqs(Instruments),
         NEW quantities \in [1..Cardinality(Instruments) -> LegQuantities],
         NEW diet, NEW reducible,
         Group(sides, instruments, quantities, diet, reducible)
  PROVE  QueueInv'
<1> DEFINE legs == Legs(sides, instruments, quantities)
           k == Cardinality(Instruments)
<1>1. /\ DOMAIN legs = 1..k
      /\ history.groups + 1 \in 1..MaxGroups
      /\ \A n \in 1..k : legs[n] \in CommandSet
      /\ history'.sent = history.sent /\ history'.groups = history.groups + 1
      /\ UNCHANGED <<enabled, engine, account, positions, open, template>>
      /\ \/ call' = Idle
         \/ /\ legs \in Seq(CommandSet) /\ legs # <<>>
            /\ AllApproved(legs, diet, reducible)
            /\ call' = [kind |-> "group", view |-> View, signals |-> {}, commands |-> legs]
  BY GroupBegins
<1> HIDE DEF legs, k
<1>2. View' = View
  BY <1>1 DEF View, AccountShown, UsedMargin, PositionsShown, Held
<1>3. AdmissionInv'
  BY GroupStep DEF QueueInv
<1>4. TradesTyped'
  BY <1>1 DEF QueueInv, TradesTyped, PositionsTyped
<1>5. CASE call' = Idle
  BY <1>3, <1>4, <1>5 DEF QueueInv, QueueTyped, TickInv, GroupInv, Idle
<1>6. CASE /\ legs \in Seq(CommandSet) /\ legs # <<>>
           /\ AllApproved(legs, diet, reducible)
           /\ call' = [kind |-> "group", view |-> View, signals |-> {}, commands |-> legs]
  <2>1. call'.kind = "group" /\ call'.view = View /\ call'.signals = {}
        /\ call'.commands = legs
    BY <1>6
  <2>2. \A n \in DOMAIN legs : legs[n].qty \in 1..MaxOrderQty
    BY <1>6 DEF AllApproved
  <2> QED
    BY <1>2, <1>3, <1>4, <1>6, <2>1, <2>2 DEF QueueInv, QueueTyped, TickInv, GroupInv
<1> QED
  BY <1>1, <1>5, <1>6

LEMMA BetweenKeepsQueue ==
  ASSUME QueueInv, Between
  PROVE  QueueInv'
<1>1. call = Idle /\ call' = Idle /\ UNCHANGED history
  BY DEF Between, Fill, Refuse, Lose, TriggerKillSwitch, ResetKillSwitch, SetEnabled
<1>2. AdmissionInv'
  BY BetweenStep DEF QueueInv
<1>3. TradesTyped'
  <2>1. ASSUME NEW o \in open, Fill(o) PROVE TradesTyped'
    <3>0. o \in Orders
      BY DEF QueueInv, TradesTyped
    <3>1. o.instrument \in Instruments /\ o.qty \in Int
      BY <3>0, RiskConfigAssumption DEF Orders, ConfigAdmitted
    <3>2. positions' \in [Instruments -> Int]
      BY <2>1, <3>1 DEF Fill, QueueInv, TradesTyped, PositionsTyped
    <3> QED
      BY <2>1, <3>2 DEF Fill, QueueInv, TradesTyped, PositionsTyped
  <2>2. ASSUME NEW o \in open, Refuse(o) PROVE TradesTyped'
    BY <2>2 DEF Refuse, QueueInv, TradesTyped, PositionsTyped
  <2>3. CASE \E told \in BOOLEAN : Lose(told)
    BY <2>3, AdmissionAssumption DEF Lose, QueueInv, TradesTyped, PositionsTyped
  <2>4. CASE \E track \in TrackIds, on \in BOOLEAN : SetEnabled(track, on)
    BY <2>4 DEF SetEnabled, QueueInv, TradesTyped, PositionsTyped
  <2>5. CASE TriggerKillSwitch \/ ResetKillSwitch
    BY <2>5 DEF TriggerKillSwitch, ResetKillSwitch, QueueInv, TradesTyped, PositionsTyped
  <2> QED
    BY <2>1, <2>2, <2>3, <2>4, <2>5 DEF Between
<1> QED
  BY <1>1, <1>2, <1>3 DEF QueueInv, QueueTyped, TickInv, GroupInv, Idle

LEMMA StutterKeepsQueue ==
  ASSUME QueueInv, UNCHANGED vars
  PROVE  QueueInv'
<1>1. View' = View
  BY DEF vars, View, AccountShown, UsedMargin, PositionsShown, Held
<1>2. AdmissionInv'
  BY NextAdmission DEF QueueInv
<1>3. /\ TradesTyped' /\ QueueTyped' /\ TickInv' /\ GroupInv'
  BY <1>1 DEF vars, QueueInv, TradesTyped, QueueTyped, TickInv, GroupInv, PositionsTyped
<1> QED
  BY <1>2, <1>3 DEF QueueInv

LEMMA NextQueue == QueueInv /\ [Next]_vars => QueueInv'
<1> SUFFICES ASSUME QueueInv, [Next]_vars PROVE QueueInv'
  OBVIOUS
<1>1. ASSUME NEW sequence \in 1..MaxTicks, NEW run \in Runs, NEW sources \in BOOLEAN,
             Tick(sequence, run, sources)
      PROVE  QueueInv'
  BY <1>1, TickKeepsQueue
<1>2. ASSUME NEW sides \in [1..Cardinality(Instruments) -> Sides],
             NEW instruments \in SetToSeqs(Instruments),
             NEW quantities \in [1..Cardinality(Instruments) -> LegQuantities],
             NEW diet \in BOOLEAN, NEW reducible \in BOOLEAN,
             Group(sides, instruments, quantities, diet, reducible)
      PROVE  QueueInv'
  BY <1>2, GroupKeepsQueue
<1>3. CASE Deny \/ Route \/ Fail
  BY <1>3, CallKeepsQueue
<1>4. CASE Between
  BY <1>4, BetweenKeepsQueue
<1>5. CASE UNCHANGED vars
  BY <1>5, StutterKeepsQueue
<1> QED
  BY <1>1, <1>2, <1>3, <1>4, <1>5 DEF Next, Between
-----------------------------------------------------------------------------
\* The legs of the last plan, and how far it has gone.
PlanAt(k, j) ==
  /\ history.plan = [n \in 1..k |-> <<MaxTicks + history.groups, n>>]
  /\ history.groups = 0 => k = 0
  /\ \A n \in 1..k : <<MaxTicks + history.groups, n>> \in history.sent <=> n <= j
  /\ call.kind = "group" =>
       /\ Len(call.commands) = k - j
       /\ \A n \in DOMAIN call.commands :
            call.commands[n].id = <<MaxTicks + history.groups, j + n>>

PlanInv == \E k \in Nat, j \in Nat : PlanAt(k, j)

IdsOfTicks ==
  /\ \A id \in history.sent : id[1] \in 1..(MaxTicks + history.groups)
  /\ call.kind = "tick" => \A n \in DOMAIN call.commands : call.commands[n].id[1] \in 1..MaxTicks
  /\ template # None => \A id \in history.sent : id[1] > MaxTicks \/ id = template.id

LEMMA InitPlan == Init => PlanInv /\ IdsOfTicks
<1> SUFFICES ASSUME Init PROVE PlanInv /\ IdsOfTicks
  OBVIOUS
<1>1. history.plan = [n \in 1..0 |-> <<MaxTicks + history.groups, n>>]
      /\ history.sent = {} /\ call.kind = "idle"
  BY DEF Init, Idle
<1>2. \A n \in 1..0 : FALSE
  OBVIOUS
<1>3. PlanAt(0, 0)
  BY <1>1, <1>2 DEF PlanAt
<1> QED
  BY <1>1, <1>3 DEF PlanInv, IdsOfTicks

\* A step that leaves history alone and does not begin a plan.
LEMMA PlanUntouched ==
  ASSUME PlanInv, IdsOfTicks, UNCHANGED <<history, template>>,
         \/ call'.kind = "idle"
         \/ /\ call'.kind = "tick"
            /\ \A n \in DOMAIN call'.commands : call'.commands[n].id[1] \in 1..MaxTicks
         \/ UNCHANGED call
  PROVE  PlanInv' /\ IdsOfTicks'
<1>1. PICK k \in Nat, j \in Nat : PlanAt(k, j)
  BY DEF PlanInv
<1>2. PlanAt(k, j)'
  <2>1. CASE UNCHANGED call
    BY <1>1, <2>1 DEF PlanAt
  <2>2. CASE call'.kind # "group"
    BY <1>1, <2>2 DEF PlanAt
  <2> QED
    BY <2>1, <2>2
<1>3. IdsOfTicks'
  <2>1. CASE UNCHANGED call
    BY <2>1 DEF IdsOfTicks
  <2>2. CASE call'.kind = "idle"
    BY <2>2 DEF IdsOfTicks
  <2>3. CASE call'.kind = "tick"
             /\ \A n \in DOMAIN call'.commands : call'.commands[n].id[1] \in 1..MaxTicks
    BY <2>3 DEF IdsOfTicks
  <2> QED
    BY <2>1, <2>2, <2>3
<1> QED
  BY <1>2, <1>3 DEF PlanInv

\* A leg of a plan is not denied any more.
LEMMA DenyKeepsPlan ==
  ASSUME QueueInv, PlanInv, IdsOfTicks, Deny \/ Fail
  PROVE  PlanInv' /\ IdsOfTicks'
<1>1. call # Idle /\ UNCHANGED <<history, template>>
  BY DEF Deny, Fail
<1>2. CASE call' = Idle
  BY <1>1, <1>2, PlanUntouched DEF Idle
<1>3. CASE Deny /\ Follows(call')
  <2>1. /\ call.kind \in {"tick", "group"}
        /\ Head(call.commands) = call.commands[1] /\ 1 \in DOMAIN call.commands
    BY <1>1, HeadOfQueue
  <2>2. call.kind = "tick"
    <3> SUFFICES ASSUME call.kind = "group" PROVE FALSE
      BY <2>1
    <3>1. Judged(Head(call.commands)) \in 1..MaxOrderQty
      BY <2>1 DEF Judged, QueueInv, GroupInv
    <3>2. Judged(Head(call.commands)) = 0
      BY <1>3 DEF Deny
    <3> QED
      BY <3>1, <3>2, RiskConfigAssumption DEF ConfigAdmitted
  <2>3. call'.kind = "tick" /\ \A n \in DOMAIN call'.commands : call'.commands[n].id[1] \in 1..MaxTicks
    BY <1>3, <2>2 DEF Follows, IdsOfTicks
  <2> QED
    BY <1>1, <2>3, PlanUntouched
<1> QED
  BY <1>1, <1>2, <1>3, QueueMovesOn DEF Deny, Fail

LEMMA RouteKeepsPlan ==
  ASSUME QueueInv, PlanInv, IdsOfTicks, Route
  PROVE  PlanInv' /\ IdsOfTicks'
<1> DEFINE c == Head(call.commands)
           g == MaxTicks + history.groups
<1>1. /\ call.kind \in {"tick", "group"}
      /\ c = call.commands[1] /\ 1 \in DOMAIN call.commands
      /\ call.commands \in Seq(CommandSet)
      /\ call # Idle
  BY HeadOfQueue DEF Route, QueueInv, QueueTyped
<1>2. PICK order : Sends(order)
  BY RouteSends
<1>3. /\ history'.sent = history.sent \cup {c.id} /\ history'.groups = history.groups
      /\ history'.plan = history.plan
      /\ call.kind = "tick" /\ template # None => c.id = template.id
  BY <1>2 DEF Sends
<1>10. UNCHANGED template
  BY DEF Route
<1>4. call' = Idle \/ Follows(call')
  BY <1>1, QueueMovesOn DEF Route
<1>5a. PICK k \in Nat, j \in Nat : PlanAt(k, j)
  BY DEF PlanInv
<1>5. /\ history.plan = [n \in 1..k |-> <<g, n>>]
      /\ history.groups = 0 => k = 0
      /\ \A n \in 1..k : <<g, n>> \in history.sent <=> n <= j
      /\ call.kind = "group" =>
           /\ Len(call.commands) = k - j
           /\ \A n \in DOMAIN call.commands : call.commands[n].id = <<g, j + n>>
  BY <1>5a DEF PlanAt
<1>6. MaxTicks \in Nat /\ history.groups \in Nat /\ g \in Nat /\ history.groups \in 0..MaxGroups
  BY AdmissionAssumption DEF QueueInv, TradesTyped
<1>7. Len(call.commands) \in Nat /\ DOMAIN call.commands = 1..Len(call.commands)
  BY <1>1, LenProperties
<1> HIDE DEF c
<1>8. CASE call.kind = "tick"
  <2>1. c.id[1] \in 1..MaxTicks
    BY <1>1, <1>8 DEF IdsOfTicks
  <2>2. \A n \in 1..k : <<g, n>> # c.id
    BY <1>5, <1>6, <2>1
  <2> HIDE DEF g
  <2>3. call'.kind # "group" /\ (call'.kind = "tick" => Follows(call'))
    BY <1>4, <1>8 DEF Idle, Follows
  <2>4. PlanAt(k, j)'
    BY <1>3, <1>5, <2>2, <2>3 DEF PlanAt, g
  <2>5. \A id \in history'.sent : id[1] \in 1..(MaxTicks + history'.groups)
    BY <1>3, <1>6, <2>1 DEF IdsOfTicks
  <2>6. call'.kind = "tick" =>
          \A n \in DOMAIN call'.commands : call'.commands[n].id[1] \in 1..MaxTicks
    BY <1>8, <2>3 DEF IdsOfTicks, Follows
  <2>7. template' # None => \A id \in history'.sent : id[1] > MaxTicks \/ id = template'.id
    BY <1>3, <1>8, <1>10 DEF IdsOfTicks
  <2> QED
    BY <2>4, <2>5, <2>6, <2>7 DEF IdsOfTicks, PlanInv
<1>9. CASE call.kind = "group"
  <2>1. c.id = <<g, j + 1>> /\ Len(call.commands) = k - j /\ k # 0
    BY <1>1, <1>5, <1>7, <1>9
  <2>2. g \in 1..g /\ g > MaxTicks
    BY <1>5, <1>6, <2>1
  <2>7. <<g, j + 1>>[1] = g
    OBVIOUS
  <2>8. template' # None => \A id \in history'.sent : id[1] > MaxTicks \/ id = template'.id
    BY <1>3, <1>10, <2>1, <2>2, <2>7 DEF IdsOfTicks
  <2>3. \A n \in 1..k : <<g, n>> \in history'.sent <=> n <= j + 1
    BY <1>3, <1>5, <2>1
  <2>4. CASE call' = Idle
    <3>1. call'.kind = "idle"
      BY <2>4 DEF Idle
    <3>2. PlanAt(k, j + 1)'
      BY <1>3, <1>5, <2>3, <3>1 DEF PlanAt
    <3>3. j + 1 \in Nat
      OBVIOUS
    <3> QED
      BY <1>3, <2>1, <2>2, <2>8, <3>1, <3>2, <3>3 DEF IdsOfTicks, PlanInv
  <2>5. CASE Follows(call')
    <3>1. /\ call'.kind = "group"
          /\ Len(call'.commands) = k - (j + 1)
      BY <1>5, <1>7, <1>9, <2>1, <2>5 DEF Follows
    <3>2. \A n \in DOMAIN call'.commands : call'.commands[n].id = <<g, (j + 1) + n>>
      <4>1. call'.commands \in Seq(CommandSet)
        BY <2>5 DEF Follows
      <4> DEFINE q == call'.commands
      <4> HIDE DEF q
      <4>2. DOMAIN q = 1..Len(q) /\ Len(q) \in Nat
        BY <4>1, LenProperties DEF q
      <4>3. \A n \in DOMAIN q : n + 1 \in DOMAIN call.commands
                                /\ q[n] = call.commands[n + 1]
        BY <2>5 DEF Follows, q
      <4>5. \A n \in DOMAIN q : n \in Nat
        BY <4>2
      <4>6. \A n \in DOMAIN q : q[n].id = <<g, j + (n + 1)>>
        BY <1>5, <1>9, <4>3
      <4>4. \A n \in Nat : j + (n + 1) = (j + 1) + n
        OBVIOUS
      <4> QED
        BY <4>4, <4>5, <4>6 DEF q
    <3>3. j + 1 \in Nat
      OBVIOUS
    <3>4. PlanAt(k, j + 1)'
      BY <1>3, <1>5, <2>3, <3>1, <3>2 DEF PlanAt
    <3> QED
      BY <1>3, <2>1, <2>2, <2>8, <3>1, <3>3, <3>4 DEF IdsOfTicks, PlanInv
  <2> QED
    BY <1>4, <2>4, <2>5
<1> QED
  BY <1>1, <1>8, <1>9

LEMMA GroupKeepsPlan ==
  ASSUME QueueInv, PlanInv, IdsOfTicks,
         NEW sides \in [1..Cardinality(Instruments) -> Sides],
         NEW instruments \in SetToSeqs(Instruments),
         NEW quantities \in [1..Cardinality(Instruments) -> LegQuantities],
         NEW diet, NEW reducible,
         Group(sides, instruments, quantities, diet, reducible)
  PROVE  PlanInv' /\ IdsOfTicks'
<1> DEFINE legs == Legs(sides, instruments, quantities)
           k == Cardinality(Instruments)
           group == history.groups + 1
           g == MaxTicks + group
<1>1. /\ k \in Nat /\ DOMAIN legs = 1..k
      /\ group \in 1..MaxGroups
      /\ \A n \in 1..k : legs[n] \in CommandSet /\ legs[n].id = <<g, n>>
      /\ history' = [sent |-> history.sent, groups |-> group,
                     plan |-> [n \in 1..k |-> <<g, n>>], blind |-> history'.blind,
                     unseen |-> history.unseen]
      /\ UNCHANGED template
      /\ \/ call' = Idle
         \/ /\ legs \in Seq(CommandSet)
            /\ call' = [kind |-> "group", view |-> View, signals |-> {}, commands |-> legs]
  BY GroupBegins
<1>2. MaxTicks \in Nat /\ history.groups \in Nat /\ MaxGroups \in Nat
  BY AdmissionAssumption DEF QueueInv, TradesTyped
<1>3. \A n \in 1..k : <<g, n>> \notin history.sent
  <2> SUFFICES ASSUME NEW n \in 1..k, <<g, n>> \in history.sent PROVE FALSE
    OBVIOUS
  <2>1. <<g, n>>[1] = g
    OBVIOUS
  <2>2. g \in 1..(MaxTicks + history.groups)
    BY <2>1 DEF IdsOfTicks
  <2> QED
    BY <1>2, <2>2
<1>4. /\ history'.plan = [n \in 1..k |-> <<MaxTicks + history'.groups, n>>]
      /\ history'.groups # 0
      /\ \A n \in 1..k : <<MaxTicks + history'.groups, n>> \in history'.sent <=> n <= 0
      /\ history'.groups = group
  <2>1. /\ history'.groups = group /\ history'.sent = history.sent
        /\ history'.plan = [n \in 1..k |-> <<g, n>>]
    BY <1>1
  <2>2. \A n \in 1..k : ~(n <= 0)
    BY <1>1
  <2>3. history'.groups # 0
    BY <1>2, <2>1
  <2> HIDE DEF k
  <2> QED
    BY <1>3, <2>1, <2>2, <2>3
<1>5. /\ \A id \in history'.sent : id[1] \in 1..(MaxTicks + history'.groups)
      /\ template' # None => \A id \in history'.sent : id[1] > MaxTicks \/ id = template'.id
  BY <1>1, <1>2 DEF IdsOfTicks
<1> HIDE DEF legs, k
<1>6. CASE call' = Idle
  <2>1. call'.kind = "idle"
    BY <1>6 DEF Idle
  <2>2. PlanAt(k, 0)'
    BY <1>4, <2>1 DEF PlanAt
  <2> QED
    BY <1>1, <1>5, <2>1, <2>2 DEF IdsOfTicks, PlanInv
<1>7. CASE /\ legs \in Seq(CommandSet)
           /\ call' = [kind |-> "group", view |-> View, signals |-> {}, commands |-> legs]
  <2>1. call'.kind = "group" /\ call'.commands = legs
    BY <1>7
  <2>2. Len(legs) = k /\ DOMAIN legs = 1..k
    BY <1>1, <1>7, LenProperties
  <2>3. \A n \in 1..k : legs[n].id = <<MaxTicks + history'.groups, 0 + n>>
    BY <1>1, <1>4
  <2>4. Len(legs) = k - 0
    BY <1>1, <2>2
  <2>5. PlanAt(k, 0)'
    BY <1>4, <2>1, <2>2, <2>3, <2>4 DEF PlanAt
  <2> QED
    BY <1>1, <1>5, <2>1, <2>5 DEF IdsOfTicks, PlanInv
<1> QED
  BY <1>1, <1>6, <1>7

LEMMA NextPlan == QueueInv /\ PlanInv /\ IdsOfTicks /\ [Next]_vars => PlanInv' /\ IdsOfTicks'
<1> SUFFICES ASSUME QueueInv, PlanInv, IdsOfTicks, [Next]_vars PROVE PlanInv' /\ IdsOfTicks'
  OBVIOUS
<1>1. ASSUME NEW sequence \in 1..MaxTicks, NEW run \in Runs, NEW sources \in BOOLEAN,
             Tick(sequence, run, sources)
      PROVE  PlanInv' /\ IdsOfTicks'
  <2> DEFINE signals == Collected(sequence, run)
             commands == Commands(signals)
  <2>1. /\ UNCHANGED <<history, template>>
        /\ call' = Idle \/ call' = [kind |-> "tick", view |-> View, signals |-> signals,
                                    commands |-> commands]
    BY <1>1 DEF Tick
  <2>2. \A n \in DOMAIN commands : commands[n].id[1] \in 1..MaxTicks
    BY TickCommands
  <2> HIDE DEF signals, commands
  <2>3. \/ call'.kind = "idle"
        \/ call'.kind = "tick" /\ call'.commands = commands
    BY <2>1 DEF Idle
  <2> QED
    BY <2>1, <2>2, <2>3, PlanUntouched
<1>2. ASSUME NEW sides \in [1..Cardinality(Instruments) -> Sides],
             NEW instruments \in SetToSeqs(Instruments),
             NEW quantities \in [1..Cardinality(Instruments) -> LegQuantities],
             NEW diet \in BOOLEAN, NEW reducible \in BOOLEAN,
             Group(sides, instruments, quantities, diet, reducible)
      PROVE  PlanInv' /\ IdsOfTicks'
  BY <1>2, GroupKeepsPlan
<1>3. CASE Route
  BY <1>3, RouteKeepsPlan
<1>4. CASE Deny \/ Fail
  BY <1>4, DenyKeepsPlan
<1>5. CASE Between
  <2>1. UNCHANGED <<call, history, template>>
    BY <1>5 DEF Between, Fill, Refuse, Lose, TriggerKillSwitch, ResetKillSwitch, SetEnabled
  <2> QED
    BY <2>1, PlanUntouched
<1>6. CASE UNCHANGED vars
  BY <1>6, PlanUntouched DEF vars
<1> QED
  BY <1>1, <1>2, <1>3, <1>4, <1>5, <1>6 DEF Next, Between
-----------------------------------------------------------------------------
\* What keeps the position limit where each order was judged as it went: at most
\* one order is open, and filled or not it fits; a leg still to go fits if the
\* gate left it whole and its key finds what is held.
Alone(i) == \A o, p \in open : o.instrument = i /\ p.instrument = i => o = p

Fits(i, side, qty) == Within(positions[i]) => Within(Moved(positions[i], side, qty))

InstrumentWithin(i) ==
  /\ Within(positions[i])
  /\ Alone(i)
  /\ \A o \in open : o.instrument = i => Within(Moved(positions[i], o.side, o.qty))

LegsFit ==
  call.kind = "group" =>
    \A n \in DOMAIN call.commands :
      LET leg == call.commands[n] IN
      leg.instrument \notin history.blind /\ Seen(leg.instrument) =>
        Fits(leg.instrument, leg.side, leg.qty)

Unexcused == Instruments \ (history.blind \cup history.unseen)

LimitInv == (\A i \in Unexcused : InstrumentWithin(i)) /\ LegsFit

LEMMA InitLimit == Init => LimitInv
<1> SUFFICES ASSUME Init PROVE LimitInv
  OBVIOUS
<1>1. \A i \in Instruments : Within(positions[i])
  BY AdmissionAssumption, RiskConfigAssumption DEF Init, Within, Size, ConfigAdmitted
<1>2. open = {} /\ call.kind = "idle"
  BY DEF Init, Idle
<1> QED
  BY <1>1, <1>2 DEF LimitInv, Unexcused, InstrumentWithin, Alone, LegsFit

LEMMA RouteKeepsLimit ==
  ASSUME QueueInv, LimitInv, MaxOrderQty <= MaxPositionPerInstrument, Route
  PROVE  \A i \in Unexcused' : InstrumentWithin(i)'
<1> DEFINE c == Head(call.commands)
<1>1. PICK order : Sends(order)
  BY RouteSends
<1>2. /\ order \in Orders
      /\ order.qty = Judged(c)
      /\ open' = open \cup {order}
      /\ history'.blind = history.blind \cup Blind(c, order)
      /\ history'.unseen = history.unseen \cup Unseen(order)
  BY <1>1 DEF Sends
<1>3. /\ c \in CommandSet /\ c = call.commands[1] /\ 1 \in DOMAIN call.commands
      /\ call.kind \in {"tick", "group"}
  BY HeadOfQueue DEF Route
<1>4. UNCHANGED positions
  BY DEF Route
<1> HIDE DEF c
<1>5. c.instrument \in Instruments /\ c.side \in Sides /\ c.qty \in Nat
  BY <1>3 DEF CommandSet
<1>6. ASSUME Seen(c.instrument), c.instrument \notin history.blind
      PROVE  Fits(c.instrument, c.side, Judged(c))
  <2>1. CASE call.kind = "group"
    <3>1. Judged(c) = c.qty
      BY <2>1 DEF Judged
    <3> QED
      BY <1>3, <1>6, <2>1, <3>1 DEF LimitInv, LegsFit
  <2>2. CASE call.kind = "tick"
    <3>1. call.view = View
      BY <2>2 DEF QueueInv, QueueTyped
    <3>2. Judged(c) = ApprovedQty(c, engine, View.account, PositionsShown, FALSE, FALSE)
      BY <2>2, <3>1 DEF Judged, View
    <3> DEFINE a == View.account
    <3>3. a.free \in Int /\ PositionsTyped
      BY FreeIsInteger DEF QueueInv, TradesTyped, AdmissionInv
    <3> HIDE DEF a
    <3>4. Within(positions[c.instrument]) =>
            Within(Moved(positions[c.instrument], c.side,
                         ApprovedQty(c, engine, a, PositionsShown, FALSE, FALSE)))
      BY <1>5, <1>6, <3>3, ApprovedKeepsLimit
    <3> QED
      BY <3>2, <3>4 DEF Fits, a
  <2> QED
    BY <1>3, <2>1, <2>2
<1> SUFFICES ASSUME NEW i \in Unexcused' PROVE InstrumentWithin(i)'
  OBVIOUS
<1>7. i \in Instruments /\ i \notin history.blind /\ InstrumentWithin(i)
  BY <1>2 DEF LimitInv, Unexcused
<1>8. CASE i = order.instrument
  <2>1. \A o \in open : o.instrument # i
    BY <1>2, <1>8 DEF Blind, Unexcused
  <2>2. c.instrument = i /\ order.side = c.side
    BY <1>2, <1>8 DEF Blind, Unexcused
  <2>3. Seen(i)
    <3> SUFFICES ASSUME i \in Held PROVE Current(KeyOf[i], PositionsShown) = Shown(i)
      BY DEF Seen
    <3>1. call.view = View
      BY <1>3 DEF QueueInv, QueueTyped
    <3>2. call.view.positions = PositionsShown
      BY <3>1 DEF View
    <3>3. i \in DOMAIN PositionsShown /\ PositionsShown[i] = Shown(i)
      BY DEF PositionsShown, Shown
    <3>4. i \notin Unseen(order)
      BY <1>2 DEF Unexcused
    <3> QED
      BY <1>8, <3>2, <3>3, <3>4 DEF Unseen
  <2>4. Within(Moved(positions[i], order.side, order.qty))
    BY <1>2, <1>6, <1>7, <2>2, <2>3 DEF Fits, InstrumentWithin
  <2> QED
    BY <1>2, <1>4, <1>7, <1>8, <2>1, <2>4 DEF InstrumentWithin, Alone
<1>9. CASE i # order.instrument
  BY <1>2, <1>4, <1>7, <1>9 DEF InstrumentWithin, Alone
<1> QED
  BY <1>8, <1>9

LEMMA CallKeepsLimit ==
  ASSUME QueueInv, LimitInv, MaxOrderQty <= MaxPositionPerInstrument, Deny \/ Route \/ Fail
  PROVE  LimitInv'
<1>1. /\ call # Idle /\ UNCHANGED positions /\ (call' = Idle \/ call' = NextCommands)
      /\ history.blind \subseteq history'.blind
  <2>1. CASE Route
    <3>1. PICK order : Sends(order)
      BY <2>1, RouteSends
    <3> QED
      BY <2>1, <3>1 DEF Route, Sends
  <2>2. CASE Deny \/ Fail
    BY <2>2 DEF Deny, Fail
  <2> QED
    BY <2>1, <2>2
<1>2. \A i \in Unexcused' : InstrumentWithin(i)'
  <2>1. CASE Route
    BY <2>1, RouteKeepsLimit
  <2>2. CASE Deny \/ Fail
    BY <2>2 DEF Deny, Fail, LimitInv, Unexcused, InstrumentWithin, Alone
  <2> QED
    BY <2>1, <2>2
<1>3. LegsFit'
  <2>1. CASE call' = Idle
    BY <2>1 DEF LegsFit, Idle
  <2>2. CASE Follows(call')
    <3>1. \A i : Seen(i)' = Seen(i)
      BY <1>1 DEF Seen, Held, PositionsShown, Shown
    <3> QED
      BY <1>1, <2>2, <3>1 DEF LimitInv, LegsFit, Follows, Fits
  <2> QED
    BY <1>1, <2>1, <2>2, QueueMovesOn
<1> QED
  BY <1>2, <1>3 DEF LimitInv

LEMMA GroupKeepsLimit ==
  ASSUME QueueInv, LimitInv, MaxOrderQty <= MaxPositionPerInstrument,
         NEW sides \in [1..Cardinality(Instruments) -> Sides],
         NEW instruments \in SetToSeqs(Instruments),
         NEW quantities \in [1..Cardinality(Instruments) -> LegQuantities],
         NEW diet, NEW reducible,
         Group(sides, instruments, quantities, diet, reducible)
  PROVE  LimitInv'
<1> DEFINE legs == Legs(sides, instruments, quantities)
           k == Cardinality(Instruments)
<1>1. /\ DOMAIN legs = 1..k
      /\ \A n \in 1..k : legs[n] \in CommandSet
      /\ history.blind \subseteq history'.blind /\ history'.unseen = history.unseen
      /\ UNCHANGED <<positions, open>>
      /\ \/ call' = Idle
         \/ /\ AllApproved(legs, diet, reducible)
            /\ Reduced(legs, diet, reducible) \subseteq history'.blind
            /\ call' = [kind |-> "group", view |-> View, signals |-> {}, commands |-> legs]
  BY GroupBegins
<1> HIDE DEF legs, k
<1>2. \A i \in Unexcused' : InstrumentWithin(i)'
  BY <1>1 DEF LimitInv, Unexcused, InstrumentWithin, Alone
<1>3. CASE call' = Idle
  BY <1>2, <1>3 DEF LimitInv, LegsFit, Idle
<1>4. CASE /\ AllApproved(legs, diet, reducible)
           /\ Reduced(legs, diet, reducible) \subseteq history'.blind
           /\ call' = [kind |-> "group", view |-> View, signals |-> {}, commands |-> legs]
  <2> DEFINE a == View.account
  <2>1. call'.kind = "group" /\ call'.commands = legs
    BY <1>4
  <2>2. a.free \in Int /\ PositionsTyped
    BY FreeIsInteger DEF QueueInv, TradesTyped, AdmissionInv
  <2>3. ASSUME NEW n \in DOMAIN legs, legs[n].instrument \notin history'.blind,
               Seen(legs[n].instrument)
        PROVE  Fits(legs[n].instrument, legs[n].side, legs[n].qty)
    <3> DEFINE leg == legs[n]
               q == ApprovedQty(leg, engine, a, PositionsShown, diet, reducible)
    <3>1. ~(ApprovedOf(legs[n], diet, reducible) < legs[n].qty)
      BY <1>4, <2>3 DEF Reduced
    <3>2. legs[n].qty \in 1..MaxOrderQty /\ ApprovedOf(legs[n], diet, reducible) \in 1..legs[n].qty
      BY <1>4 DEF AllApproved
    <3>3. ApprovedOf(legs[n], diet, reducible) = legs[n].qty
      BY <3>1, <3>2
    <3>4. q = leg.qty
      BY <3>3 DEF ApprovedOf
    <3>5. leg \in CommandSet
      BY <1>1
    <3>6. Seen(leg.instrument)
      BY <2>3
    <3> HIDE DEF a, leg
    <3>7. leg.instrument \in Instruments /\ leg.side \in Sides /\ leg.qty \in Nat
      BY <3>5 DEF CommandSet
    <3>8. Within(positions[leg.instrument]) => Within(Moved(positions[leg.instrument], leg.side, q))
      BY <2>2, <3>6, <3>7, ApprovedKeepsLimit
    <3> HIDE DEF q
    <3> QED
      BY <3>4, <3>8 DEF Fits, leg
  <2>4. \A i : Seen(i)' = Seen(i)
    BY <1>1 DEF Seen, Held, PositionsShown, Shown
  <2>5. LegsFit'
    BY <1>1, <2>1, <2>3, <2>4 DEF LegsFit, Fits
  <2> QED
    BY <1>2, <2>5 DEF LimitInv
<1> QED
  BY <1>1, <1>3, <1>4

\* A fill takes its order's place in the position.
LEMMA FillKeepsLimit ==
  ASSUME QueueInv, LimitInv, NEW o \in open, Fill(o)
  PROVE  LimitInv'
<1>1. /\ open' = open \ {o} /\ call' = Idle /\ UNCHANGED history
      /\ positions' = [positions EXCEPT ![o.instrument] =
                         IF o.side = "BUY" THEN positions[o.instrument] + o.qty
                         ELSE positions[o.instrument] - o.qty]
  BY DEF Fill
<1>2. positions \in [Instruments -> Int]
  BY DEF QueueInv, TradesTyped, PositionsTyped
<1>3. ASSUME NEW i \in Unexcused' PROVE InstrumentWithin(i)'
  <2>1. i \in Instruments /\ InstrumentWithin(i)
    BY <1>1, <1>3 DEF LimitInv, Unexcused
  <2>2. CASE i = o.instrument
    <3>1. positions'[i] = Moved(positions[i], o.side, o.qty)
      BY <1>1, <1>2, <2>1, <2>2 DEF Moved
    <3>2. \A p \in open' : p.instrument # i
      BY <1>1, <2>1, <2>2 DEF InstrumentWithin, Alone
    <3> QED
      BY <2>1, <2>2, <3>1, <3>2 DEF InstrumentWithin, Alone
  <2>3. CASE i # o.instrument
    <3>1. positions'[i] = positions[i]
      BY <1>1, <1>2, <2>3
    <3> QED
      BY <1>1, <2>1, <3>1 DEF InstrumentWithin, Alone
  <2> QED
    BY <2>2, <2>3
<1> QED
  BY <1>1, <1>3 DEF LimitInv, LegsFit, Idle

LEMMA NextLimit ==
  ASSUME MaxOrderQty <= MaxPositionPerInstrument
  PROVE  QueueInv /\ LimitInv /\ [Next]_vars => LimitInv'
<1> SUFFICES ASSUME QueueInv, LimitInv, [Next]_vars PROVE LimitInv'
  OBVIOUS
<1>1. ASSUME NEW sequence \in 1..MaxTicks, NEW run \in Runs, NEW sources \in BOOLEAN,
             Tick(sequence, run, sources)
      PROVE  LimitInv'
  <2>1. /\ UNCHANGED <<positions, open, history>>
        /\ call'.kind # "group"
    BY <1>1 DEF Tick, Idle
  <2> QED
    BY <2>1 DEF LimitInv, Unexcused, LegsFit, InstrumentWithin, Alone
<1>2. ASSUME NEW sides \in [1..Cardinality(Instruments) -> Sides],
             NEW instruments \in SetToSeqs(Instruments),
             NEW quantities \in [1..Cardinality(Instruments) -> LegQuantities],
             NEW diet \in BOOLEAN, NEW reducible \in BOOLEAN,
             Group(sides, instruments, quantities, diet, reducible)
      PROVE  LimitInv'
  BY <1>2, GroupKeepsLimit
<1>3. CASE Deny \/ Route \/ Fail
  BY <1>3, CallKeepsLimit
<1>4. ASSUME NEW o \in open, Fill(o) PROVE LimitInv'
  BY <1>4, FillKeepsLimit
<1>5. ASSUME NEW o \in open, Refuse(o) PROVE LimitInv'
  <2>1. open' = open \ {o} /\ UNCHANGED <<positions, history>> /\ call' = Idle
    BY <1>5 DEF Refuse
  <2> QED
    BY <2>1 DEF LimitInv, Unexcused, LegsFit, InstrumentWithin, Alone, Idle
<1>6. CASE \/ \E told \in BOOLEAN : Lose(told)
           \/ TriggerKillSwitch \/ ResetKillSwitch
           \/ \E track \in TrackIds, on \in BOOLEAN : SetEnabled(track, on)
  <2>1. UNCHANGED <<positions, open, history, call>>
    BY <1>6 DEF Lose, TriggerKillSwitch, ResetKillSwitch, SetEnabled
  <2> QED
    BY <2>1 DEF LimitInv, Unexcused, LegsFit, InstrumentWithin, Alone, Fits, Seen, Held,
                PositionsShown, Shown
<1>7. CASE UNCHANGED vars
  BY <1>7 DEF vars, LimitInv, Unexcused, LegsFit, InstrumentWithin, Alone, Fits, Seen, Held,
              PositionsShown, Shown
<1> QED
  BY <1>1, <1>2, <1>3, <1>4, <1>5, <1>6, <1>7 DEF Next

\* The sums of ExposureExplained, over no open order and over one.
LEMMA ExposureOfOne ==
  ASSUME NEW base, NEW o, NEW some \in SUBSET {o}
  PROVE  FoldSet(LAMBDA x, p : IF x.side = "BUY" THEN p + x.qty ELSE p - x.qty, base, some)
           = IF some = {} THEN base ELSE Moved(base, o.side, o.qty)
<1> DEFINE Op(x, p) == IF x.side = "BUY" THEN p + x.qty ELSE p - x.qty
           F == [s \in SUBSET some |-> IF s = {} THEN base ELSE Op(o, base)]
           Eq(iter) == iter = [s \in SUBSET some |-> IF s = {} THEN base
                               ELSE LET x == CHOOSE x \in s : TRUE IN Op(x, iter[s \ {x}])]
           G == CHOOSE iter : Eq(iter)
<1>1. FoldSet(LAMBDA x, p : IF x.side = "BUY" THEN p + x.qty ELSE p - x.qty, base, some) = G[some]
  BY DEF FoldSet, MapThenFoldSet
<1>2. ASSUME NEW s \in SUBSET some, s # {}
      PROVE  s = {o} /\ (CHOOSE x \in s : TRUE) = o
  <2>1. s = {o}
    BY <1>2
  <2>2. (CHOOSE x \in s : TRUE) \in s
    BY <1>2
  <2> QED
    BY <2>1, <2>2
<1>3. Eq(F)
  <2>1. ASSUME NEW s \in SUBSET some
        PROVE  F[s] = IF s = {} THEN base
                      ELSE LET x == CHOOSE x \in s : TRUE IN Op(x, F[s \ {x}])
    <3>1. CASE s = {}
      BY <3>1
    <3>2. CASE s # {}
      <4>1. s = {o} /\ (CHOOSE x \in s : TRUE) = o
        BY <1>2, <3>2
      <4>2. s \ {o} = {} /\ {} \in SUBSET some
        BY <4>1
      <4>3. F[{}] = base /\ F[s] = Op(o, base)
        BY <3>2, <4>2
      <4> HIDE DEF Op, F
      <4> QED
        BY <3>2, <4>1, <4>2, <4>3
    <3> QED
      BY <3>1, <3>2
  <2> HIDE DEF Op
  <2> QED
    BY <2>1
<1>4. Eq(G)
  <2> HIDE DEF Eq
  <2> QED
    BY <1>3
<1> HIDE DEF G
<1>5. G[{}] = base
  BY <1>4
<1>6. some # {} => G[some] = Op(o, G[{}])
  <2> SUFFICES ASSUME some # {} PROVE G[some] = Op(o, G[{}])
    OBVIOUS
  <2>1. some = {o} /\ (CHOOSE x \in some : TRUE) = o /\ some \ {o} = {}
    BY <1>2
  <2> HIDE DEF Op
  <2>2. G[some] = LET x == CHOOSE x \in some : TRUE IN Op(x, G[some \ {x}])
    BY <1>4
  <2> QED
    BY <2>1, <2>2
<1> QED
  BY <1>1, <1>5, <1>6 DEF Moved

LEMMA LimitMeansExplained == LimitInv => ExposureExplained
<1> SUFFICES ASSUME LimitInv, NEW i \in Unexcused,
                    NEW some \in SUBSET {o \in open : o.instrument = i}
             PROVE  Size(FoldSet(LAMBDA o, p : IF o.side = "BUY" THEN p + o.qty
                                               ELSE p - o.qty,
                                 positions[i], some)) <= MaxPositionPerInstrument
  BY DEF ExposureExplained, StaysWithin, Unexcused
<1>1. InstrumentWithin(i)
  BY DEF LimitInv
<1>2. CASE some = {}
  <2>1. FoldSet(LAMBDA o, p : IF o.side = "BUY" THEN p + o.qty ELSE p - o.qty,
                positions[i], some) = positions[i]
    BY <1>2, ExposureOfOne
  <2> QED
    BY <1>1, <2>1 DEF InstrumentWithin, Within
<1>3. ASSUME NEW o \in some PROVE Size(FoldSet(LAMBDA x, p : IF x.side = "BUY" THEN p + x.qty
                                                             ELSE p - x.qty,
                                               positions[i], some)) <= MaxPositionPerInstrument
  <2>1. some \in SUBSET {o}
    BY <1>1 DEF InstrumentWithin, Alone
  <2>2. FoldSet(LAMBDA x, p : IF x.side = "BUY" THEN p + x.qty ELSE p - x.qty,
                positions[i], some) = Moved(positions[i], o.side, o.qty)
    BY <1>3, <2>1, ExposureOfOne
  <2>3. Within(Moved(positions[i], o.side, o.qty))
    BY <1>1 DEF InstrumentWithin
  <2> QED
    BY <2>2, <2>3 DEF Within
<1> QED
  BY <1>2, <1>3
-----------------------------------------------------------------------------
\* Types: the records of the admission keep their form, and a call in progress
\* always has a command left and judges by the present view.
THEOREM AdmissionTyped == Spec => []TypeOK
<1>1. QueueInv => TypeOK
  BY DEF QueueInv, AdmissionInv, TradesTyped, QueueTyped, PositionsTyped, TypeOK
<1> QED
  BY <1>1, InitQueue, NextQueue, PTL DEF Spec

\* Whichever strategies ran, failed or were switched off: the commands of a tick
\* never oppose each other, and a signal is given up only for a better one.
THEOREM ArbitrationHolds == Spec => []Arbitrated
<1>1. QueueInv => NoOpposedCommands
  <2> SUFFICES ASSUME QueueInv, call.kind = "tick",
                      NEW m \in DOMAIN call.commands, NEW n \in DOMAIN call.commands,
                      call.commands[m].instrument = call.commands[n].instrument
               PROVE  call.commands[m].side = call.commands[n].side
    BY DEF NoOpposedCommands
  <2>1. OneTick(call.signals) /\ OfSignals(call.commands, call.signals)
    BY DEF QueueInv, TickInv
  <2>2. PICK s \in Approved(call.signals) : call.commands[m] = Command(s)
    BY <2>1 DEF OfSignals
  <2>3. PICK t \in Approved(call.signals) : call.commands[n] = Command(t)
    BY <2>1 DEF OfSignals
  <2>4. s.instrument = t.instrument
    BY <2>2, <2>3 DEF Command
  <2>5. s.side = t.side
    BY <2>1, <2>4, ArbiterNeverOpposes
  <2> QED
    BY <2>2, <2>3, <2>5 DEF Command
<1>2. QueueInv => RejectedForBetter
  <2> SUFFICES ASSUME QueueInv PROVE RejectedForBetter
    OBVIOUS
  <2>1. CASE call.kind = "tick"
    BY <2>1, RejectedForBetterOnes DEF QueueInv, TickInv, RejectedForBetter
  <2>2. CASE call.kind # "tick"
    BY <2>2 DEF QueueInv, TickInv, RejectedForBetter
  <2> QED
    BY <2>1, <2>2
<1>3. QueueInv => Arbitrated
  BY <1>1, <1>2 DEF Arbitrated
<1> QED
  BY <1>3, InitQueue, NextQueue, PTL DEF Spec

\* What goes to the broker from a tick goes by the id of an approved signal of the
\* tick, at no more than the quantity asked for, and trades what it says; where
\* the context holds a command of its own, that goes instead, and only once.
THEOREM OrdersAreSignalled == Spec => SentAsSignalled
<1> DEFINE Named(o) == \E s \in Approved(call.signals) :
                         /\ o.id = <<s.tick, s.id>> /\ o.qty <= s.qty
                         /\ template = None => o.instrument = s.instrument /\ o.side = s.side
           Once == template # None => \A id \in history.sent : id[1] > MaxTicks
           Sent == \A o \in open' \ open :
                     call.kind = "tick" =>
                       /\ \E s \in Approved(call.signals) :
                            /\ o.id = <<s.tick, s.id>> /\ o.qty <= s.qty
                            /\ template = None => o.instrument = s.instrument /\ o.side = s.side
                       /\ template # None => \A id \in history.sent : id[1] > MaxTicks
<1>1. ASSUME QueueInv, IdsOfTicks, [Next]_vars PROVE Sent
  <2>1. CASE Route
    <3> SUFFICES ASSUME call.kind = "tick", NEW o \in open' \ open PROVE Named(o) /\ Once
      OBVIOUS
    <3> DEFINE c == Head(call.commands)
    <3>1. PICK order : Sends(order)
      BY <2>1, <1>1, RouteSends
    <3>2. /\ o.id = c.id /\ o.qty <= c.qty
          /\ template = None => o.instrument = c.instrument /\ o.side = c.side
      BY <3>1 DEF Sends
    <3>3. c = call.commands[1] /\ 1 \in DOMAIN call.commands
      BY <1>1, <2>1, HeadOfQueue DEF Route
    <3>4. OneTick(call.signals) /\ OfSignals(call.commands, call.signals)
      BY <1>1 DEF QueueInv, TickInv
    <3>5. PICK s \in Approved(call.signals) : c = Command(s)
      BY <3>3, <3>4 DEF OfSignals
    <3>6. Once
      BY <1>1, <3>1 DEF Sends, IdsOfTicks
    <3> HIDE DEF c
    <3>7. Named(o)
      BY <3>2, <3>5 DEF Command
    <3> QED
      BY <3>6, <3>7
  <2>2. CASE open' \subseteq open
    BY <2>2
  <2>3. CASE Deny \/ Fail \/ Between
    BY <2>3, <2>2 DEF Deny, Fail, Between, Fill, Refuse, Lose, TriggerKillSwitch,
                      ResetKillSwitch, SetEnabled
  <2>4. ASSUME NEW sequence, NEW run, NEW sources, Tick(sequence, run, sources)
        PROVE  open' \subseteq open
    BY <2>4 DEF Tick
  <2>5. ASSUME NEW sides, NEW instruments, NEW quantities, NEW diet, NEW reducible,
               Group(sides, instruments, quantities, diet, reducible)
        PROVE  open' \subseteq open
    BY <2>5 DEF Group
  <2>6. CASE UNCHANGED vars
    BY <2>6, <2>2 DEF vars
  <2> QED
    BY <1>1, <2>1, <2>2, <2>3, <2>4, <2>5, <2>6 DEF Next, Between
<1> HIDE DEF Named, Once
<1>2. QueueInv /\ IdsOfTicks /\ [Next]_vars => [Sent]_vars
  BY <1>1
<1> QED
  BY <1>2, InitQueue, NextQueue, InitPlan, NextPlan, PTL DEF Spec, SentAsSignalled

\* The legs of a plan go in its order, and no leg that went has one before it
\* that did not: neither a denial nor a failure leaves a hole.
THEOREM NoLegIsSkipped == Spec => []NoHoleInGroup
<1>1. PlanInv => NoHoleInGroup
  <2> SUFFICES ASSUME PlanInv PROVE NoHoleInGroup
    OBVIOUS
  <2>1. PICK k \in Nat, j \in Nat : PlanAt(k, j)
    BY DEF PlanInv
  <2>2. DOMAIN history.plan = 1..k
    BY <2>1 DEF PlanAt
  <2>3. \A n \in 1..k : history.plan[n] \in history.sent <=> n <= j
    BY <2>1 DEF PlanAt
  <2> QED
    BY <2>2, <2>3 DEF NoHoleInGroup
<1> QED
  BY <1>1, InitQueue, NextQueue, InitPlan, NextPlan, PTL DEF Spec

\* Where no single order may exceed the position limit, only an order that was not
\* judged as it went can take a position, with all that is open, past it: behind
\* another on its way, a context's own command, a leg sent whole though reduced, or
\* by other than what is held of its instrument.
THEOREM ExposureIsExplained ==
  ASSUME MaxOrderQty <= MaxPositionPerInstrument
  PROVE  Spec => []ExposureExplained
<1>1. QueueInv /\ LimitInv /\ [Next]_vars => LimitInv'
  BY NextLimit
<1> QED
  BY <1>1, LimitMeansExplained, InitQueue, NextQueue, InitLimit, PTL DEF Spec
=============================================================================
