------------------------ MODULE LiveLifecycleProofs ------------------------
(***************************************************************************)
(* Proofs about LiveLifecycle, for any coordinators, callers and failures, *)
(* with a broker that disconnects or does not.  The strengthening says in  *)
(* which of five conditions a coordinator is, by the point its one command *)
(* has reached.                                                            *)
(***************************************************************************)
EXTENDS LiveLifecycle, TLAPS

Quiescent(c) ==
  /\ state[c] = "STOPPED" /\ active[c] = FALSE /\ connected[c] = FALSE
  /\ receiving[c] = {}

Up(c) == state[c] = "RUNNING" /\ active[c] = TRUE /\ connected[c] = TRUE

Resting(c) ==
  technical[c] = None /\ started[c] = FALSE /\ stopping[c] = FALSE /\ Quiescent(c)
Serving(c) ==
  technical[c] = None /\ started[c] = TRUE /\ stopping[c] = FALSE /\ Up(c)
Failed(c) ==
  technical[c] # None /\ started[c] = FALSE /\ stopping[c] = TRUE
Starting(c) ==
  /\ technical[c] = None /\ started[c] = FALSE /\ stopping[c] = FALSE /\ Up(c)
  /\ receiving[c] = {}
Halting(c) ==
  technical[c] = None /\ started[c] = TRUE /\ stopping[c] = TRUE /\ Up(c)

Points == {"idle", "restarting"} \cup StartPoints \cup StopPoints
CommandType == [at : Points, restart : BOOLEAN, close_error : BOOLEAN]

\* The condition a command at this point requires of its coordinator.
Fits(c, point) ==
  /\ point = "idle" => Resting(c) \/ Serving(c) \/ Failed(c)
  /\ point = "restarting" => Resting(c)
  /\ point \in StartPoints => Starting(c)
  /\ point \in StopPoints => Halting(c)

\* The lock: no other command of the coordinator is under way.
Alone(c, k) == \A l \in Callers \ {k} : command[<<c, l>>].at = "idle"

Serialized(c) ==
  \A k \in Callers : command[<<c, k>>].at # "idle" => Alone(c, k)

\* Every command under way determines the condition; without one it is any of
\* the conditions that are at rest.
Conditioned(c) ==
  /\ \A k \in Callers : command[<<c, k>>].at # "idle" => Fits(c, command[<<c, k>>].at)
  /\ LockFree(c) => Fits(c, "idle")

LifecycleInv ==
  /\ TypeOK
  /\ \A c \in Coordinators : Serialized(c) /\ Conditioned(c)
-----------------------------------------------------------------------------
LEMMA InitLifecycle == Init => LifecycleInv
<1> SUFFICES ASSUME Init PROVE LifecycleInv
  OBVIOUS
<1>1. NoCommand \in CommandType
  BY DEF NoCommand, CommandType, Points
<1>2. TypeOK
  BY <1>1 DEF Init, TypeOK, CommandType, Points
<1>3. ASSUME NEW c \in Coordinators, NEW k \in Callers
      PROVE  command[<<c, k>>].at = "idle"
  BY DEF Init, NoCommand
<1>4. ASSUME NEW c \in Coordinators
      PROVE  Serialized(c) /\ Conditioned(c)
  <2>1. Resting(c)
    BY DEF Init, Resting, Quiescent
  <2> QED
    BY <1>3, <2>1 DEF Serialized, Conditioned, Fits, StartPoints, StopPoints
<1> QED
  BY <1>2, <1>4 DEF LifecycleInv

\* What an action of one coordinator leaves alone.
Elsewhere(c) ==
  \A d \in Coordinators \ {c} :
    /\ started'[d] = started[d] /\ stopping'[d] = stopping[d]
    /\ technical'[d] = technical[d]
    /\ state'[d] = state[d] /\ active'[d] = active[d] /\ connected'[d] = connected[d]
    /\ receiving'[d] = receiving[d]
    /\ \A k \in Callers : command'[<<d, k>>] = command[<<d, k>>]

LEMMA ElsewhereKeeps ==
  ASSUME LifecycleInv, NEW c \in Coordinators, Elsewhere(c),
         NEW d \in Coordinators \ {c}
  PROVE  Serialized(d)' /\ Conditioned(d)'
<1>1. Serialized(d) /\ Conditioned(d)
  BY DEF LifecycleInv
<1>2. /\ started'[d] = started[d] /\ stopping'[d] = stopping[d]
      /\ technical'[d] = technical[d]
      /\ state'[d] = state[d] /\ active'[d] = active[d] /\ connected'[d] = connected[d]
      /\ receiving'[d] = receiving[d]
      /\ \A k \in Callers : command'[<<d, k>>] = command[<<d, k>>]
  BY DEF Elsewhere
<1>3. \A point : Fits(d, point)' <=> Fits(d, point)
  BY <1>2 DEF Fits, Resting, Serving, Failed, Starting, Halting, Quiescent, Up
<1>4. Serialized(d)'
  BY <1>1, <1>2 DEF Serialized, Alone
<1>5. LockFree(d)' <=> LockFree(d)
  BY <1>2 DEF LockFree, At
<1>6. Conditioned(d)'
  BY <1>1, <1>2, <1>3, <1>5 DEF Conditioned
<1> QED
  BY <1>4, <1>6

\* A command that has the lock moves to a point that fits.
LEMMA CommandMoves ==
  ASSUME LifecycleInv, NEW c \in Coordinators, NEW k \in Callers, NEW next \in CommandType,
         Alone(c, k), Elsewhere(c), (TypeOK)',
         command' = [command EXCEPT ![<<c, k>>] = next],
         (Fits(c, next.at))'
  PROVE  LifecycleInv'
<1>1. /\ command'[<<c, k>>] = next
      /\ \A l \in Callers \ {k} : command'[<<c, l>>].at = "idle"
  BY DEF LifecycleInv, TypeOK, Alone
<1>2. Serialized(c)'
  BY <1>1 DEF Serialized, Alone
<1>3. LockFree(c)' => next.at = "idle"
  BY <1>1 DEF LockFree, At
<1>4. Conditioned(c)'
  <2>1. ASSUME NEW l \in Callers, command'[<<c, l>>].at # "idle"
        PROVE  Fits(c, command[<<c, l>>].at)'
    BY <1>1, <2>1
  <2>2. LockFree(c)' => Fits(c, "idle")'
    BY <1>3
  <2> QED
    BY <2>1, <2>2 DEF Conditioned
<1> QED
  BY <1>2, <1>4, ElsewhereKeeps DEF LifecycleInv

\* Who has the lock, or takes it, is alone.
LEMMA HolderAlone ==
  ASSUME LifecycleInv, NEW c \in Coordinators, NEW k \in Callers,
         LockFree(c) \/ command[<<c, k>>].at # "idle"
  PROVE  Alone(c, k)
  BY DEF LifecycleInv, Serialized, LockFree, At, Alone

LEMMA HolderFits ==
  ASSUME LifecycleInv, NEW c \in Coordinators, NEW k \in Callers,
         command[<<c, k>>].at # "idle"
  PROVE  Fits(c, command[<<c, k>>].at)
  BY DEF LifecycleInv, Conditioned

LEMMA FreeFits ==
  ASSUME LifecycleInv, NEW c \in Coordinators, LockFree(c)
  PROVE  Resting(c) \/ Serving(c) \/ Failed(c)
  BY DEF LifecycleInv, Conditioned, Fits
-----------------------------------------------------------------------------
(* The clean-up and the release of the transport.                          *)

ControlUnchanged(c) ==
  \A d \in Coordinators \ {c} :
    /\ started'[d] = started[d] /\ stopping'[d] = stopping[d]
    /\ technical'[d] = technical[d]
    /\ state'[d] = state[d] /\ active'[d] = active[d] /\ connected'[d] = connected[d]

ControlTyped ==
  /\ started \in [Coordinators -> BOOLEAN]
  /\ stopping \in [Coordinators -> BOOLEAN]
  /\ technical \in [Coordinators -> TechnicalStates \cup {None}]
  /\ state \in [Coordinators -> {"STOPPED", "RUNNING", "STOPPING"}]
  /\ active \in [Coordinators -> BOOLEAN]
  /\ connected \in [Coordinators -> BOOLEAN]

OwnershipTyped ==
  /\ release \in [Coordinators -> BOOLEAN]
  /\ owner \in Coordinators \cup {None}

LEMMA ReleaseTyped ==
  ASSUME TypeOK, NEW c \in Coordinators, ReleaseOwnership(c)
  PROVE  OwnershipTyped'
  BY DEF ReleaseOwnership, TypeOK, OwnershipTyped

\* The controller stops.  A broker without a bundle would be left connected.
LEMMA StopsTyped ==
  ASSUME TypeOK, NEW c \in Coordinators, NEW bundle \in BOOLEAN, NEW broker \in BOOLEAN,
         bundle = FALSE => broker = FALSE,
         ControllerStops(c, bundle, broker)
  PROVE  /\ state'[c] = "STOPPED" /\ active'[c] = FALSE /\ connected'[c] = FALSE
         /\ \A d \in Coordinators \ {c} :
              state'[d] = state[d] /\ active'[d] = active[d] /\ connected'[d] = connected[d]
         /\ state' \in [Coordinators -> {"STOPPED", "RUNNING", "STOPPING"}]
         /\ active' \in [Coordinators -> BOOLEAN]
         /\ connected' \in [Coordinators -> BOOLEAN]
<1>1. (broker /\ ~bundle) = FALSE
  OBVIOUS
<1>2. Controller(c, "STOPPED", FALSE, FALSE)
  BY <1>1 DEF ControllerStops
<1> QED
  BY <1>2 DEF Controller, TypeOK

LEMMA RaisesTyped ==
  ASSUME TypeOK, NEW c \in Coordinators, NEW bundle \in BOOLEAN, NEW broker \in BOOLEAN,
         ControllerStopRaises(c, bundle, broker)
  PROVE  /\ \A d \in Coordinators \ {c} :
              state'[d] = state[d] /\ active'[d] = active[d] /\ connected'[d] = connected[d]
         /\ state' \in [Coordinators -> {"STOPPED", "RUNNING", "STOPPING"}]
         /\ active' \in [Coordinators -> BOOLEAN]
         /\ connected' \in [Coordinators -> BOOLEAN]
  BY DEF ControllerStopRaises, Controller, TypeOK

LEMMA FailTyped ==
  ASSUME TypeOK, NEW c \in Coordinators, NEW name \in TechnicalStates, Fail(c, name)
  PROVE  /\ Failed(c)'
         /\ \A d \in Coordinators \ {c} :
              /\ started'[d] = started[d] /\ stopping'[d] = stopping[d]
              /\ technical'[d] = technical[d]
         /\ started' \in [Coordinators -> BOOLEAN]
         /\ stopping' \in [Coordinators -> BOOLEAN]
         /\ technical' \in [Coordinators -> TechnicalStates \cup {None}]
<1>1. name # None
  BY LifecycleAssumption
<1> QED
  BY <1>1 DEF Fail, Failed, TypeOK

\* A clean-up of what never served leaves nothing behind or an error state.
LEMMA CleanUpEnds ==
  ASSUME TypeOK, NEW c \in Coordinators, NEW bundle \in BOOLEAN, NEW broker \in BOOLEAN,
         bundle = FALSE => broker = FALSE,
         technical[c] = None, started[c] = FALSE, stopping[c] = FALSE, receiving[c] = {},
         CleanUp(c, bundle, broker), UNCHANGED receiving
  PROVE  /\ Resting(c)' \/ Failed(c)'
         /\ ControlUnchanged(c)
         /\ ControlTyped' /\ OwnershipTyped'
<1>1. CASE /\ ControllerStops(c, bundle, broker)
           /\ ReleaseOwnership(c)
           /\ UNCHANGED <<started, stopping, technical>>
  <2>1. ControlUnchanged(c)
    BY <1>1, StopsTyped DEF ControlUnchanged
  <2>4. ControlTyped'
    BY <1>1, StopsTyped DEF ControlTyped, TypeOK
  <2>2. OwnershipTyped'
    BY <1>1, ReleaseTyped
  <2>3. Resting(c)'
    BY <1>1, StopsTyped DEF Resting, Quiescent
  <2> QED
    BY <2>1, <2>2, <2>3, <2>4
<1>2. CASE /\ ControllerStopRaises(c, bundle, broker)
           /\ Fail(c, "STOP_CONTROLLER_FAILED")
           /\ UNCHANGED ownership
  <2>1. "STOP_CONTROLLER_FAILED" \in TechnicalStates
    BY DEF TechnicalStates
  <2> QED
    BY <1>2, <2>1, RaisesTyped, FailTyped
    DEF ControlUnchanged, ControlTyped, OwnershipTyped, ownership, TypeOK
<1> QED
  BY <1>1, <1>2 DEF CleanUp

\* The parts put together again.
LEMMA PartsTyped ==
  ASSUME TypeOK, ControlTyped', OwnershipTyped',
         NEW c \in Coordinators, NEW k \in Callers, NEW next \in CommandType,
         command' = [command EXCEPT ![<<c, k>>] = next],
         UNCHANGED <<assembled, receiving>>,
         transport' \in {"closed", "connected", "subscribed"}
  PROVE  TypeOK'
  BY DEF TypeOK, ControlTyped, OwnershipTyped, CommandType, Points

LEMMA PartsElsewhere ==
  ASSUME TypeOK, NEW c \in Coordinators, NEW k \in Callers, NEW next \in CommandType,
         ControlUnchanged(c), UNCHANGED receiving,
         command' = [command EXCEPT ![<<c, k>>] = next]
  PROVE  Elsewhere(c)
<1>1. \A d \in Coordinators \ {c}, l \in Callers : command'[<<d, l>>] = command[<<d, l>>]
  BY DEF TypeOK
<1> QED
  BY <1>1 DEF Elsewhere, ControlUnchanged

\* Both together, with CommandMoves.
LEMMA ActionKeeps ==
  ASSUME LifecycleInv, NEW c \in Coordinators, NEW k \in Callers, NEW next \in CommandType,
         Alone(c, k), ControlUnchanged(c), ControlTyped', OwnershipTyped',
         command' = [command EXCEPT ![<<c, k>>] = next],
         UNCHANGED <<assembled, receiving>>,
         transport' \in {"closed", "connected", "subscribed"},
         Fits(c, next.at)'
  PROVE  LifecycleInv'
<1>1. TypeOK'
  BY PartsTyped DEF LifecycleInv
<1>2. Elsewhere(c)
  BY PartsElsewhere DEF LifecycleInv
<1> QED
  BY <1>1, <1>2, CommandMoves
-----------------------------------------------------------------------------
(* The actions of start.                                                   *)

LEMMA NoCommandTyped == NoCommand \in CommandType /\ NoCommand.at = "idle"
  BY DEF NoCommand, CommandType, Points

LEMMA PointTyped ==
  ASSUME TypeOK, NEW c \in Coordinators, NEW k \in Callers, NEW point \in Points
  PROVE  LET next == [command[<<c, k>>] EXCEPT !.at = point]
         IN  next \in CommandType /\ next.at = point
  BY DEF TypeOK, CommandType, Points

\* Whoever may start has the lock, and the coordinator has nothing left of the
\* last run.
LEMMA StartsFromRest ==
  ASSUME LifecycleInv, NEW c \in Coordinators, NEW k \in Callers, Starts(c, k), Admitted(c)
  PROVE  Alone(c, k) /\ Resting(c)
<1>1. CASE LockFree(c)
  BY <1>1, HolderAlone, FreeFits DEF Admitted, Serving, Failed
<1>2. CASE At(c, k, "restarting")
  BY <1>2, HolderAlone, HolderFits DEF At, Fits
<1> QED
  BY <1>1, <1>2 DEF Starts

LEMMA StartsAlone ==
  ASSUME LifecycleInv, NEW c \in Coordinators, NEW k \in Callers, Starts(c, k)
  PROVE  Alone(c, k)
  BY HolderAlone DEF Starts, At

LEMMA StartKeeps ==
  ASSUME LifecycleInv, NEW c \in Coordinators, NEW k \in Callers, Start(c, k)
  PROVE  LifecycleInv'
<1>1. CASE StartRefused(c, k)
  <2>1. Alone(c, k)
    BY <1>1, StartsAlone DEF StartRefused
  <2>2. Resting(c) \/ Serving(c) \/ Failed(c)
    <3>1. CASE LockFree(c)
      BY <3>1, FreeFits
    <3>2. CASE At(c, k, "restarting")
      BY <3>2, HolderFits DEF At, Fits
    <3> QED
      BY <1>1, <3>1, <3>2 DEF StartRefused, Starts
  <2>3. Fits(c, "idle")'
    BY <1>1, <2>2
    DEF StartRefused, coordinator, controller, Fits, Resting, Serving, Failed, Quiescent, Up,
        StartPoints, StopPoints
  <2>4. ControlUnchanged(c) /\ ControlTyped' /\ OwnershipTyped'
    BY <1>1 DEF StartRefused, coordinator, controller, ownership, ControlUnchanged,
                ControlTyped, OwnershipTyped, LifecycleInv, TypeOK
  <2> QED
    BY <1>1, <2>1, <2>3, <2>4, NoCommandTyped, ActionKeeps
    DEF StartRefused, End, coordinator, LifecycleInv, TypeOK
<1>2. ASSUME NEW bundle \in BOOLEAN, NEW broker \in BOOLEAN,
             bundle = FALSE => broker = FALSE,
             Starts(c, k), Admitted(c), CleanUp(c, bundle, broker), End(c, k),
             UNCHANGED <<assembled, transport, receiving>>
      PROVE  LifecycleInv'
  <2>1. Alone(c, k) /\ Resting(c)
    BY <1>2, StartsFromRest
  <2>2. /\ Resting(c)' \/ Failed(c)'
        /\ ControlUnchanged(c)
        /\ ControlTyped' /\ OwnershipTyped'
    BY <1>2, <2>1, CleanUpEnds DEF LifecycleInv, Resting, Quiescent
  <2>3. Fits(c, "idle")'
    BY <2>2 DEF Fits, StartPoints, StopPoints
  <2> QED
    BY <1>2, <2>1, <2>2, <2>3, NoCommandTyped, ActionKeeps DEF End, LifecycleInv, TypeOK
<1>3. CASE ControllerStartRaises(c, k)
  <2>1. active[c] = FALSE /\ connected[c] = FALSE
    BY <1>3, StartsFromRest DEF ControllerStartRaises, Resting, Quiescent
  <2> QED
    BY <1>2, <1>3, <2>1 DEF ControllerStartRaises
<1>4. CASE ReconcileRaises(c, k)
  BY <1>2, <1>4 DEF ReconcileRaises
<1>5. CASE StartExecution(c, k)
  <2>1. Alone(c, k) /\ Resting(c)
    BY <1>5, StartsFromRest DEF StartExecution
  <2>2. PICK point \in {"connecting", "cleaning"} : Go(c, k, point)
    BY <1>5 DEF StartExecution
  <2> DEFINE next == [command[<<c, k>>] EXCEPT !.at = point]
  <2>3. next \in CommandType /\ next.at = point
    BY PointTyped DEF LifecycleInv, Points, StartPoints
  <2>4. command' = [command EXCEPT ![<<c, k>>] = next]
    BY <2>2 DEF Go
  <2>5. /\ state' = [state EXCEPT ![c] = "RUNNING"]
        /\ active' = [active EXCEPT ![c] = TRUE]
        /\ connected' = [connected EXCEPT ![c] = TRUE]
        /\ UNCHANGED <<coordinator, ownership, receiving>>
    BY <1>5 DEF StartExecution, Controller
  <2>6. Starting(c)'
    BY <2>1, <2>5 DEF Starting, Resting, Quiescent, Up, coordinator, LifecycleInv, TypeOK
  <2>7. ControlUnchanged(c) /\ ControlTyped' /\ OwnershipTyped'
    BY <2>5 DEF coordinator, ownership, ControlUnchanged, ControlTyped, OwnershipTyped,
                LifecycleInv, TypeOK
  <2>8. Fits(c, point)'
    BY <2>6 DEF Fits, StartPoints, StopPoints
  <2> HIDE DEF next
  <2> QED
    BY <1>5, <2>1, <2>3, <2>4, <2>5, <2>7, <2>8, ActionKeeps DEF StartExecution, coordinator
<1> QED
  BY <1>1, <1>3, <1>4, <1>5 DEF Start

\* A command goes on, within its start or its stop, and nothing else moves but
\* the transport.
LEMMA PointMoves ==
  ASSUME LifecycleInv, NEW c \in Coordinators, NEW k \in Callers, NEW next \in CommandType,
         \/ command[<<c, k>>].at \in StartPoints /\ next.at \in StartPoints
         \/ command[<<c, k>>].at \in StopPoints /\ next.at \in StopPoints,
         command' = [command EXCEPT ![<<c, k>>] = next],
         UNCHANGED <<coordinator, ownership, controller, receiving>>,
         transport' \in {"closed", "connected", "subscribed"}
  PROVE  LifecycleInv'
<1>1. command[<<c, k>>].at # "idle"
  BY DEF StartPoints, StopPoints
<1>2. Alone(c, k) /\ Fits(c, command[<<c, k>>].at)
  BY <1>1, HolderAlone, HolderFits
<1>3. Fits(c, next.at)'
  <2>1. CASE command[<<c, k>>].at \in StartPoints /\ next.at \in StartPoints
    <3>1. Starting(c)'
      BY <1>2, <2>1 DEF Fits, Starting, Up, coordinator, controller
    <3> QED
      BY <2>1, <3>1 DEF Fits, StartPoints, StopPoints
  <2>2. CASE command[<<c, k>>].at \in StopPoints /\ next.at \in StopPoints
    <3>1. Halting(c)'
      BY <1>2, <2>2 DEF Fits, Halting, Up, coordinator, controller
    <3> QED
      BY <2>2, <3>1 DEF Fits, StartPoints, StopPoints
  <2> QED
    BY <2>1, <2>2
<1>4. ControlUnchanged(c) /\ ControlTyped' /\ OwnershipTyped'
  BY DEF coordinator, controller, ownership, ControlUnchanged, ControlTyped,
         OwnershipTyped, LifecycleInv, TypeOK
<1> QED
  BY <1>2, <1>3, <1>4, ActionKeeps DEF coordinator

LEMMA GoMoves ==
  ASSUME LifecycleInv, NEW c \in Coordinators, NEW k \in Callers, NEW point \in Points,
         \/ command[<<c, k>>].at \in StartPoints /\ point \in StartPoints
         \/ command[<<c, k>>].at \in StopPoints /\ point \in StopPoints,
         Go(c, k, point),
         UNCHANGED <<coordinator, ownership, controller, receiving>>,
         transport' \in {"closed", "connected", "subscribed"}
  PROVE  LifecycleInv'
<1> DEFINE next == [command[<<c, k>>] EXCEPT !.at = point]
<1>1. next \in CommandType /\ next.at = point
  BY PointTyped DEF LifecycleInv
<1>2. command' = [command EXCEPT ![<<c, k>>] = next]
  BY DEF Go
<1> HIDE DEF next
<1> QED
  BY <1>1, <1>2, PointMoves

LEMMA AbortKeeps ==
  ASSUME LifecycleInv, NEW c \in Coordinators, NEW k \in Callers,
         command[<<c, k>>].at \in StartPoints, AbortStart(c, k)
  PROVE  LifecycleInv'
  BY GoMoves DEF AbortStart, Points, StartPoints

LEMMA ConnectKeeps ==
  ASSUME LifecycleInv, NEW c \in Coordinators, NEW k \in Callers, FinishConnect(c, k)
  PROVE  LifecycleInv'
<1>1. command[<<c, k>>].at \in StartPoints
  BY DEF FinishConnect, At, StartPoints
<1> QED
  BY <1>1, AbortKeeps, GoMoves DEF FinishConnect, Points, StartPoints

LEMMA SubscribeKeeps ==
  ASSUME LifecycleInv, NEW c \in Coordinators, NEW k \in Callers, FinishSubscribe(c, k)
  PROVE  LifecycleInv'
<1>1. command[<<c, k>>].at \in StartPoints /\ command[<<c, k>>].at # "idle"
  BY DEF FinishSubscribe, At, StartPoints
<1>2. Alone(c, k) /\ Starting(c)
  BY <1>1, HolderAlone, HolderFits DEF Fits
<1>3. CASE AbortStart(c, k)
  BY <1>1, <1>3, AbortKeeps
<1>4. CASE /\ transport' = "subscribed"
           /\ started' = [started EXCEPT ![c] = TRUE]
           /\ stopping' = [stopping EXCEPT ![c] = FALSE]
           /\ technical' = [technical EXCEPT ![c] = None]
           /\ End(c, k)
           /\ UNCHANGED <<assembled, ownership, controller, receiving>>
  <2>1. Serving(c)'
    BY <1>2, <1>4 DEF Starting, Serving, Up, controller, LifecycleInv, TypeOK
  <2>2. Fits(c, "idle")'
    BY <2>1 DEF Fits, StartPoints, StopPoints
  <2>3. ControlUnchanged(c) /\ ControlTyped' /\ OwnershipTyped'
    BY <1>4 DEF controller, ownership, ControlUnchanged, ControlTyped, OwnershipTyped,
                LifecycleInv, TypeOK
  <2> QED
    BY <1>2, <1>4, <2>2, <2>3, NoCommandTyped, ActionKeeps DEF End
<1> QED
  BY <1>3, <1>4 DEF FinishSubscribe

LEMMA CleaningKeeps ==
  ASSUME LifecycleInv, NEW c \in Coordinators, NEW k \in Callers, FinishCleaning(c, k)
  PROVE  LifecycleInv'
<1>1. command[<<c, k>>].at = "cleaning"
  BY DEF FinishCleaning, At
<1>2. Alone(c, k) /\ Starting(c)
  BY <1>1, HolderAlone, HolderFits DEF Fits, StartPoints
<1>3. /\ Resting(c)' \/ Failed(c)'
      /\ ControlUnchanged(c)
      /\ ControlTyped' /\ OwnershipTyped'
  BY <1>2, CleanUpEnds DEF FinishCleaning, LifecycleInv, Starting, Up
<1>4. Fits(c, "idle")'
  BY <1>3 DEF Fits, StartPoints, StopPoints
<1> QED
  BY <1>2, <1>3, <1>4, NoCommandTyped, ActionKeeps
  DEF FinishCleaning, End, LifecycleInv, TypeOK
-----------------------------------------------------------------------------
(* The actions of stop.                                                    *)

LEMMA StopIdleKeeps ==
  ASSUME LifecycleInv, NEW c \in Coordinators, NEW k \in Callers, NEW restart \in BOOLEAN,
         StopIdle(c, k, restart)
  PROVE  LifecycleInv'
<1>1. Alone(c, k) /\ Resting(c)
  BY HolderAlone, FreeFits DEF StopIdle, Serving, Failed
<1>2. /\ Resting(c)' \/ Failed(c)'
      /\ ControlUnchanged(c)
      /\ ControlTyped' /\ OwnershipTyped'
  BY <1>1, CleanUpEnds DEF StopIdle, LifecycleInv, Resting, Quiescent
<1>3. transport' \in {"closed", "connected", "subscribed"}
  BY DEF StopIdle, LifecycleInv, TypeOK
<1>4. CASE End(c, k)
  <2>1. Fits(c, "idle")'
    BY <1>2 DEF Fits, StartPoints, StopPoints
  <2> QED
    BY <1>1, <1>2, <1>3, <1>4, <2>1, NoCommandTyped, ActionKeeps DEF StopIdle, End
<1>5. CASE technical'[c] = None /\ Go(c, k, "restarting")
  <2> DEFINE next == [command[<<c, k>>] EXCEPT !.at = "restarting"]
  <2>1. next \in CommandType /\ next.at = "restarting"
    BY PointTyped DEF LifecycleInv, Points
  <2>2. command' = [command EXCEPT ![<<c, k>>] = next]
    BY <1>5 DEF Go
  <2>3. Fits(c, "restarting")'
    BY <1>2, <1>5 DEF Failed, Fits, StartPoints, StopPoints
  <2> HIDE DEF next
  <2> QED
    BY <1>1, <1>2, <1>3, <2>1, <2>2, <2>3, ActionKeeps DEF StopIdle
<1> QED
  BY <1>4, <1>5 DEF StopIdle

LEMMA StopStartedKeeps ==
  ASSUME LifecycleInv, NEW c \in Coordinators, NEW k \in Callers, NEW restart \in BOOLEAN,
         StopStarted(c, k, restart)
  PROVE  LifecycleInv'
<1> DEFINE next == [at |-> "closing", restart |-> restart, close_error |-> FALSE]
<1>1. Alone(c, k) /\ Serving(c)
  BY HolderAlone, FreeFits DEF StopStarted, Resting, Failed
<1>2. next \in CommandType /\ next.at = "closing"
  BY DEF CommandType, Points, StopPoints
<1>3. Halting(c)'
  BY <1>1 DEF StopStarted, Serving, Halting, Up, controller, LifecycleInv, TypeOK
<1>4. Fits(c, "closing")'
  BY <1>3 DEF Fits, StartPoints, StopPoints
<1>5. ControlUnchanged(c) /\ ControlTyped' /\ OwnershipTyped'
  BY DEF StopStarted, controller, ownership, ControlUnchanged, ControlTyped,
         OwnershipTyped, LifecycleInv, TypeOK
<1>6. command' = [command EXCEPT ![<<c, k>>] = next]
  BY DEF StopStarted
<1> HIDE DEF next
<1> QED
  BY <1>1, <1>2, <1>4, <1>5, <1>6, ActionKeeps DEF StopStarted

LEMMA ClosingKeeps ==
  ASSUME LifecycleInv, NEW c \in Coordinators, NEW k \in Callers, FinishClosing(c, k)
  PROVE  LifecycleInv'
<1>1. PICK error \in BOOLEAN :
        command' = [command EXCEPT ![<<c, k>>] =
                      [at |-> "draining", restart |-> @.restart, close_error |-> error]]
  BY DEF FinishClosing
<1> DEFINE next == [at |-> "draining", restart |-> command[<<c, k>>].restart,
                    close_error |-> error]
<1>2. next \in CommandType /\ next.at = "draining"
  BY DEF LifecycleInv, TypeOK, CommandType, Points, StopPoints
<1>3. command' = [command EXCEPT ![<<c, k>>] = next]
  BY <1>1
<1>4. command[<<c, k>>].at \in StopPoints /\ "draining" \in StopPoints
  BY DEF FinishClosing, At, StopPoints
<1>5. /\ UNCHANGED <<coordinator, ownership, controller, receiving>>
      /\ transport' \in {"closed", "connected", "subscribed"}
  BY DEF FinishClosing, LifecycleInv, TypeOK
<1> HIDE DEF next
<1> QED
  BY <1>2, <1>3, <1>4, <1>5, PointMoves

\* A stop ends: in an error state, or with nothing left.
LEMMA HaltFails ==
  ASSUME LifecycleInv, NEW c \in Coordinators, NEW k \in Callers, NEW name \in TechnicalStates,
         Alone(c, k), Fail(c, name), End(c, k),
         UNCHANGED <<assembled, ownership, receiving>>,
         transport' \in {"closed", "connected", "subscribed"},
         \A d \in Coordinators \ {c} :
           state'[d] = state[d] /\ active'[d] = active[d] /\ connected'[d] = connected[d],
         state' \in [Coordinators -> {"STOPPED", "RUNNING", "STOPPING"}],
         active' \in [Coordinators -> BOOLEAN],
         connected' \in [Coordinators -> BOOLEAN]
  PROVE  LifecycleInv'
<1>1. /\ Failed(c)'
      /\ ControlUnchanged(c) /\ ControlTyped' /\ OwnershipTyped'
  BY FailTyped DEF LifecycleInv, ControlUnchanged, ControlTyped, OwnershipTyped,
                   ownership, TypeOK
<1>2. Fits(c, "idle")'
  BY <1>1 DEF Fits, StartPoints, StopPoints
<1> QED
  BY <1>1, <1>2, NoCommandTyped, ActionKeeps DEF End

LEMMA TimeoutKeeps ==
  ASSUME LifecycleInv, NEW c \in Coordinators, NEW k \in Callers, NEW name \in TechnicalStates,
         command[<<c, k>>].at # "idle", Fail(c, name), End(c, k),
         UNCHANGED <<assembled, ownership, controller, transport, receiving>>
  PROVE  LifecycleInv'
<1>1. Alone(c, k)
  BY HolderAlone
<1> QED
  BY <1>1, HaltFails DEF controller, LifecycleInv, TypeOK

LEMMA DrainedKeeps ==
  ASSUME LifecycleInv, NEW c \in Coordinators, NEW k \in Callers, Drained(c, k)
  PROVE  LifecycleInv'
<1>1. command[<<c, k>>].at \in StopPoints /\ command[<<c, k>>].at # "idle"
  BY DEF Drained, At, StopPoints
<1>2. Alone(c, k) /\ Halting(c)
  BY <1>1, HolderAlone, HolderFits DEF Fits
<1>3. TypeOK /\ transport' \in {"closed", "connected", "subscribed"}
  BY DEF Drained, LifecycleInv, TypeOK
<1>4. active[c] = TRUE /\ connected[c] = TRUE /\ receiving[c] = {}
  BY <1>2 DEF Drained, Quiet, Halting, Up
<1>5. CASE ControllerStopRaises(c, active[c], connected[c])
           /\ Fail(c, "STOP_CONTROLLER_FAILED")
           /\ UNCHANGED ownership
           /\ End(c, k)
  <2>1. "STOP_CONTROLLER_FAILED" \in TechnicalStates
    BY DEF TechnicalStates
  <2> QED
    BY <1>2, <1>3, <1>4, <1>5, <2>1, RaisesTyped, HaltFails DEF Drained
<1>6. CASE ControllerStops(c, active[c], connected[c])
  <2>1. /\ state'[c] = "STOPPED" /\ active'[c] = FALSE /\ connected'[c] = FALSE
        /\ \A d \in Coordinators \ {c} :
             state'[d] = state[d] /\ active'[d] = active[d] /\ connected'[d] = connected[d]
        /\ state' \in [Coordinators -> {"STOPPED", "RUNNING", "STOPPING"}]
        /\ active' \in [Coordinators -> BOOLEAN]
        /\ connected' \in [Coordinators -> BOOLEAN]
    BY <1>3, <1>4, <1>6, StopsTyped
  <2>2. CASE /\ Fail(c, "STOP_EXECUTION_CLOSE_FAILED")
             /\ UNCHANGED ownership
             /\ End(c, k)
    <3>1. "STOP_EXECUTION_CLOSE_FAILED" \in TechnicalStates
      BY DEF TechnicalStates
    <3> QED
      BY <1>2, <1>3, <2>1, <2>2, <3>1, HaltFails DEF Drained
  <2>3. CASE /\ started' = [started EXCEPT ![c] = FALSE]
             /\ stopping' = [stopping EXCEPT ![c] = FALSE]
             /\ technical' = [technical EXCEPT ![c] = None]
             /\ ReleaseOwnership(c)
             /\ \/ command' = [command EXCEPT
                                 ![<<c, k>>] = [NoCommand EXCEPT !.at = "restarting"]]
                \/ End(c, k)
    <3>1. Resting(c)'
      BY <1>3, <1>4, <2>1, <2>3 DEF Drained, Resting, Quiescent, TypeOK
    <3>2. ControlUnchanged(c) /\ ControlTyped' /\ OwnershipTyped'
      BY <1>3, <2>1, <2>3, ReleaseTyped DEF ControlUnchanged, ControlTyped, TypeOK
    <3>3. Fits(c, "idle")' /\ Fits(c, "restarting")'
      BY <3>1 DEF Fits, StartPoints, StopPoints
    <3>4. PICK next \in CommandType :
            /\ next.at \in {"idle", "restarting"}
            /\ command' = [command EXCEPT ![<<c, k>>] = next]
      BY <2>3, NoCommandTyped DEF End, NoCommand, CommandType, Points
    <3>5. Fits(c, next.at)'
      BY <3>3, <3>4
    <3> QED
      BY <1>2, <1>3, <3>2, <3>4, <3>5, ActionKeeps DEF Drained
  <2> QED
    BY <2>2, <2>3, <1>5 DEF Drained
<1> QED
  BY <1>5, <1>6 DEF Drained

LEMMA StoppingKeeps ==
  ASSUME LifecycleInv, NEW c \in Coordinators, NEW k \in Callers,
         DrainTimeout(c, k) \/ FinishCancelling(c, k) \/ CancellationTimeout(c, k)
  PROVE  LifecycleInv'
<1>1. /\ command[<<c, k>>].at \in StopPoints /\ command[<<c, k>>].at # "idle"
      /\ "cancelling" \in StopPoints /\ "draining again" \in StopPoints
      /\ "STOP_TIMEOUT" \in TechnicalStates
      /\ transport \in {"closed", "connected", "subscribed"}
  BY DEF DrainTimeout, FinishCancelling, CancellationTimeout, At, StopPoints,
         TechnicalStates, LifecycleInv, TypeOK
<1>2. CASE DrainTimeout(c, k)
  BY <1>1, <1>2, GoMoves DEF DrainTimeout, Points
<1>3. CASE FinishCancelling(c, k)
  <2>1. CASE Go(c, k, "draining again") /\ UNCHANGED coordinator
    BY <1>1, <1>3, <2>1, GoMoves DEF FinishCancelling, Points
  <2>2. CASE StopTimeout(c) /\ End(c, k) /\ UNCHANGED assembled
    BY <1>1, <1>3, <2>2, TimeoutKeeps DEF FinishCancelling, StopTimeout
  <2> QED
    BY <1>3, <2>1, <2>2 DEF FinishCancelling
<1>4. CASE CancellationTimeout(c, k)
  BY <1>1, <1>4, TimeoutKeeps DEF CancellationTimeout, StopTimeout
<1> QED
  BY <1>2, <1>3, <1>4

LEMMA CancelKeeps ==
  ASSUME LifecycleInv, NEW c \in Coordinators, NEW k \in Callers, Cancel(c, k)
  PROVE  LifecycleInv'
<1>1. CASE (At(c, k, "connecting") \/ At(c, k, "subscribing")) /\ AbortStart(c, k)
  BY <1>1, AbortKeeps DEF At, StartPoints
<1>2. ASSUME NEW name \in TechnicalStates, command[<<c, k>>].at # "idle", Fail(c, name),
             End(c, k), UNCHANGED <<assembled, ownership, controller, transport, receiving>>
      PROVE  LifecycleInv'
  BY <1>2, TimeoutKeeps
<1>3. CASE /\ At(c, k, "cleaning") /\ Fail(c, "STARTUP_CLEANUP_CANCELLED")
           /\ End(c, k)
           /\ UNCHANGED <<assembled, ownership, controller, transport, receiving>>
  BY <1>2, <1>3 DEF At, TechnicalStates
<1>4. CASE /\ command[<<c, k>>].at \in StopPoints /\ Fail(c, "STOP_SHUTDOWN_CANCELLED")
           /\ End(c, k)
           /\ UNCHANGED <<assembled, ownership, controller, transport, receiving>>
  BY <1>2, <1>4 DEF StopPoints, TechnicalStates
<1> QED
  BY <1>1, <1>3, <1>4 DEF Cancel

\* A receive joins a serving coordinator only; where none may be, none comes.
LEMMA ReceiveKeeps ==
  ASSUME LifecycleInv, NEW c \in Coordinators, NEW r \in Receivers,
         Receive(c, r) \/ EndReceive(c, r)
  PROVE  LifecycleInv'
<1>1. UNCHANGED <<coordinator, ownership, controller, transport, command>>
  BY DEF Receive, EndReceive
<1>2. /\ receiving' \in [Coordinators -> SUBSET Receivers]
      /\ \A d \in Coordinators \ {c} : receiving'[d] = receiving[d]
  BY DEF Receive, EndReceive, LifecycleInv, TypeOK
<1>3. TypeOK'
  BY <1>1, <1>2 DEF coordinator, ownership, controller, LifecycleInv, TypeOK
<1>4. Elsewhere(c)
  BY <1>1, <1>2 DEF coordinator, controller, Elsewhere
<1>5. receiving[c] = {} /\ ~Receives(c) => receiving'[c] = {}
  BY DEF Receive, EndReceive, LifecycleInv, TypeOK
<1>6. Resting(c) \/ Starting(c) => receiving'[c] = {}
  BY <1>5 DEF Resting, Starting, Quiescent, Receives
<1>7. \A point : Fits(c, point) => Fits(c, point)'
  BY <1>1, <1>6 DEF coordinator, controller, Fits, Resting, Serving, Failed, Starting,
                    Halting, Quiescent, Up
<1>8. Serialized(c)' /\ Conditioned(c)'
  BY <1>1, <1>7 DEF Serialized, Conditioned, Alone, LockFree, At, LifecycleInv
<1> QED
  BY <1>3, <1>4, <1>8, ElsewhereKeeps DEF LifecycleInv

LEMMA AssembleKeeps ==
  ASSUME LifecycleInv, NEW c \in Coordinators, Assemble(c)
  PROVE  LifecycleInv'
<1>1. TypeOK'
  BY DEF Assemble, controller, LifecycleInv, TypeOK
<1>2. UNCHANGED <<started, stopping, technical, controller, receiving, command>>
  BY DEF Assemble
<1>3. ASSUME NEW d \in Coordinators
      PROVE  Serialized(d)' /\ Conditioned(d)'
  BY <1>2 DEF controller, Serialized, Conditioned, Alone, LockFree, At, Fits, Resting,
              Serving, Failed, Starting, Halting, Quiescent, Up, LifecycleInv
<1> QED
  BY <1>1, <1>3 DEF LifecycleInv

LEMMA StutterKeeps == LifecycleInv /\ UNCHANGED vars => LifecycleInv'
<1> SUFFICES ASSUME LifecycleInv, UNCHANGED vars PROVE LifecycleInv'
  OBVIOUS
<1>1. TypeOK'
  BY DEF vars, coordinator, ownership, controller, LifecycleInv, TypeOK
<1>2. ASSUME NEW d \in Coordinators
      PROVE  Serialized(d)' /\ Conditioned(d)'
  BY DEF vars, coordinator, controller, Serialized, Conditioned, Alone, LockFree, At, Fits,
         Resting, Serving, Failed, Starting, Halting, Quiescent, Up, LifecycleInv
<1> QED
  BY <1>1, <1>2 DEF LifecycleInv

LEMMA NextLifecycle == LifecycleInv /\ [Next]_vars => LifecycleInv'
<1> SUFFICES ASSUME LifecycleInv, [Next]_vars PROVE LifecycleInv'
  OBVIOUS
<1>1. ASSUME NEW c \in Coordinators, NEW k \in Callers, Begin(c, k)
      PROVE  LifecycleInv'
  BY <1>1, StartKeeps, StopIdleKeeps, StopStartedKeeps DEF Begin
<1>2. ASSUME NEW c \in Coordinators, NEW k \in Callers, Progress(c, k)
      PROVE  LifecycleInv'
  BY <1>2, StartKeeps, ConnectKeeps, SubscribeKeeps, CleaningKeeps, ClosingKeeps,
     DrainedKeeps, StoppingKeeps DEF Progress
<1> QED
  BY <1>1, <1>2, CancelKeeps, ReceiveKeeps, AssembleKeeps, StutterKeeps DEF Next
-----------------------------------------------------------------------------
\* Every reachable state of the lifecycle is well typed.
THEOREM LifecycleTyped == Spec => []TypeOK
<1>1. LifecycleInv => TypeOK
  BY DEF LifecycleInv
<1> QED
  BY <1>1, InitLifecycle, NextLifecycle, PTL DEF Spec

LEMMA ServingIsUp == LifecycleInv => StartedMeansRunning
<1> SUFFICES ASSUME LifecycleInv, NEW c \in Coordinators, Receives(c) PROVE Up(c)
  BY DEF StartedMeansRunning, Up
<1>1. CASE LockFree(c)
  BY <1>1, FreeFits DEF Receives, Resting, Failed, Serving
<1>2. CASE ~LockFree(c)
  <2>1. PICK k \in Callers : command[<<c, k>>].at # "idle"
    BY <1>2 DEF LockFree, At
  <2>2. /\ Fits(c, command[<<c, k>>].at)
        /\ command[<<c, k>>].at \in {"restarting"} \cup StartPoints \cup StopPoints
    BY <2>1, HolderFits DEF LifecycleInv, TypeOK
  <2> QED
    BY <2>2 DEF Fits, Receives, Resting, Starting, Halting
<1> QED
  BY <1>1, <1>2

\* A coordinator that takes receives has its controller running, its bundle
\* active and its broker connected, whatever the other commands and
\* coordinators do and however they fail.
THEOREM StartedIsRunning == Spec => []StartedMeansRunning
  BY ServingIsUp, InitLifecycle, NextLifecycle, PTL DEF Spec

LEMMA AdmittedIsResting == LifecycleInv => AdmittedMeansQuiescent
<1> SUFFICES ASSUME LifecycleInv, NEW c \in Coordinators,
                    ~started[c], technical[c] = None,
                    \A k \in Callers : At(c, k, "idle")
             PROVE  Resting(c)
  BY DEF AdmittedMeansQuiescent, Resting, Quiescent
<1> QED
  BY FreeFits DEF LockFree, Serving, Failed

\* A coordinator that admits a start, with no command under way, has nothing
\* left of its last run.
THEOREM AdmittedIsQuiescent == Spec => []AdmittedMeansQuiescent
  BY AdmittedIsResting, InitLifecycle, NextLifecycle, PTL DEF Spec
-----------------------------------------------------------------------------
\* What a step may do to the claims: give up that of a coordinator nothing is
\* received on and that is not started.
HandsOn(c) == release[c] /\ ~release'[c] => receiving[c] = {} /\ ~started'[c]

LEMMA KeepsClaims ==
  ASSUME UNCHANGED release
  PROVE  \A d \in Coordinators : HandsOn(d)
  BY DEF HandsOn

LEMMA GivesUp ==
  ASSUME TypeOK, NEW c \in Coordinators, ReleaseOwnership(c),
         receiving[c] = {}, started'[c] = FALSE
  PROVE  \A d \in Coordinators : HandsOn(d)
<1>1. \A d \in Coordinators \ {c} : release'[d] = release[d]
  BY DEF ReleaseOwnership, TypeOK
<1> QED
  BY <1>1 DEF HandsOn

LEMMA CleanUpHandsOn ==
  ASSUME TypeOK, NEW c \in Coordinators, NEW bundle, NEW broker,
         CleanUp(c, bundle, broker), receiving[c] = {}, started[c] = FALSE
  PROVE  \A d \in Coordinators : HandsOn(d)
  BY GivesUp, KeepsClaims DEF CleanUp, ownership

LEMMA StepHandsOn ==
  ASSUME LifecycleInv, [Next]_vars, NEW d \in Coordinators
  PROVE  HandsOn(d)
<1> USE DEF LifecycleInv
<1>1. ASSUME NEW c \in Coordinators, NEW k \in Callers, Start(c, k)
      PROVE  HandsOn(d)
  <2>1. CASE ControllerStartRaises(c, k) \/ ReconcileRaises(c, k)
    <3>1. Resting(c)
      BY <2>1, StartsFromRest DEF ControllerStartRaises, ReconcileRaises
    <3> QED
      BY <2>1, <3>1, CleanUpHandsOn
      DEF ControllerStartRaises, ReconcileRaises, Resting, Quiescent
  <2>2. CASE StartRefused(c, k) \/ StartExecution(c, k)
    BY <2>2, KeepsClaims DEF StartRefused, StartExecution, ownership
  <2> QED
    BY <1>1, <2>1, <2>2 DEF Start
<1>2. ASSUME NEW c \in Coordinators, NEW k \in Callers, NEW restart \in BOOLEAN,
             StopIdle(c, k, restart) \/ StopStarted(c, k, restart)
      PROVE  HandsOn(d)
  <2>1. CASE StopIdle(c, k, restart)
    <3>1. Resting(c)
      BY <2>1, FreeFits DEF StopIdle, Serving, Failed
    <3> QED
      BY <2>1, <3>1, CleanUpHandsOn DEF StopIdle, Resting, Quiescent
  <2>2. CASE StopStarted(c, k, restart)
    BY <2>2, KeepsClaims DEF StopStarted, ownership
  <2> QED
    BY <1>2, <2>1, <2>2
<1>3. ASSUME NEW c \in Coordinators, NEW k \in Callers, FinishCleaning(c, k)
      PROVE  HandsOn(d)
  <2>1. Starting(c)
    BY <1>3, HolderFits DEF FinishCleaning, At, Fits, StartPoints
  <2> QED
    BY <1>3, <2>1, CleanUpHandsOn DEF FinishCleaning, Starting
<1>4. ASSUME NEW c \in Coordinators, NEW k \in Callers, Drained(c, k)
      PROVE  HandsOn(d)
  <2>1. receiving[c] = {}
    BY <1>4 DEF Drained, Quiet
  <2>2. CASE started' = [started EXCEPT ![c] = FALSE] /\ ReleaseOwnership(c)
    BY <2>1, <2>2, GivesUp DEF TypeOK
  <2>3. CASE UNCHANGED ownership
    BY <2>3, KeepsClaims DEF ownership
  <2> QED
    BY <1>4, <2>2, <2>3 DEF Drained
<1>5. ASSUME NEW c \in Coordinators, NEW k \in Callers,
             \/ FinishConnect(c, k) \/ FinishSubscribe(c, k) \/ FinishClosing(c, k)
             \/ DrainTimeout(c, k) \/ FinishCancelling(c, k)
             \/ CancellationTimeout(c, k) \/ Cancel(c, k)
      PROVE  HandsOn(d)
  <2>1. UNCHANGED release
    BY <1>5 DEF FinishConnect, FinishSubscribe, FinishClosing, DrainTimeout,
                FinishCancelling, CancellationTimeout, Cancel, AbortStart, ownership
  <2> QED
    BY <2>1, KeepsClaims
<1>6. ASSUME NEW c \in Coordinators, Assemble(c)
      PROVE  HandsOn(d)
  BY <1>6 DEF Assemble, HandsOn, TypeOK
<1>7. ASSUME NEW c \in Coordinators, NEW r \in Receivers, Receive(c, r) \/ EndReceive(c, r)
      PROVE  HandsOn(d)
  BY <1>7, KeepsClaims DEF Receive, EndReceive, ownership
<1>8. CASE UNCHANGED vars
  BY <1>8, KeepsClaims DEF vars, ownership
<1>9. ASSUME NEW c \in Coordinators, NEW k \in Callers, Begin(c, k) \/ Progress(c, k)
      PROVE  HandsOn(d)
  BY <1>9, <1>1, <1>2, <1>3, <1>4, <1>5 DEF Begin, Progress
<1> QED
  BY <1>5, <1>6, <1>7, <1>8, <1>9 DEF Next

\* No failure, timeout or cancellation makes a coordinator give up the
\* transport while an execution is still received on it or while it counts as
\* started.
THEOREM ReleasedIsDrained == Spec => ReleasedWhenDrained
<1>1. LifecycleInv /\ [Next]_vars =>
        [\A c \in Coordinators :
           release[c] /\ ~release'[c] => receiving[c] = {} /\ ~started'[c]]_vars
  BY StepHandsOn DEF HandsOn
<1> QED
  BY <1>1, InitLifecycle, NextLifecycle, PTL DEF Spec, ReleasedWhenDrained
=============================================================================
