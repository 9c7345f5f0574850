---------------------------- MODULE LiveLifecycle ----------------------------
(***************************************************************************)
(* Starting and stopping the live runtime: the coordinators assembled over *)
(* one execution transport (LiveRuntimeLifecycleCoordinator), the runtime  *)
(* controller and broker of each, the commands of the Control Tower (one   *)
(* lock per coordinator) and the tasks that receive executions.            *)
(*                                                                         *)
(* asyncio switches tasks only at an await: an action runs from one await  *)
(* of the code to the next.  Awaiting close on a transport without a       *)
(* socket does not switch; here it may, which only adds behaviours.        *)
(***************************************************************************)
EXTENDS Integers

CONSTANTS
  Coordinators,
  Callers,            \* tasks that issue commands
  Receivers,          \* tasks that call receive_execution_once
  None,
  Failures,           \* what may go wrong, see FailureKinds
  BrokerDisconnects   \* the broker has the disconnect() bundle.shutdown calls

VARIABLES
  assembled, started, stopping, technical,  \* coordinator
  release,      \* the coordinator still has its ownership callback
  state,        \* RuntimeController._state
  active,       \* EnvironmentHub._active is a bundle
  connected,    \* broker.connected
  owner,        \* who claimed the transport in the ownership registry
  transport,    \* "closed", "connected", "subscribed"
  receiving,    \* LiveRuntimeLifecycleCoordinator._receive_tasks
  command       \* where each caller is in its command

coordinator == <<assembled, started, stopping, technical>>
ownership == <<owner, release>>
controller == <<state, active, connected>>
vars == <<coordinator, ownership, controller, transport, receiving, command>>

\* start: the bundle cannot be built, initialized or connected; stop: its
\* stop or shutdown raises; connect and close: the transport's.
FailureKinds == {"start", "stop", "reconcile", "connect", "close",
                 "stuck receive", "cancel"}

TechnicalStates ==
  {"STARTUP_CLEANUP_CANCELLED", "STOP_CONTROLLER_FAILED", "STOP_TIMEOUT",
   "STOP_EXECUTION_CLOSE_FAILED", "STOP_SHUTDOWN_CANCELLED"}

ASSUME LifecycleAssumption ==
  /\ Failures \subseteq FailureKinds
  /\ BrokerDisconnects \in BOOLEAN
  /\ None \notin Coordinators \cup TechnicalStates

StartPoints == {"connecting", "subscribing", "cleaning"}
StopPoints == {"closing", "draining", "cancelling", "draining again"}

NoCommand == [at |-> "idle", restart |-> FALSE, close_error |-> FALSE]

Init ==
  /\ assembled = [c \in Coordinators |-> FALSE]
  /\ started = [c \in Coordinators |-> FALSE]
  /\ stopping = [c \in Coordinators |-> FALSE]
  /\ technical = [c \in Coordinators |-> None]
  /\ release = [c \in Coordinators |-> FALSE]
  /\ state = [c \in Coordinators |-> "STOPPED"]
  /\ active = [c \in Coordinators |-> FALSE]
  /\ connected = [c \in Coordinators |-> FALSE]
  /\ owner = None
  /\ transport = "closed"
  /\ receiving = [c \in Coordinators |-> {}]
  /\ command = [ck \in Coordinators \X Callers |-> NoCommand]

At(c, k, point) == command[<<c, k>>].at = point
Go(c, k, point) == command' = [command EXCEPT ![<<c, k>>] = [@ EXCEPT !.at = point]]
End(c, k) == command' = [command EXCEPT ![<<c, k>>] = NoCommand]

\* Slip: commands are not serialized.
LockFreeSlip(c) == TRUE

\* LiveControlTowerRuntimeAPI._command_lock.
LockFree(c) == \A k \in Callers : At(c, k, "idle")

\* create_live_runtime_lifecycle_coordinator claims the transport, or raises.
Assemble(c) ==
  /\ ~assembled[c]
  /\ owner = None
  /\ owner' = c
  /\ release' = [release EXCEPT ![c] = TRUE]
  /\ assembled' = [assembled EXCEPT ![c] = TRUE]
  /\ UNCHANGED <<started, stopping, technical, controller, transport, receiving, command>>

ReleaseOwnership(c) ==
  /\ owner' = IF release[c] /\ owner = c THEN None ELSE owner
  /\ release' = [release EXCEPT ![c] = FALSE]

\* The command ends in an error state nothing leads out of.
Fail(c, name) ==
  /\ started' = [started EXCEPT ![c] = FALSE]
  /\ stopping' = [stopping EXCEPT ![c] = TRUE]
  /\ technical' = [technical EXCEPT ![c] = name]

Controller(c, runtime, bundle, broker) ==
  /\ state' = [state EXCEPT ![c] = runtime]
  /\ active' = [active EXCEPT ![c] = bundle]
  /\ connected' = [connected EXCEPT ![c] = broker]

\* RuntimeController.stop, called with or without an active bundle.
ControllerStops(c, bundle, broker) ==
  /\ bundle /\ broker => BrokerDisconnects
  /\ Controller(c, "STOPPED", FALSE, broker /\ ~bundle)

ControllerStopRaises(c, bundle, broker) ==
  /\ bundle
  /\ (broker /\ ~BrokerDisconnects) \/ "stop" \in Failures
  /\ Controller(c, "STOPPING", bundle, broker)

\* _safe_controller_stop, then the release of the transport.
CleanUp(c, bundle, broker) ==
  \/ /\ ControllerStops(c, bundle, broker)
     /\ ReleaseOwnership(c)
     /\ UNCHANGED <<started, stopping, technical>>
  \/ /\ ControllerStopRaises(c, bundle, broker)
     /\ Fail(c, "STOP_CONTROLLER_FAILED")
     /\ UNCHANGED ownership

-----------------------------------------------------------------------------
(* start.                                                                  *)

\* _restart_admitted
Admitted(c) == ~started[c] /\ ~stopping[c] /\ technical[c] = None

\* The command has the lock, or is the start of a restart that stopped.
Starts(c, k) ==
  \/ assembled[c] /\ LockFree(c) /\ At(c, k, "idle")
  \/ At(c, k, "restarting")

StartRefused(c, k) ==
  /\ Starts(c, k)
  /\ ~Admitted(c)
  /\ End(c, k)
  /\ UNCHANGED <<coordinator, ownership, controller, transport, receiving>>

ControllerStartable(c) == state[c] # "RUNNING" /\ ~active[c]

ControllerStartRaises(c, k) ==
  /\ Starts(c, k) /\ Admitted(c)
  /\ ControllerStartable(c) => "start" \in Failures
  /\ CleanUp(c, active[c], connected[c])
  /\ End(c, k)
  /\ UNCHANGED <<assembled, transport, receiving>>

ReconcileRaises(c, k) ==
  /\ Starts(c, k) /\ Admitted(c) /\ ControllerStartable(c)
  /\ "reconcile" \in Failures
  /\ CleanUp(c, TRUE, TRUE)
  /\ End(c, k)
  /\ UNCHANGED <<assembled, transport, receiving>>

\* start_execution; connect raises at once on a transport that is connected,
\* and the clean-up closes it.
StartExecution(c, k) ==
  /\ Starts(c, k) /\ Admitted(c) /\ ControllerStartable(c)
  /\ Controller(c, "RUNNING", TRUE, TRUE)
  /\ IF transport = "closed" THEN Go(c, k, "connecting") ELSE Go(c, k, "cleaning")
  /\ transport' = "closed"
  /\ UNCHANGED <<coordinator, ownership, receiving>>

\* start_execution raises or is cancelled: close_execution.
AbortStart(c, k) ==
  /\ transport' = "closed"
  /\ Go(c, k, "cleaning")
  /\ UNCHANGED <<coordinator, ownership, controller, receiving>>

FinishConnect(c, k) ==
  /\ At(c, k, "connecting")
  /\ \/ /\ transport # "subscribed"
        /\ transport' = "connected"
        /\ Go(c, k, "subscribing")
        /\ UNCHANGED <<coordinator, ownership, controller, receiving>>
     \/ (transport = "subscribed" \/ "connect" \in Failures) /\ AbortStart(c, k)

FinishSubscribe(c, k) ==
  /\ At(c, k, "subscribing")
  /\ \/ /\ transport # "closed"
        /\ transport' = "subscribed"
        /\ started' = [started EXCEPT ![c] = TRUE]
        /\ stopping' = [stopping EXCEPT ![c] = FALSE]
        /\ technical' = [technical EXCEPT ![c] = None]
        /\ End(c, k)
        /\ UNCHANGED <<assembled, ownership, controller, receiving>>
     \/ (transport = "closed" \/ "connect" \in Failures) /\ AbortStart(c, k)

\* An error of this close is ignored.
FinishCleaning(c, k) ==
  /\ At(c, k, "cleaning")
  /\ CleanUp(c, active[c], connected[c])
  /\ End(c, k)
  /\ UNCHANGED <<assembled, transport, receiving>>

-----------------------------------------------------------------------------
(* stop.                                                                   *)

\* Of a coordinator that is not started.  An error state is a refusal.
StopIdle(c, k, restart) ==
  /\ assembled[c] /\ LockFree(c) /\ At(c, k, "idle")
  /\ ~started[c]
  /\ technical[c] = None
  /\ CleanUp(c, active[c], connected[c])
  /\ IF restart /\ technical'[c] = None THEN Go(c, k, "restarting") ELSE End(c, k)
  /\ UNCHANGED <<assembled, transport, receiving>>

StopStarted(c, k, restart) ==
  /\ assembled[c] /\ LockFree(c) /\ At(c, k, "idle")
  /\ started[c]
  /\ stopping' = [stopping EXCEPT ![c] = TRUE]
  /\ transport' = "closed"
  /\ command' = [command EXCEPT ![<<c, k>>] =
                   [at |-> "closing", restart |-> restart, close_error |-> FALSE]]
  /\ UNCHANGED <<assembled, started, technical, ownership, controller, receiving>>

FinishClosing(c, k) ==
  /\ At(c, k, "closing")
  /\ \E error \in BOOLEAN :
       /\ error => "close" \in Failures
       /\ command' = [command EXCEPT ![<<c, k>>] =
                        [at |-> "draining", restart |-> @.restart, close_error |-> error]]
  /\ UNCHANGED <<coordinator, ownership, controller, transport, receiving>>

\* Slip: the receives still under way are not waited for.
QuietSlip(c) == TRUE

\* _receives_drained is set.
Quiet(c) == receiving[c] = {}

\* The wait for the receives ends in time: the controller stops.  After a
\* close that raised, the transport stays claimed.
Drained(c, k) ==
  /\ At(c, k, "draining") \/ At(c, k, "draining again")
  /\ Quiet(c)
  /\ \/ /\ ControllerStops(c, active[c], connected[c])
        /\ IF command[<<c, k>>].close_error
           THEN /\ Fail(c, "STOP_EXECUTION_CLOSE_FAILED")
                /\ UNCHANGED ownership
                /\ End(c, k)
           ELSE /\ started' = [started EXCEPT ![c] = FALSE]
                /\ stopping' = [stopping EXCEPT ![c] = FALSE]
                /\ technical' = [technical EXCEPT ![c] = None]
                /\ ReleaseOwnership(c)
                /\ IF command[<<c, k>>].restart
                   THEN command' = [command EXCEPT ![<<c, k>>] = [NoCommand EXCEPT !.at = "restarting"]]
                   ELSE End(c, k)
     \/ /\ ControllerStopRaises(c, active[c], connected[c])
        /\ Fail(c, "STOP_CONTROLLER_FAILED")
        /\ UNCHANGED ownership
        /\ End(c, k)
  /\ UNCHANGED <<assembled, transport, receiving>>

\* The graceful timeout: _cancel_inflight_receives closes the transport again.
DrainTimeout(c, k) ==
  /\ At(c, k, "draining")
  /\ receiving[c] # {}
  /\ "stuck receive" \in Failures
  /\ transport' = "closed"
  /\ Go(c, k, "cancelling")
  /\ UNCHANGED <<coordinator, ownership, controller, receiving>>

\* Slip: the technical state is the message of the exception.
StopTimeoutSlip(c) == Fail(c, "LIVE_RUNTIME_SHUTDOWN_DRAIN_TIMEOUT")

StopTimeout(c) == Fail(c, "STOP_TIMEOUT")

FinishCancelling(c, k) ==
  /\ At(c, k, "cancelling")
  /\ \/ /\ Go(c, k, "draining again")
        /\ UNCHANGED coordinator
     \/ /\ "close" \in Failures
        /\ StopTimeout(c)
        /\ End(c, k)
        /\ UNCHANGED assembled
  /\ UNCHANGED <<ownership, controller, transport, receiving>>

\* Slip: the second wait has no timeout.
CancellationTimeoutSlip(c, k) == FALSE

\* The cancellation timeout.
CancellationTimeout(c, k) ==
  /\ At(c, k, "draining again")
  /\ receiving[c] # {}
  /\ "stuck receive" \in Failures
  /\ StopTimeout(c)
  /\ End(c, k)
  /\ UNCHANGED <<assembled, ownership, controller, transport, receiving>>

\* The task of the command is cancelled where it waits.
Cancel(c, k) ==
  /\ "cancel" \in Failures
  /\ \/ At(c, k, "connecting") /\ AbortStart(c, k)
     \/ At(c, k, "subscribing") /\ AbortStart(c, k)
     \/ /\ \/ At(c, k, "cleaning") /\ Fail(c, "STARTUP_CLEANUP_CANCELLED")
           \/ command[<<c, k>>].at \in StopPoints /\ Fail(c, "STOP_SHUTDOWN_CANCELLED")
        /\ End(c, k)
        /\ UNCHANGED <<assembled, ownership, controller, transport, receiving>>

-----------------------------------------------------------------------------
(* Receiving executions.                                                   *)

Receives(c) == started[c] /\ ~stopping[c]

\* recv raises at once on a transport that is not connected.
Receive(c, r) ==
  /\ Receives(c)
  /\ transport # "closed"
  /\ r \notin receiving[c]
  /\ receiving' = [receiving EXCEPT ![c] = @ \cup {r}]
  /\ UNCHANGED <<coordinator, ownership, controller, transport, command>>

\* With a frame, an error, or because the task is cancelled.
EndReceive(c, r) ==
  /\ r \in receiving[c]
  /\ receiving' = [receiving EXCEPT ![c] = @ \ {r}]
  /\ UNCHANGED <<coordinator, ownership, controller, transport, command>>

Start(c, k) ==
  \/ StartRefused(c, k)
  \/ ControllerStartRaises(c, k)
  \/ ReconcileRaises(c, k)
  \/ StartExecution(c, k)

Begin(c, k) ==
  \/ At(c, k, "idle") /\ Start(c, k)
  \/ \E restart \in BOOLEAN : StopIdle(c, k, restart) \/ StopStarted(c, k, restart)

\* What a command under way does by itself, without being cancelled.
Progress(c, k) ==
  \/ At(c, k, "restarting") /\ Start(c, k)
  \/ FinishConnect(c, k)
  \/ FinishSubscribe(c, k)
  \/ FinishCleaning(c, k)
  \/ FinishClosing(c, k)
  \/ Drained(c, k)
  \/ DrainTimeout(c, k)
  \/ FinishCancelling(c, k)
  \/ CancellationTimeout(c, k)

Next ==
  \E c \in Coordinators :
    \/ Assemble(c)
    \/ \E k \in Callers : Begin(c, k) \/ Progress(c, k) \/ Cancel(c, k)
    \/ \E r \in Receivers : Receive(c, r) \/ EndReceive(c, r)

Spec == Init /\ [][Next]_vars

\* connect, send and close of the websocket end or time out, and so do the
\* two waits of stop.  Nothing is assumed of callers and receivers.
Fairness == \A c \in Coordinators, k \in Callers : WF_vars(Progress(c, k))

FairSpec == Spec /\ Fairness

-----------------------------------------------------------------------------
(* Properties.                                                             *)

\* Every variable holds a value of its type.
TypeOK ==
  /\ assembled \in [Coordinators -> BOOLEAN]
  /\ started \in [Coordinators -> BOOLEAN]
  /\ stopping \in [Coordinators -> BOOLEAN]
  /\ technical \in [Coordinators -> TechnicalStates \cup {None}]
  /\ release \in [Coordinators -> BOOLEAN]
  /\ state \in [Coordinators -> {"STOPPED", "RUNNING", "STOPPING"}]
  /\ active \in [Coordinators -> BOOLEAN]
  /\ connected \in [Coordinators -> BOOLEAN]
  /\ owner \in Coordinators \cup {None}
  /\ transport \in {"closed", "connected", "subscribed"}
  /\ receiving \in [Coordinators -> SUBSET Receivers]
  /\ command \in [Coordinators \X Callers ->
       [at : {"idle", "restarting"} \cup StartPoints \cup StopPoints,
        restart : BOOLEAN, close_error : BOOLEAN]]

\* A coordinator that takes receives has a runtime under it: no clean-up of
\* another command has stopped its controller or disconnected its broker.
StartedMeansRunning ==
  \A c \in Coordinators :
    Receives(c) => state[c] = "RUNNING" /\ active[c] /\ connected[c]

\* "Only a fully stopped lifecycle may reuse this coordinator": when no command
\* is under way, one that admits a start has nothing left of the last run.
AdmittedMeansQuiescent ==
  \A c \in Coordinators :
    /\ ~started[c] /\ technical[c] = None
    /\ \A k \in Callers : At(c, k, "idle")
    => /\ ~stopping[c]
       /\ state[c] = "STOPPED" /\ ~active[c] /\ ~connected[c]
       /\ receiving[c] = {}

\* The transport is not given up while an execution is still being received
\* on it, nor while the coordinator counts as started.
ReleasedWhenDrained ==
  [][\A c \in Coordinators :
       release[c] /\ ~release'[c] => receiving[c] = {} /\ ~started'[c]]_vars

\* A command that has the lock gives it back, whatever fails or hangs.
CommandsEnd ==
  \A c \in Coordinators, k \in Callers : ~At(c, k, "idle") ~> At(c, k, "idle")

\* The ownership registry is "Fail-closed ... for one shared execution
\* transport": it grants no claim on a transport another coordinator runs on.
NoSecondOwner ==
  \A c, d \in Coordinators : started[c] /\ owner = d => c = d
=============================================================================
