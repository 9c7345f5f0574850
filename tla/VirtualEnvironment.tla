--------------------------- MODULE VirtualEnvironment ---------------------------
(***************************************************************************)
(* The virtual environment, as ConcreteVirtualEnvironmentBuilder puts it   *)
(* together and its integration test drives it: each tick of the market    *)
(* is processed by the firm before anything else happens.  The bundle has  *)
(* the two flags of environments/virtual/bundle.py, which no part asks.    *)
(***************************************************************************)
EXTENDS VirtualMarket, VirtualFirm

VARIABLE bundle    \* [connected, running]

vars == <<market, firm, bundle>>

Init ==
  /\ MarketInit /\ FirmInit
  /\ bundle = [connected |-> FALSE, running |-> FALSE]

\* initialize and shutdown
Shutdown == bundle' = [connected |-> FALSE, running |-> FALSE]
Connect == bundle' = [bundle EXCEPT !.connected = TRUE]

\* Slip: it is not asked whether the environment is connected.
StartSlip == bundle' = [bundle EXCEPT !.running = TRUE]
Start == bundle.connected /\ bundle' = [bundle EXCEPT !.running = TRUE]
Stop == bundle' = [bundle EXCEPT !.running = FALSE]
Restart == bundle' = [connected |-> TRUE, running |-> TRUE]

Lifecycle ==
  /\ Shutdown \/ Connect \/ Start \/ Stop \/ Restart
  /\ UNCHANGED <<market, firm>>

Feed ==
  /\ arriving = None
  /\ Step \/ StreamNext
  /\ ProcessMarketData(tick'.price)
  /\ UNCHANGED bundle

Next ==
  \/ Feed
  \/ Control /\ UNCHANGED <<firm, bundle>>
  \/ FirmNext /\ UNCHANGED <<market, bundle>>
  \/ Lifecycle

Spec == Init /\ [][Next]_vars

\* Types; and what runs is connected.
TypeOK ==
  /\ MarketTypeOK
  /\ FirmTypeOK
  /\ bundle.running => bundle.connected

=============================================================================
