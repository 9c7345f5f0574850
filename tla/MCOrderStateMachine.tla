------------------------ MODULE MCOrderStateMachine ------------------------
(* The OMS on a small instance: two orders, two broker order numbers.      *)
EXTENDS OrderStateMachine, TLC

\* Commands of both sides, of every quantity, and with an identity that
\* matches the instrument or not.
MCCommands ==
  [client_order_id     : ClientOrderIds,
   instrument_id       : {"I1"},
   instrument_identity : {"I1", "I2"},
   side                : {"BUY", "SELL"},
   quantity            : Quantities]

Symmetry == Permutations(ClientOrderIds) \cup Permutations(BrokerOrderIds)
=============================================================================
