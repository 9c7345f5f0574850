-------------------------- MODULE MCLiveSettlement --------------------------
(* Settlement on a small instance: an order to buy three and one to sell    *)
(* two, of the instrument of the position aggregate.                         *)
EXTENDS LiveSettlement, TLC

CONSTANTS o1, o2, o3

Command(c, instrument, identity, side, quantity) ==
  [client_order_id     |-> c,
   instrument_id       |-> instrument,
   instrument_identity |-> identity,
   side                |-> side,
   quantity            |-> quantity]

MCCommands == {Command(o1, "I1", "I1", "BUY", 3), Command(o2, "I1", "I1", "SELL", 2)}

\* A third order, whose identity is not that of its instrument.
MCMismatch == MCCommands \cup {Command(o3, "I1", "I2", "BUY", 1)}

Symmetry == Permutations(BrokerOrderIds)
=============================================================================
