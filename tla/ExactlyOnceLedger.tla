------------------------- MODULE ExactlyOnceLedger -------------------------
(***************************************************************************)
(* What settlement promises ("Settle an accepted execution exactly once    *)
(* into OMS and Live Position",                                            *)
(* environments/live/position/live_execution_position_bridge.py:39): the   *)
(* exchange executes orders, and each executed unit is booked at most      *)
(* once, into the order and into the position in the same step.            *)
(***************************************************************************)
EXTENDS Integers

CONSTANTS
  Orders,
  Direction   \* per order: 1 buys, -1 sells, 0 is not held in the position

VARIABLES
  executed,   \* units of each order the exchange has executed
  booked,     \* units of each order the system has booked
  held        \* the position, bought minus sold

vars == <<executed, booked, held>>

Init ==
  /\ executed = [o \in Orders |-> 0]
  /\ booked = [o \in Orders |-> 0]
  /\ held = 0

Execute(o) ==
  /\ executed'[o] > executed[o]
  /\ executed' = [executed EXCEPT ![o] = executed'[o]]
  /\ UNCHANGED <<booked, held>>

Book(o) ==
  /\ booked'[o] \in booked[o] + 1 .. executed[o]
  /\ booked' = [booked EXCEPT ![o] = booked'[o]]
  /\ held' = held + Direction[o] * (booked'[o] - booked[o])
  /\ UNCHANGED executed

Next == \E o \in Orders : Execute(o) \/ Book(o)

Spec == Init /\ [][Next]_vars
=============================================================================
