------------------------- MODULE PositionAggregate -------------------------
(***************************************************************************)
(* The side, quantity and average price the live environment keeps of its  *)
(* instrument (environments/live/position/live_position_aggregate.py).     *)
(* Fill(held, ...) is what apply_fill makes of a position; a fill it       *)
(* refuses (ValueError) is not enabled.                                    *)
(***************************************************************************)
EXTENDS Integers

CONSTANTS
  Quantities,  \* the integers that occur as the quantity of a fill
  Prices,      \* the integers that occur as its price
  None,        \* Python's None
  MaxFills     \* bound: how many fills a run applies

VARIABLES
  position,    \* side, qty and avg_price
  net,         \* history: bought minus sold
  paid,        \* history: prices of the fills that opened or added to the
               \* position since it was last flat or changed side
  fills        \* history: number of fills applied, capped by MaxFills

vars == <<position, net, paid, fills>>

Sides == {"BUY", "SELL"}
Fractions == [num : Int, den : Int]
Positions == [side : Sides \cup {None}, qty : Int, avg_price : Fractions \cup {None}]

ASSUME PositionAssumption ==
  /\ Quantities \subseteq Int
  /\ Prices \subseteq Int
  /\ MaxFills \in Nat
  /\ None \notin Sides \cup Fractions

Flat == [side |-> None, qty |-> 0, avg_price |-> None]
Price(price) == [num |-> price, den |-> 1]

Accepted(quantity, price) == quantity > 0 /\ price > 0

\* Slip: the position's own quantity is left out of the weights.
AverageSlip(held, quantity, price) ==
  [num |-> held.avg_price.num + price * held.avg_price.den * quantity,
   den |-> held.avg_price.den * (held.qty + quantity)]

\* (avg_price * qty + price * quantity) / (qty + quantity)
Average(held, quantity, price) ==
  [num |-> held.avg_price.num * held.qty
             + price * held.avg_price.den * quantity,
   den |-> held.avg_price.den * (held.qty + quantity)]

Open(side, quantity, price) ==
  [side |-> side, qty |-> quantity, avg_price |-> Price(price)]

\* Slip: a fill larger than the position flips it by its whole quantity.
FlipSlip(held, side, quantity, price) == Open(side, quantity, price)

Flip(held, side, quantity, price) ==
  Open(side, quantity - held.qty, price)

Fill(held, side, quantity, price) ==
  IF held.qty = 0 \/ held.side = None THEN Open(side, quantity, price)
  ELSE IF side = held.side
       THEN [side      |-> side,
             qty       |-> held.qty + quantity,
             avg_price |-> Average(held, quantity, price)]
  ELSE IF quantity < held.qty THEN [held EXCEPT !.qty = @ - quantity]
  ELSE IF quantity = held.qty THEN Flat
  ELSE Flip(held, side, quantity, price)

Sign(side) == IF side = "BUY" THEN 1 ELSE -1
Signed(held) == IF held.side = None THEN 0
                ELSE Sign(held.side) * held.qty

Init == position = Flat /\ net = 0 /\ paid = {} /\ fills = 0

\* The prices that make up the average after a fill.
PaidAfter(side, quantity, price) ==
  IF position.side = None THEN {price}
  ELSE IF side = position.side THEN paid \cup {price}
  ELSE IF quantity < position.qty THEN paid
  ELSE IF quantity = position.qty THEN {}
  ELSE {price}

ApplyFill(side, quantity, price) ==
  /\ fills < MaxFills
  /\ Accepted(quantity, price)
  /\ position' = Fill(position, side, quantity, price)
  /\ net' = net + Sign(side) * quantity
  /\ paid' = PaidAfter(side, quantity, price)
  /\ fills' = fills + 1

Next == \E side \in Sides, q \in Quantities, p \in Prices : ApplyFill(side, q, p)

Spec == Init /\ [][Next]_vars

-----------------------------------------------------------------------------
(* Properties.                                                             *)

\* Every variable holds a value of its type.
TypeOK ==
  /\ position \in Positions
  /\ net \in Int
  /\ paid \subseteq Prices
  /\ fills \in 0 .. MaxFills

\* The aggregate's side and quantity are what was bought minus what was sold,
\* through every opening, reduction, closing and flip; a flat aggregate has
\* no side and no average, an open one has both (LivePositionAggregate.qty,
\* side and avg_price are three attributes assigned in different branches).
SignedQuantityIsNet ==
  /\ Signed(position) = net
  /\ position.qty >= 0
  /\ position.qty = 0 <=> position.side = None
  /\ position.side = None <=> position.avg_price = None

\* The average price of an open position lies between the cheapest and the
\* dearest of the fills it is made of: no branch of apply_fill mixes in the
\* price of a fill that only reduced the position.
AverageWithinPrices ==
  position.avg_price # None =>
    LET average == position.avg_price
    IN  /\ average.den > 0
        /\ \E p \in paid : p * average.den <= average.num
        /\ \E p \in paid : average.num <= p * average.den
=============================================================================
