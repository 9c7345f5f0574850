--------------------------- MODULE LiveBooksProofs ---------------------------
(***************************************************************************)
(* What the live environment keeps for itself: its position               *)
(* (PositionAggregate), for any quantities, prices and number of fills,    *)
(* and what the inquiry restores of the orders (RecoveryInquiry), for any  *)
(* orders, quantities, prices, lengths of a page and limits of pages.      *)
(* Names without a prefix (Spec, TypeOK) are those of the position.        *)
(***************************************************************************)
EXTENDS RecoveryInquiry, PositionAggregate, FiniteSetTheorems, SequenceTheorems,
        WellFoundedInduction, TLAPS

(* The position.                                                           *)

\* PositionInv adds to the invariants of the run the one fact the average
\* needs: the prices it is made of are known while it is open.
PositionInv ==
  /\ TypeOK
  /\ SignedQuantityIsNet
  /\ AverageWithinPrices

-----------------------------------------------------------------------------
(* The branches of apply_fill, one lemma each: the signed quantity moves by *)
(* the signed fill, and the result is well formed.                         *)

WellFormed(held) ==
  /\ held \in Positions
  /\ held.qty >= 0
  /\ held.qty = 0 <=> held.side = None
  /\ held.side = None <=> held.avg_price = None

\* A position opened by a fill is the fill.
LEMMA OpenFill ==
  ASSUME NEW side \in Sides, NEW quantity \in Int, NEW price \in Int, quantity > 0
  PROVE  /\ WellFormed(Open(side, quantity, price))
         /\ Signed(Open(side, quantity, price)) = Sign(side) * quantity
<1>1. Open(side, quantity, price) \in Positions
  BY DEF Open, Positions, Price, Fractions
<1>2. Price(price) # None
  BY PositionAssumption DEF Price, Fractions
<1>3. side # None
  BY PositionAssumption
<1> QED
  BY <1>1, <1>2, <1>3 DEF WellFormed, Open, Signed

\* Whatever the position and the fill, the signed quantity moves by exactly
\* the signed fill; opening, adding, reducing, closing and flipping included.
THEOREM FillMovesSignedQuantity ==
  ASSUME NEW held, WellFormed(held),
         NEW side \in Sides, NEW quantity \in Int, NEW price \in Int, quantity > 0
  PROVE  /\ WellFormed(Fill(held, side, quantity, price))
         /\ Signed(Fill(held, side, quantity, price)) = Signed(held) + Sign(side) * quantity
<1> USE PositionAssumption
<1>1. /\ held \in Positions /\ held.qty \in Int /\ held.qty >= 0
      /\ held.side \in Sides \cup {None}
      /\ held.qty = 0 <=> held.side = None
      /\ held.side = None <=> held.avg_price = None
  BY DEF WellFormed, Positions
<1>2. CASE held.side = None
  <2>1. Fill(held, side, quantity, price) = Open(side, quantity, price)
    BY <1>2 DEF Fill
  <2> QED
    BY <1>1, <1>2, <2>1, OpenFill DEF Signed, Sign
<1>3. CASE held.side # None /\ side = held.side
  <2> DEFINE new == Fill(held, side, quantity, price)
             avg == Average(held, quantity, price)
  <2>1. new = [side |-> side, qty |-> held.qty + quantity, avg_price |-> avg]
    BY <1>1, <1>3 DEF Fill
  <2>2. avg \in Fractions /\ avg # None
    <3>1. held.avg_price \in Fractions
      BY <1>1, <1>3 DEF Positions
    <3>2. held.avg_price.num \in Int /\ held.avg_price.den \in Int
      BY <3>1 DEF Fractions
    <3>3. /\ held.avg_price.num * held.qty + price * held.avg_price.den * quantity \in Int
          /\ held.avg_price.den * (held.qty + quantity) \in Int
      BY <1>1, <3>2
    <3>4. avg \in Fractions
      BY <3>3 DEF Average, Fractions
    <3> QED
      BY <3>4
  <2> HIDE DEF avg, new
  <2>3. /\ new \in Positions
        /\ new.side = held.side /\ new.qty = held.qty + quantity /\ new.avg_price = avg
    BY <1>1, <1>3, <2>1, <2>2 DEF Positions
  <2>4. /\ new.qty > 0 /\ new.side # None
    BY <1>1, <1>3, <2>3
  <2>5. WellFormed(new)
    BY <1>1, <2>2, <2>3, <2>4 DEF WellFormed
  <2>6. Signed(new) = Signed(held) + Sign(side) * quantity
    BY <1>1, <1>3, <2>3 DEF Signed, Sign
  <2> QED
    BY <2>5, <2>6 DEF new
<1>4. CASE held.side # None /\ side # held.side /\ quantity < held.qty
  <2> DEFINE new == Fill(held, side, quantity, price)
  <2>1. new = [held EXCEPT !.qty = @ - quantity]
    BY <1>1, <1>4 DEF Fill
  <2>2. /\ new \in Positions
        /\ new.side = held.side /\ new.qty = held.qty - quantity
        /\ new.avg_price = held.avg_price
    BY <1>1, <2>1 DEF Positions
  <2>3. WellFormed(new)
    BY <1>1, <1>4, <2>2 DEF WellFormed
  <2>4. Signed(new) = Signed(held) + Sign(side) * quantity
    BY <1>1, <1>4, <2>2 DEF Signed, Sign, Sides
  <2> QED
    BY <2>3, <2>4
<1>5. CASE held.side # None /\ side # held.side /\ quantity = held.qty
  <2>1. Fill(held, side, quantity, price) = Flat
    BY <1>1, <1>5 DEF Fill
  <2>2. WellFormed(Flat) /\ Signed(Flat) = 0
    BY DEF WellFormed, Flat, Positions, Signed
  <2>3. Signed(held) + Sign(side) * quantity = 0
    BY <1>1, <1>5 DEF Signed, Sign, Sides
  <2> QED
    BY <2>1, <2>2, <2>3
<1>6. CASE held.side # None /\ side # held.side /\ quantity > held.qty
  <2>1. Fill(held, side, quantity, price) = Open(side, quantity - held.qty, price)
    BY <1>1, <1>6 DEF Fill, Flip
  <2>2. Signed(held) + Sign(side) * quantity = Sign(side) * (quantity - held.qty)
    BY <1>1, <1>6 DEF Signed, Sign, Sides
  <2> QED
    BY <1>1, <1>6, <2>1, <2>2, OpenFill
<1> QED
  BY <1>1, <1>2, <1>3, <1>4, <1>5, <1>6

-----------------------------------------------------------------------------
(* The average.                                                            *)

\* Multiplying by a natural number keeps the order.
LEMMA Monotone ==
  ASSUME NEW a \in Int, NEW b \in Int, NEW t \in Int, a <= b, t >= 0
  PROVE  a * t <= b * t
  OBVIOUS

\* What is below the old average and the new price is below the new average.
LEMMA BelowAverage ==
  ASSUME NEW n \in Int, NEW d \in Int, NEW held \in Int, NEW quantity \in Int,
         NEW price \in Int, NEW m \in Int,
         d > 0, held >= 0, quantity >= 0, m * d <= n, m <= price
  PROVE  m * (d * (held + quantity)) <= n * held + price * d * quantity
<1>1. (m * d) * held <= n * held
  BY Monotone
<1>2. m * (d * quantity) <= price * (d * quantity)
  <2>1. d * quantity >= 0 /\ d * quantity \in Int
    BY Monotone
  <2> QED
    BY <2>1, Monotone
<1>3. m * (d * (held + quantity)) = (m * d) * held + m * (d * quantity)
  OBVIOUS
<1>4. price * d * quantity = price * (d * quantity)
  OBVIOUS
<1> DEFINE A == (m * d) * held
           B == n * held
           C == m * (d * quantity)
           D == price * (d * quantity)
<1>5. A \in Int /\ B \in Int /\ C \in Int /\ D \in Int
  OBVIOUS
<1>6. A <= B /\ C <= D
  BY <1>1, <1>2
<1> HIDE DEF A, B, C, D
<1>7. A + C <= B + D
  BY <1>5, <1>6
<1> QED
  BY <1>3, <1>4, <1>7 DEF A, B, C, D

\* And what is above both is above the new average.
LEMMA AboveAverage ==
  ASSUME NEW n \in Int, NEW d \in Int, NEW held \in Int, NEW quantity \in Int,
         NEW price \in Int, NEW m \in Int,
         d > 0, held >= 0, quantity >= 0, n <= m * d, price <= m
  PROVE  n * held + price * d * quantity <= m * (d * (held + quantity))
<1>1. n * held <= (m * d) * held
  BY Monotone
<1>2. price * (d * quantity) <= m * (d * quantity)
  <2>1. d * quantity >= 0 /\ d * quantity \in Int
    BY Monotone
  <2> QED
    BY <2>1, Monotone
<1>3. m * (d * (held + quantity)) = (m * d) * held + m * (d * quantity)
  OBVIOUS
<1>4. price * d * quantity = price * (d * quantity)
  OBVIOUS
<1> DEFINE A == (m * d) * held
           B == n * held
           C == m * (d * quantity)
           D == price * (d * quantity)
<1>5. A \in Int /\ B \in Int /\ C \in Int /\ D \in Int
  OBVIOUS
<1>6. B <= A /\ D <= C
  BY <1>1, <1>2
<1> HIDE DEF A, B, C, D
<1>7. B + D <= A + C
  BY <1>5, <1>6
<1> QED
  BY <1>3, <1>4, <1>7 DEF A, B, C, D

-----------------------------------------------------------------------------
(* The invariants.                                                         *)

\* The branch that adds to the position keeps the average within the prices.
LEMMA AddStep ==
  ASSUME PositionInv, NEW quantity \in Int, NEW price \in Prices, quantity > 0,
         position.side # None
  PROVE  LET average == Average(position, quantity, price)
         IN  /\ average.den > 0
             /\ \E p \in paid \cup {price} : p * average.den <= average.num
             /\ \E p \in paid \cup {price} : average.num <= p * average.den
<1> USE PositionAssumption
<1> DEFINE n == position.avg_price.num
           d == position.avg_price.den
           q == position.qty
<1>1. /\ n \in Int /\ d \in Int /\ q \in Int /\ price \in Int
      /\ d > 0 /\ q >= 0 /\ q # 0
      /\ paid \subseteq Int
  BY DEF PositionInv, TypeOK, SignedQuantityIsNet, AverageWithinPrices, Positions, Fractions
<1>2. PICK low \in paid : low * d <= n
  BY DEF PositionInv, SignedQuantityIsNet, AverageWithinPrices
<1>3. PICK high \in paid : n <= high * d
  BY DEF PositionInv, SignedQuantityIsNet, AverageWithinPrices
<1> HIDE DEF n, d, q
<1>4. /\ Average(position, quantity, price).num = n * q + price * d * quantity
      /\ Average(position, quantity, price).den = d * (q + quantity)
  BY DEF Average, n, d, q
<1>5. d * (q + quantity) > 0
  <2>1. q + quantity \in Int /\ q + quantity >= 1
    BY <1>1
  <2>2. d * (q + quantity) \in Int /\ d * 1 <= d * (q + quantity)
    BY <1>1, <2>1, Monotone
  <2> QED
    BY <1>1, <2>2
<1>6. \E p \in paid \cup {price} : p * (d * (q + quantity)) <= n * q + price * d * quantity
  <2>1. low \in Int
    BY <1>1, <1>2
  <2>2. CASE low <= price
    BY <1>1, <1>2, <2>1, <2>2, BelowAverage
  <2>3. CASE price <= low
    <3>1. price * d <= low * d
      BY <1>1, <2>1, <2>3, Monotone
    <3>2. price * d \in Int /\ low * d \in Int
      BY <1>1, <2>1
    <3>3. price * d <= n
      BY <1>1, <1>2, <3>1, <3>2
    <3> QED
      BY <1>1, <3>3, BelowAverage
  <2> QED
    BY <1>1, <2>1, <2>2, <2>3
<1>7. \E p \in paid \cup {price} : n * q + price * d * quantity <= p * (d * (q + quantity))
  <2>1. high \in Int
    BY <1>1, <1>3
  <2>2. CASE price <= high
    BY <1>1, <1>3, <2>1, <2>2, AboveAverage
  <2>3. CASE high <= price
    <3>1. high * d <= price * d
      BY <1>1, <2>1, <2>3, Monotone
    <3>2. price * d \in Int /\ high * d \in Int
      BY <1>1, <2>1
    <3>3. n <= price * d
      BY <1>1, <1>3, <3>1, <3>2
    <3> QED
      BY <1>1, <3>3, AboveAverage
  <2> QED
    BY <1>1, <2>1, <2>2, <2>3
<1> QED
  BY <1>4, <1>5, <1>6, <1>7

LEMMA InitIInv == Init => PositionInv
  BY PositionAssumption
  DEF Init, PositionInv, TypeOK, SignedQuantityIsNet, AverageWithinPrices,
      Flat, Positions, Signed

LEMMA FillStep ==
  ASSUME PositionInv, NEW side \in Sides, NEW quantity \in Quantities, NEW price \in Prices,
         ApplyFill(side, quantity, price)
  PROVE  PositionInv'
<1> USE PositionAssumption
<1>1. /\ quantity \in Int /\ quantity > 0 /\ price \in Int /\ price > 0
      /\ position' = Fill(position, side, quantity, price)
      /\ net' = net + Sign(side) * quantity
      /\ paid' = PaidAfter(side, quantity, price)
      /\ fills' = fills + 1 /\ fills < MaxFills
  BY DEF ApplyFill, Accepted
<1>2. WellFormed(position) /\ Signed(position) = net /\ net \in Int
  BY DEF PositionInv, TypeOK, SignedQuantityIsNet, WellFormed
<1>3. WellFormed(position') /\ Signed(position') = net'
  BY <1>1, <1>2, FillMovesSignedQuantity
<1>4. TypeOK'
  <2>1. net' \in Int
    BY <1>1, <1>2 DEF Sign
  <2>2. paid' \subseteq Prices
    BY <1>1 DEF PaidAfter, PositionInv, TypeOK
  <2>3. fills' \in 0 .. MaxFills
    BY <1>1 DEF PositionInv, TypeOK
  <2> QED
    BY <1>3, <2>1, <2>2, <2>3 DEF TypeOK, WellFormed
<1>5. SignedQuantityIsNet'
  BY <1>3 DEF SignedQuantityIsNet, WellFormed
<1>6. AverageWithinPrices'
  <2>1. /\ position.qty = 0 <=> position.side = None
        /\ position.qty \in Int
    BY <1>2 DEF WellFormed, Positions
  <2>2. CASE position' = Open(side, quantity, price) /\ price \in paid'
    BY <1>1, <2>2 DEF AverageWithinPrices, Open, Price
  <2>3. CASE position' = Flat
    BY <2>3 DEF AverageWithinPrices, Flat
  <2>4. CASE position.side # None /\ side = position.side
    <3>1. position'.avg_price = Average(position, quantity, price)
      BY <1>1, <2>1, <2>4 DEF Fill
    <3>2. paid' = paid \cup {price}
      BY <1>1, <2>4 DEF PaidAfter
    <3> QED
      BY <1>1, <2>4, <3>1, <3>2, AddStep DEF AverageWithinPrices
  <2>5. CASE position.side # None /\ side # position.side /\ quantity < position.qty
    <3>1. position' = [position EXCEPT !.qty = @ - quantity] /\ paid' = paid
      BY <1>1, <2>1, <2>5 DEF Fill, PaidAfter
    <3>2. position'.avg_price = position.avg_price
      BY <1>2, <3>1 DEF WellFormed, Positions
    <3> QED
      BY <3>1, <3>2 DEF PositionInv, AverageWithinPrices
  <2>6. CASE position.side # None /\ side # position.side /\ quantity > position.qty
    <3>1. position' = Open(side, quantity - position.qty, price) /\ paid' = {price}
      BY <1>1, <2>1, <2>6 DEF Fill, Flip, PaidAfter
    <3> QED
      BY <1>1, <3>1 DEF AverageWithinPrices, Open, Price
  <2>7. CASE position.side = None
    BY <1>1, <2>2, <2>7 DEF Fill, PaidAfter
  <2>8. CASE position.side # None /\ side # position.side /\ quantity = position.qty
    BY <1>1, <2>1, <2>3, <2>8 DEF Fill
  <2> QED
    BY <1>1, <2>1, <2>4, <2>5, <2>6, <2>7, <2>8
<1> QED
  BY <1>4, <1>5, <1>6 DEF PositionInv

LEMMA NextIInv == PositionInv /\ [Next]_vars => PositionInv'
<1> SUFFICES ASSUME PositionInv, [Next]_vars PROVE PositionInv'
  OBVIOUS
<1>1. CASE UNCHANGED vars
  BY <1>1 DEF vars, PositionInv, TypeOK, SignedQuantityIsNet, AverageWithinPrices
<1> QED
  BY <1>1, FillStep DEF Next

\* Every reachable aggregate is well typed.
THEOREM TypeCorrect == Spec => []TypeOK
<1>1. PositionInv => TypeOK
  BY DEF PositionInv
<1> QED
  BY <1>1, InitIInv, NextIInv, PTL DEF Spec

\* Side and quantity are always what was bought minus what was sold.
THEOREM PositionIsNet == Spec => []SignedQuantityIsNet
<1>1. PositionInv => SignedQuantityIsNet
  BY DEF PositionInv
<1> QED
  BY <1>1, InitIInv, NextIInv, PTL DEF Spec

\* The average never leaves the range of the prices the position was built at.
THEOREM AverageIsBounded == Spec => []AverageWithinPrices
<1>1. PositionInv => AverageWithinPrices
  BY DEF PositionInv
<1> QED
  BY <1>1, InitIInv, NextIInv, PTL DEF Spec

-----------------------------------------------------------------------------
(* What is true of an inquiry under way.                                   *)

\* What a row or a report is made of: a quantity that was executed, and, where
\* it is all that was executed, what was paid for it.
AsExecuted(o, filled, cost) ==
    /\ filled <= Len(executions[o])
    /\ filled = Len(executions[o]) => cost = Sum(executions[o])

Rows == [order : Orders, filled : Nat \ {0}, paid : Nat]
Phases == {"idle", "paging", "reporting"}
Calls == [phase : Phases, rows : Seq(Rows), pages : Nat, reports : Seq(Reports),
          since : [Orders -> Nat]]
Amounts == [filled : Nat, paid : Nat]
Ids == Orders \X (Nat \ {0}) \X Nat

InquiryTyped ==
    /\ executions \in [Orders -> Seq(Nat \ {0})]
    /\ book \in [Orders -> Amounts]
    /\ seen \subseteq Ids
    /\ call \in Calls
    /\ answered \in [Orders -> Nat]
    /\ IsFiniteSet(Executing)

\* Each phase of a call keeps to its own fields.
CallInPhase ==
    /\ call.phase = "idle" => call = Idle
    /\ call.phase = "paging" => call.pages < MaxPages /\ call.reports = <<>>
    /\ call.phase = "reporting" => call.rows = <<>>

BooksFollow ==
    \A o \in Orders :
        /\ executions[o] \in Seq(PricesOf[o])
        /\ Len(executions[o]) <= Quantity[o]
        /\ AsExecuted(o, book[o].filled, book[o].paid)
        /\ answered[o] <= book[o].filled
        /\ call.since[o] <= Len(executions[o])

SeenAreBooked == \A id \in seen : id[2] <= book[id[1]].filled

\* Rows, in the order they were read: each no older than the call, and none
\* older than an earlier one of its order.
Read(rows) ==
    \A i \in DOMAIN rows :
        /\ AsExecuted(rows[i].order, rows[i].filled, rows[i].paid)
        /\ call.since[rows[i].order] <= rows[i].filled
        /\ \A j \in 1 .. i - 1 :
             rows[j].order = rows[i].order => rows[j].filled <= rows[i].filled

\* The pages read leave none behind that had executed when the call began.
HasRow(rows, o) == \E i \in DOMAIN rows : rows[i].order = o
NoneBehind ==
    /\ \A o \in Orders :
         call.rows # <<>> /\ call.since[o] > 0 /\ ~HasRow(call.rows, o) =>
             o < Last(call.rows).order
    /\ call.rows # <<>> => /\ Last(call.rows).order \in Executing
                           /\ Len(call.rows) <= Place(Last(call.rows).order)

\* A report makes of what was known before it what its identity says.
Makes(report, filled, cost) ==
    /\ report.execution_id[2] = filled + report.filled
    /\ report.execution_id[3] = cost + report.paid
Between(reports, j, i) ==
    \E k \in j + 1 .. i - 1 : reports[k].order = reports[i].order

\* The reports of an order count on from one another, the first from the books.
CountOn(reports, books) ==
    \A i \in DOMAIN reports :
        /\ ~Between(reports, 0, i) =>
             Makes(reports[i], books[reports[i].order].filled, books[reports[i].order].paid)
        /\ \A j \in 1 .. i - 1 :
             reports[j].order = reports[i].order /\ ~Between(reports, j, i) =>
                 Makes(reports[i], reports[j].execution_id[2], reports[j].execution_id[3])

Told(reports) ==
    \A i \in DOMAIN reports :
        /\ reports[i].execution_id[1] = reports[i].order
        /\ AsExecuted(reports[i].order, reports[i].execution_id[2], reports[i].execution_id[3])

\* What had executed when the call began is booked, or about to be.
Reaches(o, reports) ==
    \/ call.since[o] <= book[o].filled
    \/ \E i \in DOMAIN reports : /\ reports[i].order = o
                                 /\ call.since[o] <= reports[i].execution_id[2]

PagingOK == call.phase = "paging" => Read(call.rows) /\ NoneBehind
ReportingOK ==
    call.phase = "reporting" =>
        /\ Told(call.reports)
        /\ CountOn(call.reports, book)
        /\ \A o \in Orders : Reaches(o, call.reports)

InquiryInv ==
    /\ InquiryTyped /\ CallInPhase /\ BooksFollow /\ SeenAreBooked /\ PagingOK /\ ReportingOK

-----------------------------------------------------------------------------
(* Induction over numbers, and folds.                                      *)

\* Induction over the numbers, on a set: a set with 0 and the successor of each
\* of its numbers has them all.
LEMMA Climbs ==
  ASSUME NEW N, 0 \in N, \A n \in Nat : n \in N => n + 1 \in N
  PROVE  Nat \subseteq N
<1> DEFINE Missing == {0..n : n \in Nat \ N}
<1> SUFFICES ASSUME Nat \ N # {} PROVE FALSE
  OBVIOUS
<1>1. Missing # {} /\ Missing \subseteq FiniteSubsetsOf(Nat)
  <2>1. \A n \in Nat : 0..n \in SUBSET Nat /\ IsFiniteSet(0..n)
    BY FS_Interval
  <2>2. \A n \in Nat : 0..n \in FiniteSubsetsOf(Nat)
    BY <2>1 DEF FiniteSubsetsOf
  <2> QED
    BY <2>2
<1>2. PICK X \in Missing : \A Y \in Missing : <<Y, X>> \notin StrictSubsetOrdering(Nat)
  <2> HIDE DEF Missing
  <2> QED
    BY <1>1, WFMin, FS_StrictSubsetOrderingWellFounded
<1>3. PICK x \in Nat \ N : X = 0..x
  BY <1>2
<1>4. x # 0 /\ x - 1 \in Nat /\ (x - 1) + 1 = x /\ x - 1 \notin N
  BY <1>3
<1>5. 0..(x - 1) \in Missing
  BY <1>4
<1> DEFINE A == 0..(x - 1)
           B == 0..x
<1>6. A \in SUBSET Nat /\ B \in SUBSET Nat /\ A \subseteq B /\ x \in B /\ x \notin A
  BY <1>4
<1> HIDE DEF A, B
<1>7. <<A, B>> \in StrictSubsetOrdering(Nat)
  BY <1>6 DEF StrictSubsetOrdering
<1> QED
  BY <1>2, <1>3, <1>5, <1>7 DEF A, B

\* A set of numbers up to n has a largest one, unless it is empty.
LEMMA LargestIs ==
  ASSUME NEW n \in Nat, NEW S \in SUBSET (1 .. n), S # {}
  PROVE  Max(S) \in S /\ \A y \in S : y <= Max(S)
<1> DEFINE N == {k \in Nat : \A T \in SUBSET (1 .. k) :
                   T # {} => \E x \in T : \A y \in T : x >= y}
<1>1. 0 \in N
  <2>1. \A T \in SUBSET (1 .. 0) : T = {}
    OBVIOUS
  <2> QED
    BY <2>1
<1>2. ASSUME NEW k \in Nat, k \in N PROVE k + 1 \in N
  <2>1. ASSUME NEW T \in SUBSET (1 .. k + 1), T # {} PROVE \E x \in T : \A y \in T : x >= y
    <3>1. CASE k + 1 \in T
      BY <3>1
    <3>2. CASE k + 1 \notin T
      <4>1. T \in SUBSET (1 .. k)
        BY <3>2
      <4> QED
        BY <4>1, <1>2, <2>1
    <3> QED
      BY <3>1, <3>2
  <2> QED
    BY <2>1
<1>3. n \in N
  <2> HIDE DEF N
  <2> QED
    BY <1>1, <1>2, Climbs
<1>4. \E x \in S : \A y \in S : x >= y
  BY <1>3
<1> QED
  BY <1>4 DEF Max

\* The largest of the first k numbers is k.
LEMMA LargestOfInterval ==
  ASSUME NEW k \in Nat \ {0}
  PROVE  Max(1 .. k) = k /\ (1 .. k) \ {k} = 1 .. k - 1
<1> DEFINE m == Max(1 .. k)
<1>1. 1 .. k # {} /\ k \in 1 .. k /\ (1 .. k) \in SUBSET (1 .. k)
  OBVIOUS
<1>2. m \in 1 .. k /\ \A y \in 1 .. k : y <= m
  BY <1>1, LargestIs
<1> HIDE DEF m
<1>3. m = k
  BY <1>1, <1>2
<1> QED
  BY <1>3 DEF m

\* The first k of n numbers.
LEMMA FirstFew ==
  ASSUME NEW n \in Nat, NEW k \in 1 .. n
  PROVE  /\ 1 .. k \in SUBSET (1 .. n) /\ 1 .. k # {}
         /\ k \in 0 .. n /\ k - 1 \in 0 .. n /\ k \in Nat \ {0}
  OBVIOUS

\* The function a fold over n elements is defined by: it takes the largest
\* index of a set last.
Folds(F, n, base, step, m) ==
    \A S \in SUBSET (1 .. m) :
        F[S] = IF S = {} THEN base ELSE step[Max(S)][F[S \ {Max(S)}]]

\* There is such a function, built up index by index.
LEMMA FoldExists ==
  ASSUME NEW n \in Nat, NEW State, NEW base \in State, NEW step \in [1 .. n -> [State -> State]]
  PROVE  \E F \in [SUBSET (1 .. n) -> State] : Folds(F, n, base, step, n)
<1> DEFINE Some(m) == \E F \in [SUBSET (1 .. n) -> State] : Folds(F, n, base, step, m)
           N == {m \in Nat : m <= n => Some(m)}
<1>1. 0 \in N
  <2> DEFINE F == [S \in SUBSET (1 .. n) |-> base]
  <2>1. F \in [SUBSET (1 .. n) -> State] /\ F[{}] = base
    OBVIOUS
  <2>2. \A S \in SUBSET (1 .. 0) : S = {}
    OBVIOUS
  <2> HIDE DEF F
  <2>3. Folds(F, n, base, step, 0)
    BY <2>1, <2>2 DEF Folds
  <2>4. Some(0)
    BY <2>1, <2>3
  <2> HIDE DEF Some
  <2> QED
    BY <2>4
<1>2. ASSUME NEW m \in Nat, m \in N PROVE m + 1 \in N
  <2> SUFFICES ASSUME m + 1 <= n PROVE Some(m + 1)
    <3> HIDE DEF Some
    <3> QED
      OBVIOUS
  <2>0. Some(m)
    <3> HIDE DEF Some
    <3> QED
      BY <1>2
  <2>1. PICK F \in [SUBSET (1 .. n) -> State] : Folds(F, n, base, step, m)
    BY <2>0
  <2> DEFINE G == [S \in SUBSET (1 .. n) |->
                     IF m + 1 \in S THEN step[m + 1][F[S \ {m + 1}]] ELSE F[S]]
  <2>2. m + 1 \in 1 .. n
    OBVIOUS
  <2>3. ASSUME NEW S \in SUBSET (1 .. n)
        PROVE  /\ G[S] = IF m + 1 \in S THEN step[m + 1][F[S \ {m + 1}]] ELSE F[S]
               /\ G[S] \in State
    <3>1. S \ {m + 1} \in SUBSET (1 .. n)
      OBVIOUS
    <3>2. F[S] \in State /\ F[S \ {m + 1}] \in State
      BY <3>1, <2>1
    <3>3. step[m + 1] \in [State -> State]
      BY <2>2
    <3> QED
      BY <3>2, <3>3
  <2>4. G \in [SUBSET (1 .. n) -> State]
    <3>1. G = [S \in SUBSET (1 .. n) |-> G[S]]
      OBVIOUS
    <3> HIDE DEF G
    <3> QED
      BY <3>1, <2>3
  <2> HIDE DEF G
  <2>5. ASSUME NEW S \in SUBSET (1 .. m + 1)
        PROVE  G[S] = IF S = {} THEN base ELSE step[Max(S)][G[S \ {Max(S)}]]
    <3>1. S \in SUBSET (1 .. n)
      OBVIOUS
    <3>2. CASE m + 1 \in S
      <4>1. Max(S) \in S /\ \A y \in S : y <= Max(S)
        BY <3>2, <3>1, LargestIs
      <4>2. Max(S) = m + 1
        <5> DEFINE x == Max(S)
        <5>1. x \in 1 .. m + 1 /\ m + 1 <= x
          BY <4>1, <3>2
        <5> HIDE DEF x
        <5>2. x = m + 1
          BY <5>1
        <5> QED
          BY <5>2 DEF x
      <4>3. S \ {m + 1} \in SUBSET (1 .. n) /\ m + 1 \notin S \ {m + 1}
        OBVIOUS
      <4>4. G[S \ {m + 1}] = F[S \ {m + 1}]
        BY <4>3, <2>3
      <4> QED
        BY <4>2, <4>4, <3>1, <3>2, <2>3
    <3>3. CASE m + 1 \notin S /\ S # {}
      <4>1. S \in SUBSET (1 .. m)
        BY <3>3
      <4>2. S \ {Max(S)} \in SUBSET (1 .. n) /\ m + 1 \notin S \ {Max(S)}
        BY <3>1, <3>3
      <4>3. G[S \ {Max(S)}] = F[S \ {Max(S)}] /\ G[S] = F[S]
        BY <4>2, <3>1, <3>3, <2>3
      <4>4. F[S] = step[Max(S)][F[S \ {Max(S)}]]
        BY <4>1, <3>3, <2>1 DEF Folds
      <4> QED
        BY <3>3, <4>3, <4>4
    <3>4. CASE S = {}
      <4>1. {} \in SUBSET (1 .. m) /\ {} \in SUBSET (1 .. n) /\ m + 1 \notin {}
        OBVIOUS
      <4>2. F[{}] = base
        BY <4>1, <2>1 DEF Folds
      <4>3. G[{}] = F[{}]
        BY <4>1, <2>3
      <4> QED
        BY <3>4, <4>2, <4>3
    <3> QED
      BY <3>2, <3>3, <3>4
  <2>6. Folds(G, n, base, step, m + 1)
    BY <2>5 DEF Folds
  <2> QED
    BY <2>4, <2>6
<1>3. n \in N
  <2> HIDE DEF N
  <2> QED
    BY <1>1, <1>2, Climbs
<1>4. Some(n)
  <2> HIDE DEF Some
  <2> QED
    BY <1>3
<1> QED
  BY <1>4

-----------------------------------------------------------------------------
(* What is paid for executions.                                            *)

\* What is paid for executions, added up one execution at a time.
SumAlong(g, s) ==
    /\ g[0] = 0
    /\ \A k \in 1 .. Len(s) : g[k] = g[k - 1] + s[k]
    /\ Sum(s) = g[Len(s)]

\* Sum is the last of such partial sums.
LEMMA SumHasSteps ==
  ASSUME NEW s \in Seq(Nat)
  PROVE  \E g : SumAlong(g, s)
<1> DEFINE n == Len(s)
           Adds(iter) == iter = [S \in SUBSET (1 .. n) |->
                           IF S = {} THEN 0 ELSE iter[S \ {Max(S)}] + s[Max(S)]]
           step == [k \in 1 .. n |-> [v \in Nat |-> v + s[k]]]
<1>1. n \in Nat /\ DOMAIN s = 1 .. n /\ \A k \in 1 .. n : s[k] \in Nat
  OBVIOUS
<1>2. step \in [1 .. n -> [Nat -> Nat]] /\ \A k \in 1 .. n, v \in Nat : step[k][v] = v + s[k]
  BY <1>1
<1>3. \E iter : Adds(iter)
  <2>1. PICK F \in [SUBSET (1 .. n) -> Nat] : Folds(F, n, 0, step, n)
    <3> HIDE DEF step, n
    <3> QED
      BY <1>1, <1>2, FoldExists
  <2>2. ASSUME NEW S \in SUBSET (1 .. n)
        PROVE  F[S] = IF S = {} THEN 0 ELSE F[S \ {Max(S)}] + s[Max(S)]
    <3>1. CASE S # {}
      <4>1. Max(S) \in 1 .. n
        BY <3>1, <1>1, LargestIs
      <4>2. F[S] = step[Max(S)][F[S \ {Max(S)}]]
        <5> HIDE DEF step, n
        <5> QED
          BY <2>1, <3>1 DEF Folds
      <4>3. F[S \ {Max(S)}] \in Nat
        BY <2>1
      <4> HIDE DEF step
      <4> QED
        BY <3>1, <4>1, <4>2, <4>3, <1>2
    <3>2. CASE S = {}
      <4> HIDE DEF step, n
      <4> QED
        BY <3>2, <2>1 DEF Folds
    <3> QED
      BY <3>1, <3>2
  <2>3. F = [S \in SUBSET (1 .. n) |-> F[S]]
    BY <2>1
  <2>4. Adds(F)
    BY <2>2, <2>3
  <2> QED
    BY <2>4
<1> DEFINE F == CHOOSE iter : Adds(iter)
<1>4. Adds(F)
  BY <1>3
<1>5. Sum(s) = F[1 .. n]
  BY <1>1 DEF Sum, FoldLeft, MapThenFoldSet
<1> HIDE DEF F
<1>6. \A S \in SUBSET (1 .. n) : F[S] = IF S = {} THEN 0 ELSE F[S \ {Max(S)}] + s[Max(S)]
  BY <1>4
<1> DEFINE g == [k \in 0 .. n |-> F[1 .. k]]
<1>7. \A k \in 0 .. n : g[k] = F[1 .. k]
  OBVIOUS
<1> HIDE DEF g
<1>8. g[0] = 0
  <2>1. {} \in SUBSET (1 .. n) /\ 1 .. 0 = {} /\ 0 \in 0 .. n
    BY <1>1
  <2> QED
    BY <2>1, <1>6, <1>7
<1>9. ASSUME NEW k \in 1 .. n PROVE g[k] = g[k - 1] + s[k]
  <2>1. 1 .. k \in SUBSET (1 .. n) /\ 1 .. k # {} /\ k \in 0 .. n /\ k - 1 \in 0 .. n
    BY <1>1, FirstFew
  <2>2. Max(1 .. k) = k /\ (1 .. k) \ {k} = 1 .. k - 1
    BY <1>1, FirstFew, LargestOfInterval
  <2> QED
    BY <2>1, <2>2, <1>6, <1>7
<1>10. Sum(s) = g[n]
  BY <1>1, <1>5, <1>7
<1> QED
  BY <1>8, <1>9, <1>10 DEF SumAlong

\* Nothing executed, nothing paid.
LEMMA SumOfNone == Sum(<<>>) = 0
<1>1. <<>> \in Seq(Nat) /\ Len(<<>>) = 0
  OBVIOUS
<1>2. PICK g : SumAlong(g, <<>>)
  BY <1>1, SumHasSteps
<1> QED
  BY <1>1, <1>2 DEF SumAlong

\* Partial sums of natural numbers are natural.
LEMMA PartsAreNatural ==
  ASSUME NEW s \in Seq(Nat), NEW g, SumAlong(g, s), NEW k \in 0 .. Len(s)
  PROVE  g[k] \in Nat
<1> DEFINE N == {m \in Nat : m <= Len(s) => g[m] \in Nat}
<1>1. 0 \in N
  BY DEF SumAlong
<1>2. ASSUME NEW m \in Nat, m \in N PROVE m + 1 \in N
  <2> SUFFICES ASSUME m + 1 <= Len(s) PROVE g[m + 1] \in Nat
    OBVIOUS
  <2>1. m + 1 \in 1 .. Len(s) /\ (m + 1) - 1 = m /\ s[m + 1] \in Nat /\ g[m] \in Nat
    BY <1>2
  <2>2. g[m + 1] = g[(m + 1) - 1] + s[m + 1]
    BY <2>1 DEF SumAlong
  <2> QED
    BY <2>1, <2>2
<1>3. Nat \subseteq N
  <2> HIDE DEF N
  <2> QED
    BY <1>1, <1>2, Climbs
<1> QED
  BY <1>3

\* What is paid for executions is a natural number.
LEMMA SumIsNatural ==
  ASSUME NEW s \in Seq(Nat)
  PROVE  Sum(s) \in Nat
<1>1. PICK g : SumAlong(g, s)
  BY SumHasSteps
<1>2. Len(s) \in 0 .. Len(s)
  OBVIOUS
<1>3. g[Len(s)] \in Nat
  BY <1>1, <1>2, PartsAreNatural
<1> QED
  BY <1>1, <1>3 DEF SumAlong

\* One execution more is its price more.
LEMMA SumOfOneMore ==
  ASSUME NEW s \in Seq(Nat), NEW price \in Nat
  PROVE  Sum(Append(s, price)) = Sum(s) + price
<1> DEFINE t == Append(s, price)
           n == Len(s)
<1>1. /\ t \in Seq(Nat) /\ n \in Nat /\ Len(t) = n + 1 /\ t[n + 1] = price
      /\ \A k \in 1 .. n : t[k] = s[k]
  OBVIOUS
<1> HIDE DEF t
<1>2. PICK f : SumAlong(f, s)
  BY SumHasSteps
<1>3. PICK g : SumAlong(g, t)
  BY <1>1, SumHasSteps
<1> DEFINE N == {m \in Nat : m <= n => g[m] = f[m]}
<1>4. 0 \in N
  BY <1>2, <1>3 DEF SumAlong
<1>5. ASSUME NEW m \in Nat, m \in N PROVE m + 1 \in N
  <2> SUFFICES ASSUME m + 1 <= n PROVE g[m + 1] = f[m + 1]
    OBVIOUS
  <2>1. m + 1 \in 1 .. n /\ m + 1 \in 1 .. Len(t) /\ (m + 1) - 1 = m /\ g[m] = f[m]
    BY <1>1, <1>5
  <2>2. g[m + 1] = g[(m + 1) - 1] + t[m + 1] /\ f[m + 1] = f[(m + 1) - 1] + s[m + 1]
    BY <2>1, <1>2, <1>3 DEF SumAlong
  <2> QED
    BY <2>1, <2>2, <1>1
<1>6. Nat \subseteq N
  <2> HIDE DEF N
  <2> QED
    BY <1>4, <1>5, Climbs
<1>7. g[n] = f[n] /\ (n + 1) - 1 = n /\ n + 1 \in 1 .. Len(t)
  BY <1>1, <1>6
<1>8. Sum(s) = f[n] /\ Sum(t) = g[n + 1] /\ g[n + 1] = g[(n + 1) - 1] + t[n + 1]
  BY <1>1, <1>2, <1>3, <1>7 DEF SumAlong
<1> QED
  BY <1>1, <1>7, <1>8 DEF t

-----------------------------------------------------------------------------
(* The table of rows.                                                      *)

\* Orders are known by their numbers.
LEMMA ExecutingAreNumbers == Executing \subseteq Nat /\ Executing \subseteq Orders
  BY InquiryAssumption DEF Executing

\* A later order has an earlier place, within the table.
LEMMA PlacesFall ==
  ASSUME IsFiniteSet(Executing), NEW o \in Executing
  PROVE  /\ Place(o) \in 1 .. Cardinality(Executing)
         /\ \A p \in Executing : p > o => Place(p) < Place(o)
<1> DEFINE From(p) == {q \in Executing : q >= p}
<1>1. ASSUME NEW p \in Executing
      PROVE  Place(p) = Cardinality(From(p)) /\ From(p) \subseteq Executing /\ p \in From(p)
  BY ExecutingAreNumbers DEF Place
<1>2. ASSUME NEW p \in Executing
      PROVE  /\ IsFiniteSet(From(p)) /\ Place(p) \in Nat /\ Place(p) # 0
             /\ Place(p) <= Cardinality(Executing)
  <2> DEFINE F == From(p)
  <2>1. F \subseteq Executing /\ p \in F /\ Place(p) = Cardinality(F)
    BY <1>1
  <2> HIDE DEF F
  <2>2. IsFiniteSet(F) /\ Cardinality(F) <= Cardinality(Executing)
    BY <2>1, FS_Subset
  <2>3. Cardinality(F) \in Nat /\ Cardinality(F) # 0
    BY <2>1, <2>2, FS_CardinalityType, FS_EmptySet
  <2> QED
    BY <2>1, <2>2, <2>3 DEF F
<1>3. Cardinality(Executing) \in Nat
  BY FS_CardinalityType
<1>4. ASSUME NEW p \in Executing, p > o PROVE Place(p) < Place(o)
  <2> DEFINE F == From(o)
             G == From(p)
  <2>1. G \subseteq F /\ o \in F /\ o \notin G
    <3>1. o \in Nat /\ p \in Nat /\ \A q \in Executing : q \in Nat
      BY ExecutingAreNumbers
    <3>2. \A q \in Executing : q >= p => q >= o
      BY <3>1, <1>4
    <3>3. o >= o /\ ~(o >= p)
      BY <3>1, <1>4
    <3> QED
      BY <3>2, <3>3
  <2>2. /\ IsFiniteSet(F) /\ Place(o) = Cardinality(F) /\ Place(p) = Cardinality(G)
        /\ Place(o) \in Nat /\ Place(p) \in Nat
    BY <1>1, <1>2
  <2> HIDE DEF F, G
  <2>3. G # F /\ G \in SUBSET F
    BY <2>1
  <2>4. Cardinality(G) <= Cardinality(F) /\ (Cardinality(F) = Cardinality(G) => F = G)
    BY <2>2, <2>3, FS_Subset
  <2> QED
    BY <2>2, <2>3, <2>4
<1>5. Place(o) \in 1 .. Cardinality(Executing)
  <2>1. Place(o) \in Nat /\ Place(o) # 0 /\ Place(o) <= Cardinality(Executing)
    BY <1>2
  <2> QED
    BY <2>1, <1>3
<1> QED
  BY <1>4, <1>5

\* Every order that executed has a row of its own, and every row is of one.
LEMMA TableListsAll ==
  ASSUME IsFiniteSet(Executing)
  PROVE  /\ Cardinality(Executing) \in Nat
         /\ Table \in [1 .. Cardinality(Executing) -> Executing]
         /\ \A i \in 1 .. Cardinality(Executing) : Place(Table[i]) = i
         /\ \A o \in Executing : /\ Place(o) \in 1 .. Cardinality(Executing)
                                 /\ Table[Place(o)] = o
<1> DEFINE n == Cardinality(Executing)
           F == [o \in Executing |-> Place(o)]
<1>1. n \in Nat
  BY FS_CardinalityType
<1>2. \A o, p \in Executing : o # p => Place(o) # Place(p)
  <2> SUFFICES ASSUME NEW o \in Executing, NEW p \in Executing, o # p
               PROVE  Place(o) # Place(p)
    OBVIOUS
  <2>1. o \in Nat /\ p \in Nat
    BY ExecutingAreNumbers
  <2>2. Place(o) \in 1 .. n /\ Place(p) \in 1 .. n
    BY PlacesFall
  <2>3. CASE o > p
    <3>1. Place(o) < Place(p)
      BY <2>3, PlacesFall
    <3> QED
      BY <3>1, <2>2
  <2>4. CASE p > o
    <3>1. Place(p) < Place(o)
      BY <2>4, PlacesFall
    <3> QED
      BY <3>1, <2>2
  <2> QED
    BY <2>1, <2>3, <2>4
<1>3. \A o \in Executing : Place(o) \in 1 .. n
  BY PlacesFall
<1>4. F \in Injection(Executing, 1 .. n)
  <2> HIDE DEF n
  <2> QED
    BY <1>2, <1>3 DEF Injection, IsInjective
<1>5. IsFiniteSet(1 .. n) /\ Cardinality(1 .. n) = n
  BY <1>1, FS_Interval
<1>6. F \in Surjection(Executing, 1 .. n)
  <2> HIDE DEF F
  <2> QED
    BY <1>4, <1>5, FS_Injection
<1>7. ASSUME NEW i \in 1 .. n PROVE \E o \in Executing : Place(o) = i
  BY <1>6 DEF Surjection
<1>8. ASSUME NEW i \in 1 .. n PROVE Table[i] \in Executing /\ Place(Table[i]) = i
  <2>1. Table[i] = CHOOSE o \in Executing : Place(o) = i
    BY DEF Table
  <2> QED
    BY <1>7, <2>1
<1>9. Table \in [1 .. n -> Executing]
  <2>1. Table = [i \in 1 .. n |-> Table[i]]
    BY DEF Table
  <2> QED
    BY <1>8, <2>1
<1>10. ASSUME NEW o \in Executing PROVE Table[Place(o)] = o
  BY <1>2, <1>3, <1>8
<1> QED
  BY <1>1, <1>3, <1>8, <1>9, <1>10

-----------------------------------------------------------------------------
(* Pages.                                                                  *)

\* A row of the table is a row.
LEMMA RowIsTyped ==
  ASSUME InquiryTyped, NEW o \in Executing
  PROVE  Row(o) \in Rows
<1>1. o \in Orders /\ executions[o] # <<>> /\ executions[o] \in Seq(Nat \ {0})
  BY DEF InquiryTyped, Executing
<1>2. executions[o] \in Seq(Nat)
  BY <1>1
<1>3. Sum(executions[o]) \in Nat
  BY <1>2, SumIsNatural
<1>4. Len(executions[o]) \in Nat \ {0}
  BY <1>1
<1> QED
  BY <1>1, <1>3, <1>4 DEF Row, Rows

\* The end of a page is the lesser of two places.
LEMMA LesserOfTwo ==
  ASSUME NEW a \in Int, NEW b \in Int
  PROVE  Min({a, b}) = IF a <= b THEN a ELSE b
  BY DEF Min

\* Where the page ends that starts at a place.
PageEnd(from) ==
    IF from + PageLength - 1 <= Cardinality(Executing) THEN from + PageLength - 1
                                                       ELSE Cardinality(Executing)

\* The rows of a page are those of the table from where it starts, as they stand.
LEMMA PageIs ==
  ASSUME InquiryTyped, NEW from \in Nat \ {0}
  PROVE  /\ Len(Table) = Cardinality(Executing) /\ PageEnd(from) \in Nat
         /\ Page(from) \in Seq(Rows)
         /\ Len(Page(from)) = IF from <= PageEnd(from) THEN PageEnd(from) - from + 1 ELSE 0
         /\ \A i \in 1 .. Len(Page(from)) :
              /\ from + i - 1 \in 1 .. Cardinality(Executing)
              /\ Page(from)[i] = Row(Table[from + i - 1])
<1> DEFINE n == Cardinality(Executing)
           to == PageEnd(from)
           page == SubSeq(Table, from, to)
<1>1. n \in Nat /\ Table \in [1 .. n -> Executing]
  BY TableListsAll DEF InquiryTyped
<1>2. Len(Table) = n /\ Table \in Seq(Executing)
  BY <1>1
<1>3. PageLength \in Nat \ {0}
  BY InquiryAssumption
<1>4. to \in Nat /\ to <= n /\ from + PageLength - 1 \in Nat
  <2> HIDE DEF n
  <2> QED
    BY <1>1, <1>3 DEF PageEnd, n
<1>5. Min({from + PageLength - 1, Len(Table)}) = to
  <2> DEFINE a == from + PageLength - 1
  <2>1. a \in Int /\ n \in Int /\ Len(Table) = n
    BY <1>1, <1>2, <1>4
  <2>2. to = IF a <= n THEN a ELSE n
    BY DEF PageEnd
  <2> HIDE DEF a, n, to
  <2> QED
    BY <2>1, <2>2, LesserOfTwo DEF a
<1> HIDE DEF to
<1>6. \A i \in from .. to : Table[i] \in Executing
  <2> HIDE DEF n
  <2>1. \A i \in from .. to : i \in 1 .. n
    BY <1>1, <1>4
  <2> QED
    BY <1>1, <2>1
<1>7. /\ page \in Seq(Executing) /\ Len(page) = IF from <= to THEN to - from + 1 ELSE 0
      /\ \A i \in 1 .. to - from + 1 : page[i] = Table[from + i - 1]
  <2>1. from \in Int /\ to \in Int
    BY <1>4
  <2> QED
    BY <1>6, <2>1, SubSeqProperties
<1>8. Page(from) = [i \in DOMAIN page |-> Row(page[i])]
  BY <1>5 DEF Page
<1>9. Len(page) \in Nat /\ DOMAIN page = 1 .. Len(page) /\ \A i \in 1 .. Len(page) : page[i] \in Executing
  BY <1>7
<1> HIDE DEF page
<1>10. \A i \in 1 .. Len(page) : Row(page[i]) \in Rows
  BY <1>9, RowIsTyped
<1>11. Page(from) \in [1 .. Len(page) -> Rows]
  BY <1>8, <1>9, <1>10
<1>12. Page(from) \in Seq(Rows) /\ Len(Page(from)) = Len(page)
  BY <1>9, <1>11
<1>13. ASSUME NEW i \in 1 .. Len(page)
       PROVE  from + i - 1 \in 1 .. n /\ Page(from)[i] = Row(Table[from + i - 1])
  <2>1. i \in 1 .. to - from + 1
    BY <1>4, <1>7
  <2>2. page[i] = Table[from + i - 1]
    BY <2>1, <1>7
  <2>3. from + i - 1 \in 1 .. n
    <3> HIDE DEF n
    <3> QED
      BY <1>1, <1>4, <2>1
  <2>4. Page(from)[i] = Row(page[i])
    BY <1>8, <1>9
  <2> QED
    BY <2>2, <2>3, <2>4
<1> QED
  BY <1>2, <1>4, <1>7, <1>12, <1>13 DEF to

-----------------------------------------------------------------------------
(* Folds over reports and rows.                                            *)

\* What is booked once reports are, added up one report at a time.
BookedAlong(g, o, s) ==
    /\ g[0] = book[o].filled
    /\ \A k \in 1 .. Len(s) : g[k] = g[k - 1] + (IF s[k].order = o THEN s[k].filled ELSE 0)
    /\ BookedWith(o, s) = g[Len(s)]

\* BookedWith is the last of such partial sums.
LEMMA BookedWithHasSteps ==
  ASSUME InquiryTyped, NEW o \in Orders, NEW s \in Seq(Reports)
  PROVE  \E g : BookedAlong(g, o, s)
<1> DEFINE n == Len(s)
           Adds(iter) == iter = [S \in SUBSET (1 .. n) |->
                           IF S = {} THEN book[o].filled
                           ELSE iter[S \ {Max(S)}]
                                  + (IF s[Max(S)].order = o THEN s[Max(S)].filled ELSE 0)]
           step == [k \in 1 .. n |-> [v \in Nat |-> v + (IF s[k].order = o THEN s[k].filled ELSE 0)]]
<1>1. n \in Nat /\ DOMAIN s = 1 .. n /\ \A k \in 1 .. n : s[k] \in Reports
  OBVIOUS
<1>2. book[o].filled \in Nat
  BY DEF InquiryTyped, Amounts
<1>3. \A k \in 1 .. n, v \in Nat : v + (IF s[k].order = o THEN s[k].filled ELSE 0) \in Nat
  <2>1. \A k \in 1 .. n : s[k].filled \in Nat
    BY <1>1 DEF Reports
  <2> HIDE DEF step, n
  <2> QED
    BY <2>1
<1>4. /\ step \in [1 .. n -> [Nat -> Nat]]
      /\ \A k \in 1 .. n, v \in Nat :
           step[k][v] = v + (IF s[k].order = o THEN s[k].filled ELSE 0)
  BY <1>3
<1>5. \E iter : Adds(iter)
  <2>1. PICK F \in [SUBSET (1 .. n) -> Nat] : Folds(F, n, book[o].filled, step, n)
    <3> HIDE DEF step, n
    <3> QED
      BY <1>1, <1>2, <1>4, FoldExists
  <2>2. ASSUME NEW S \in SUBSET (1 .. n)
        PROVE  F[S] = IF S = {} THEN book[o].filled
                      ELSE F[S \ {Max(S)}]
                             + (IF s[Max(S)].order = o THEN s[Max(S)].filled ELSE 0)
    <3>1. CASE S # {}
      <4>1. Max(S) \in 1 .. n
        BY <3>1, <1>1, LargestIs
      <4>2. F[S] = step[Max(S)][F[S \ {Max(S)}]]
        <5> HIDE DEF step, n
        <5> QED
          BY <2>1, <3>1 DEF Folds
      <4>3. F[S \ {Max(S)}] \in Nat
        BY <2>1
      <4> HIDE DEF step
      <4> QED
        BY <3>1, <4>1, <4>2, <4>3, <1>4
    <3>2. CASE S = {}
      <4> HIDE DEF step, n
      <4> QED
        BY <3>2, <2>1 DEF Folds
    <3> QED
      BY <3>1, <3>2
  <2>3. F = [S \in SUBSET (1 .. n) |-> F[S]]
    BY <2>1
  <2>4. Adds(F)
    BY <2>2, <2>3
  <2> QED
    BY <2>4
<1> DEFINE F == CHOOSE iter : Adds(iter)
<1>6. Adds(F)
  BY <1>5
<1>7. BookedWith(o, s) = F[1 .. n]
  BY <1>1 DEF BookedWith, FoldLeft, MapThenFoldSet
<1> HIDE DEF F
<1>8. \A S \in SUBSET (1 .. n) :
        F[S] = IF S = {} THEN book[o].filled
               ELSE F[S \ {Max(S)}] + (IF s[Max(S)].order = o THEN s[Max(S)].filled ELSE 0)
  BY <1>6
<1> DEFINE g == [k \in 0 .. n |-> F[1 .. k]]
<1>9. \A k \in 0 .. n : g[k] = F[1 .. k]
  OBVIOUS
<1> HIDE DEF g
<1>10. g[0] = book[o].filled
  <2>1. {} \in SUBSET (1 .. n) /\ 1 .. 0 = {} /\ 0 \in 0 .. n
    BY <1>1
  <2> QED
    BY <2>1, <1>8, <1>9
<1>11. ASSUME NEW k \in 1 .. n PROVE g[k] = g[k - 1] + (IF s[k].order = o THEN s[k].filled ELSE 0)
  <2> HIDE DEF step, n
  <2>1. 1 .. k \in SUBSET (1 .. n) /\ 1 .. k # {} /\ k \in 0 .. n /\ k - 1 \in 0 .. n
    BY <1>1, FirstFew
  <2>2. Max(1 .. k) = k /\ (1 .. k) \ {k} = 1 .. k - 1
    BY <1>1, FirstFew, LargestOfInterval
  <2>3. g[k] = F[1 .. k] /\ g[k - 1] = F[1 .. k - 1]
    BY <2>1, <1>9
  <2> DEFINE S == 1 .. k
  <2>4. S \in SUBSET (1 .. n) /\ S # {} /\ Max(S) = k /\ S \ {k} = 1 .. k - 1
    BY <2>1, <2>2
  <2> HIDE DEF S
  <2> QED
    BY <2>3, <2>4, <1>8 DEF S
<1>12. BookedWith(o, s) = g[n]
  BY <1>1, <1>7, <1>9
<1> QED
  BY <1>10, <1>11, <1>12 DEF BookedAlong

\* What normalize makes of rows, one row at a time.
Carried == [Orders -> [filled : Int, paid : Int]]
Made == [order : Orders, filled : Int, paid : Int, execution_id : Ids]
Normalizing == [carried : Carried, reports : Seq(Made)]
Unnormalized == [carried |-> book, reports |-> <<>>]

NormalizedAlong(g, rows) ==
    /\ g[0] = Unnormalized
    /\ \A k \in 1 .. Len(rows) : g[k] = Normalize(g[k - 1], rows[k])
    /\ Normalized(rows) = g[Len(rows)].reports

\* One row more keeps what is carried and reported of its type.
LEMMA NormalizeTyped ==
  ASSUME NEW sofar \in Normalizing, NEW row \in Rows
  PROVE  Normalize(sofar, row) \in Normalizing
<1>1. /\ row.order \in Orders /\ row.filled \in Nat \ {0} /\ row.paid \in Nat
      /\ sofar.carried \in Carried /\ sofar.reports \in Seq(Made)
  BY DEF Rows, Normalizing
<1>2. sofar.carried[row.order].filled \in Int /\ sofar.carried[row.order].paid \in Int
  BY <1>1 DEF Carried
<1> DEFINE report == Report(row, sofar.carried[row.order])
<1>3. report \in Made
  <2>1. row.filled - sofar.carried[row.order].filled \in Int /\ row.paid - sofar.carried[row.order].paid \in Int
    BY <1>1, <1>2
  <2>2. Identity(row) \in Ids
    BY <1>1 DEF Identity, Ids
  <2> QED
    BY <1>1, <2>1, <2>2 DEF Report, Made
<1> HIDE DEF report
<1>4. Append(sofar.reports, report) \in Seq(Made)
  BY <1>1, <1>3
<1>5. Carry(sofar.carried, row) \in Carried
  <2>1. Filled(row.filled, row.paid) \in [filled : Int, paid : Int]
    BY <1>1 DEF Filled
  <2> QED
    BY <1>1, <2>1 DEF Carry, Carried
<1> QED
  BY <1>4, <1>5 DEF Normalize, Normalizing, report

\* Normalized is what the last row leaves reported.
LEMMA NormalizedHasSteps ==
  ASSUME InquiryTyped, NEW rows \in Seq(Rows)
  PROVE  \E g : NormalizedAlong(g, rows)
<1> DEFINE n == Len(rows)
           Adds(iter) == iter = [S \in SUBSET (1 .. n) |->
                           IF S = {} THEN Unnormalized ELSE Normalize(iter[S \ {Max(S)}], rows[Max(S)])]
           step == [k \in 1 .. n |-> [v \in Normalizing |-> Normalize(v, rows[k])]]
<1>1. n \in Nat /\ DOMAIN rows = 1 .. n /\ \A k \in 1 .. n : rows[k] \in Rows
  OBVIOUS
<1>2. Unnormalized \in Normalizing
  BY EmptySeq DEF InquiryTyped, Amounts, Unnormalized, Normalizing, Carried
<1>3. \A k \in 1 .. n, v \in Normalizing : Normalize(v, rows[k]) \in Normalizing
  BY <1>1, NormalizeTyped
<1>4. /\ step \in [1 .. n -> [Normalizing -> Normalizing]]
      /\ \A k \in 1 .. n, v \in Normalizing : step[k][v] = Normalize(v, rows[k])
  BY <1>3
<1>5. \E iter : Adds(iter)
  <2>1. PICK F \in [SUBSET (1 .. n) -> Normalizing] : Folds(F, n, Unnormalized, step, n)
    <3> HIDE DEF step, n
    <3> QED
      BY <1>1, <1>2, <1>4, FoldExists
  <2>2. ASSUME NEW S \in SUBSET (1 .. n)
        PROVE  F[S] = IF S = {} THEN Unnormalized ELSE Normalize(F[S \ {Max(S)}], rows[Max(S)])
    <3>1. CASE S # {}
      <4>1. Max(S) \in 1 .. n
        BY <3>1, <1>1, LargestIs
      <4>2. F[S] = step[Max(S)][F[S \ {Max(S)}]]
        <5> HIDE DEF step, n
        <5> QED
          BY <2>1, <3>1 DEF Folds
      <4>3. F[S \ {Max(S)}] \in Normalizing
        BY <2>1
      <4> HIDE DEF step
      <4> QED
        BY <3>1, <4>1, <4>2, <4>3, <1>4
    <3>2. CASE S = {}
      <4> HIDE DEF step, n
      <4> QED
        BY <3>2, <2>1 DEF Folds
    <3> QED
      BY <3>1, <3>2
  <2>3. F = [S \in SUBSET (1 .. n) |-> F[S]]
    BY <2>1
  <2>4. Adds(F)
    BY <2>2, <2>3
  <2> QED
    BY <2>4
<1> DEFINE F == CHOOSE iter : Adds(iter)
<1>6. Adds(F)
  BY <1>5
<1>7. Normalized(rows) = F[1 .. n].reports
  BY <1>1 DEF Normalized, Unnormalized, FoldLeft, MapThenFoldSet
<1> HIDE DEF F
<1>8. \A S \in SUBSET (1 .. n) :
        F[S] = IF S = {} THEN Unnormalized ELSE Normalize(F[S \ {Max(S)}], rows[Max(S)])
  BY <1>6
<1> DEFINE g == [k \in 0 .. n |-> F[1 .. k]]
<1>9. \A k \in 0 .. n : g[k] = F[1 .. k]
  OBVIOUS
<1> HIDE DEF g
<1>10. g[0] = Unnormalized
  <2>1. {} \in SUBSET (1 .. n) /\ 1 .. 0 = {} /\ 0 \in 0 .. n
    BY <1>1
  <2> QED
    BY <2>1, <1>8, <1>9
<1>11. ASSUME NEW k \in 1 .. n PROVE g[k] = Normalize(g[k - 1], rows[k])
  <2> HIDE DEF step, n
  <2>1. 1 .. k \in SUBSET (1 .. n) /\ 1 .. k # {} /\ k \in 0 .. n /\ k - 1 \in 0 .. n
    BY <1>1, FirstFew
  <2>2. Max(1 .. k) = k /\ (1 .. k) \ {k} = 1 .. k - 1
    BY <1>1, FirstFew, LargestOfInterval
  <2>3. g[k] = F[1 .. k] /\ g[k - 1] = F[1 .. k - 1]
    BY <2>1, <1>9
  <2> DEFINE S == 1 .. k
  <2>4. S \in SUBSET (1 .. n) /\ S # {} /\ Max(S) = k /\ S \ {k} = 1 .. k - 1
    BY <2>1, <2>2
  <2> HIDE DEF S
  <2> QED
    BY <2>3, <2>4, <1>8 DEF S
<1>12. Normalized(rows) = g[n].reports
  BY <1>1, <1>7, <1>9
<1> QED
  BY <1>10, <1>11, <1>12 DEF NormalizedAlong, Unnormalized

-----------------------------------------------------------------------------
(* Reports that count on from one another.                                 *)

LastOf(reports, j, o) ==
    reports[j].order = o /\ \A k \in j + 1 .. Len(reports) : reports[k].order # o
NoneOf(reports, o) == \A k \in DOMAIN reports : reports[k].order # o

\* A report appended counts on from the last of its order, or from the books.
LEMMA CountOnAppended ==
  ASSUME NEW reports \in Seq(Made), NEW report \in Made, NEW books, CountOn(reports, books),
         \/ /\ NoneOf(reports, report.order)
            /\ Makes(report, books[report.order].filled, books[report.order].paid)
         \/ \E j \in DOMAIN reports :
              /\ LastOf(reports, j, report.order)
              /\ Makes(report, reports[j].execution_id[2], reports[j].execution_id[3])
  PROVE  CountOn(Append(reports, report), books)
<1> DEFINE t == Append(reports, report)
           n == Len(reports)
<1>1. /\ n \in Nat /\ Len(t) = n + 1 /\ t[n + 1] = report /\ DOMAIN t = 1 .. n + 1
      /\ DOMAIN reports = 1 .. n /\ \A i \in 1 .. n : t[i] = reports[i]
  OBVIOUS
<1> HIDE DEF t, n
<1>2. \A i \in 1 .. n : \A j \in 0 .. i - 1 : Between(t, j, i) <=> Between(reports, j, i)
  <2> SUFFICES ASSUME NEW i \in 1 .. n, NEW j \in 0 .. i - 1
               PROVE  Between(t, j, i) <=> Between(reports, j, i)
    OBVIOUS
  <2>1. \A k \in j + 1 .. i - 1 : t[k] = reports[k]
    BY <1>1
  <2>2. t[i] = reports[i]
    BY <1>1
  <2> QED
    BY <2>1, <2>2 DEF Between
<1>3. ASSUME NEW i \in 1 .. n
      PROVE  /\ ~Between(t, 0, i) =>
                  Makes(t[i], books[t[i].order].filled, books[t[i].order].paid)
             /\ \A j \in 1 .. i - 1 :
                  t[j].order = t[i].order /\ ~Between(t, j, i) =>
                    Makes(t[i], t[j].execution_id[2], t[j].execution_id[3])
  <2>1. t[i] = reports[i] /\ \A j \in 1 .. i - 1 : t[j] = reports[j] /\ j \in 0 .. i - 1
    BY <1>1
  <2>2. 0 \in 0 .. i - 1
    BY <1>1
  <2>3. i \in DOMAIN reports
    BY <1>1
  <2> QED
    BY <1>2, <2>1, <2>2, <2>3 DEF CountOn
<1>4. ~Between(t, 0, n + 1) => Makes(report, books[report.order].filled, books[report.order].paid)
  <2> SUFFICES ASSUME ~Between(t, 0, n + 1)
               PROVE  Makes(report, books[report.order].filled, books[report.order].paid)
    OBVIOUS
  <2>1. \A k \in 0 + 1 .. (n + 1) - 1 : t[k].order # report.order
    BY <1>1 DEF Between
  <2>2. \A k \in 1 .. n : reports[k].order # report.order
    BY <1>1, <2>1
  <2> QED
    BY <1>1, <2>2 DEF LastOf
<1>5. ASSUME NEW j \in 1 .. n, t[j].order = report.order, ~Between(t, j, n + 1)
      PROVE  Makes(report, t[j].execution_id[2], t[j].execution_id[3])
  <2>1. reports[j].order = report.order /\ t[j] = reports[j]
    BY <1>1, <1>5
  <2>2. \A k \in j + 1 .. (n + 1) - 1 : t[k].order # report.order
    BY <1>1, <1>5 DEF Between
  <2>3. \A k \in j + 1 .. n : reports[k].order # report.order
    BY <1>1, <2>2
  <2>4. ~NoneOf(reports, report.order)
    BY <1>1, <2>1 DEF NoneOf
  <2>5. PICK i \in 1 .. n :
          /\ LastOf(reports, i, report.order)
          /\ Makes(report, reports[i].execution_id[2], reports[i].execution_id[3])
    BY <1>1, <2>4
  <2>6. i = j
    <3>1. \A k \in i + 1 .. n : reports[k].order # report.order
      BY <2>5 DEF LastOf, n
    <3>2. reports[i].order = report.order
      BY <2>5 DEF LastOf
    <3>3. ~(i < j)
      BY <3>1, <2>1, <1>1
    <3>4. ~(j < i)
      BY <3>2, <2>3, <1>1
    <3> QED
      BY <3>3, <3>4
  <2> QED
    BY <2>1, <2>5, <2>6
<1>6. \A i \in 1 .. n + 1 :
        /\ ~Between(t, 0, i) =>
             Makes(t[i], books[t[i].order].filled, books[t[i].order].paid)
        /\ \A j \in 1 .. i - 1 :
             t[j].order = t[i].order /\ ~Between(t, j, i) =>
                 Makes(t[i], t[j].execution_id[2], t[j].execution_id[3])
  <2> SUFFICES ASSUME NEW i \in 1 .. n + 1
               PROVE  /\ ~Between(t, 0, i) =>
                           Makes(t[i], books[t[i].order].filled, books[t[i].order].paid)
                      /\ \A j \in 1 .. i - 1 :
                           t[j].order = t[i].order /\ ~Between(t, j, i) =>
                               Makes(t[i], t[j].execution_id[2], t[j].execution_id[3])
    OBVIOUS
  <2>1. CASE i \in 1 .. n
    BY <2>1, <1>3
  <2>2. CASE i = n + 1
    <3>1. 1 .. i - 1 = 1 .. n /\ t[i] = report
      BY <2>2, <1>1
    <3> QED
      BY <2>2, <3>1, <1>4, <1>5
  <2> QED
    BY <1>1, <2>1, <2>2
<1> QED
  BY <1>1, <1>6 DEF CountOn, t

\* Behind the first report, when the books show what it said, the others count
\* on from the books.
LEMMA CountOnRest ==
  ASSUME NEW reports \in Seq(Made), reports # <<>>, NEW books, CountOn(reports, books),
         NEW after,
         \A o \in Orders : o # Head(reports).order => after[o] = books[o],
         after[Head(reports).order].filled = Head(reports).execution_id[2],
         after[Head(reports).order].paid = Head(reports).execution_id[3]
  PROVE  CountOn(Tail(reports), after)
<1> DEFINE t == Tail(reports)
           n == Len(t)
           head == Head(reports)
<1>1. /\ n \in Nat /\ Len(reports) = n + 1 /\ head = reports[1] /\ DOMAIN t = 1 .. n
      /\ DOMAIN reports = 1 .. n + 1 /\ \A i \in 1 .. n : t[i] = reports[i + 1]
  BY HeadTailProperties
<1>0. \A i \in 1 .. n + 1 : reports[i].order \in Orders
  <2>1. \A i \in 1 .. Len(reports) : reports[i] \in Made
    OBVIOUS
  <2> QED
    BY <1>1, <2>1 DEF Made
<1> HIDE DEF t, n, head
<1>2. \A i \in 1 .. n : \A j \in 0 .. i - 1 : Between(t, j, i) <=> Between(reports, j + 1, i + 1)
  <2> SUFFICES ASSUME NEW i \in 1 .. n, NEW j \in 0 .. i - 1
               PROVE  Between(t, j, i) <=> Between(reports, j + 1, i + 1)
    OBVIOUS
  <2>1. ASSUME NEW k \in j + 1 .. i - 1
        PROVE  k + 1 \in (j + 1) + 1 .. (i + 1) - 1 /\ t[k] = reports[k + 1]
    BY <1>1
  <2>2. ASSUME NEW k \in (j + 1) + 1 .. (i + 1) - 1
        PROVE  k - 1 \in j + 1 .. i - 1 /\ t[k - 1] = reports[k]
    <3>1. k - 1 \in 1 .. n /\ (k - 1) + 1 = k
      BY <1>1
    <3> QED
      BY <1>1, <3>1
  <2>3. t[i] = reports[i + 1]
    BY <1>1
  <2>4. Between(t, j, i) => Between(reports, j + 1, i + 1)
    BY <2>1, <2>3 DEF Between
  <2>5. Between(reports, j + 1, i + 1) => Between(t, j, i)
    BY <2>2, <2>3 DEF Between
  <2> QED
    BY <2>4, <2>5
<1>3. ASSUME NEW i \in 1 .. n, ~Between(t, 0, i)
      PROVE  Makes(t[i], after[t[i].order].filled, after[t[i].order].paid)
  <2>1. t[i] = reports[i + 1] /\ i + 1 \in 1 .. n + 1 /\ 0 \in 0 .. i - 1
    BY <1>1
  <2>2. ~Between(reports, 0 + 1, i + 1)
    BY <1>2, <1>3, <2>1
  <2>3. ~Between(reports, 1, i + 1)
    BY <2>2
  <2>4. CASE head.order = t[i].order
    <3>1. 1 \in 1 .. (i + 1) - 1
      BY <2>1
    <3>2. Makes(reports[i + 1], reports[1].execution_id[2], reports[1].execution_id[3])
      BY <2>1, <2>3, <2>4, <3>1, <1>1 DEF CountOn
    <3> QED
      BY <3>2, <2>1, <2>4, <1>1 DEF head
  <2>5. CASE head.order # t[i].order
    <3>1. ~Between(reports, 0, i + 1)
      <4> SUFFICES ASSUME NEW k \in 0 + 1 .. (i + 1) - 1, reports[k].order = reports[i + 1].order
                   PROVE  FALSE
        BY DEF Between
      <4>1. CASE k = 1
        BY <4>1, <2>1, <2>5, <1>1
      <4>2. CASE k \in 1 + 1 .. (i + 1) - 1
        BY <4>2, <2>3 DEF Between
      <4> QED
        BY <4>1, <4>2, <2>1
    <3>2. Makes(reports[i + 1], books[t[i].order].filled, books[t[i].order].paid)
      BY <3>1, <2>1, <1>1 DEF CountOn
    <3>3. after[t[i].order] = books[t[i].order]
      BY <2>1, <2>5, <1>0 DEF head
    <3> QED
      BY <3>2, <3>3, <2>1
  <2> QED
    BY <2>4, <2>5
<1>4. ASSUME NEW i \in 1 .. n, NEW j \in 1 .. i - 1, t[j].order = t[i].order, ~Between(t, j, i)
      PROVE  Makes(t[i], t[j].execution_id[2], t[j].execution_id[3])
  <2>1. /\ t[i] = reports[i + 1] /\ i + 1 \in 1 .. n + 1 /\ t[j] = reports[j + 1]
        /\ j + 1 \in 1 .. (i + 1) - 1 /\ j \in 0 .. i - 1
    BY <1>1
  <2>2. ~Between(reports, j + 1, i + 1)
    BY <1>2, <1>4, <2>1
  <2> QED
    BY <1>1, <1>4, <2>1, <2>2 DEF CountOn
<1> QED
  BY <1>1, <1>3, <1>4 DEF CountOn, t

-----------------------------------------------------------------------------
(* normalize.                                                              *)

\* What is known of an order after some rows: what its last report said, or
\* what the books show.
KnownFrom(sofar, o) ==
    \/ NoneOf(sofar.reports, o) /\ sofar.carried[o] = book[o]
    \/ \E j \in DOMAIN sofar.reports :
         /\ LastOf(sofar.reports, j, o)
         /\ sofar.carried[o].filled = sofar.reports[j].execution_id[2]
         /\ sofar.carried[o].paid = sofar.reports[j].execution_id[3]

NormalizedUpto(sofar, rows, k) ==
    /\ sofar \in Normalizing
    /\ Told(sofar.reports)
    /\ CountOn(sofar.reports, book)
    /\ \A o \in Orders : KnownFrom(sofar, o)
    /\ \A i \in 1 .. k : rows[i].filled <= sofar.carried[rows[i].order].filled
    /\ \A i \in DOMAIN sofar.reports :
         \E j \in 1 .. k : rows[j].order = sofar.reports[i].order

\* Before any row the books are what is carried.
LEMMA NoneNormalized ==
  ASSUME InquiryTyped, NEW rows
  PROVE  NormalizedUpto(Unnormalized, rows, 0)
<1>1. book \in Carried
  BY DEF InquiryTyped, Amounts, Carried
<1>2. Unnormalized \in Normalizing
  BY <1>1, EmptySeq DEF Unnormalized, Normalizing
<1>3. Unnormalized.reports = <<>> /\ Unnormalized.carried = book /\ DOMAIN <<>> = {}
  BY DEF Unnormalized
<1>4. \A i \in 1 .. 0 : FALSE
  OBVIOUS
<1> QED
  BY <1>2, <1>3, <1>4 DEF NormalizedUpto, Told, CountOn, KnownFrom, NoneOf

\* One row more: it gives no report, or one that counts on from the last.
LEMMA OneMoreNormalized ==
  ASSUME InquiryTyped, NEW rows \in Seq(Rows), Read(rows), NEW k \in Nat, k + 1 <= Len(rows),
         NEW sofar, NormalizedUpto(sofar, rows, k)
  PROVE  NormalizedUpto(Normalize(sofar, rows[k + 1]), rows, k + 1)
<1> DEFINE row == rows[k + 1]
           o == row.order
           next == Normalize(sofar, row)
           report == Report(row, sofar.carried[o])
<1>1. k + 1 \in DOMAIN rows /\ row \in Rows /\ \A i \in 1 .. k + 1 : rows[i] \in Rows
  OBVIOUS
<1>2. /\ row.order \in Orders /\ row.filled \in Nat \ {0} /\ row.paid \in Nat
      /\ \A i \in 1 .. k + 1 : rows[i].order \in Orders /\ rows[i].filled \in Nat
  BY <1>1 DEF Rows
<1>3. /\ AsExecuted(o, row.filled, row.paid)
      /\ \A j \in 1 .. (k + 1) - 1 : rows[j].order = o => rows[j].filled <= row.filled
  BY <1>1 DEF Read
<1>4. next \in Normalizing
  BY <1>1, NormalizeTyped DEF NormalizedUpto
<1>5. CASE row.filled = sofar.carried[o].filled
  <2>1. next = sofar
    BY <1>5 DEF Normalize
  <2>2. \A i \in 1 .. k + 1 : rows[i].filled <= sofar.carried[rows[i].order].filled
    <3> SUFFICES ASSUME NEW i \in 1 .. k + 1
                 PROVE  rows[i].filled <= sofar.carried[rows[i].order].filled
      OBVIOUS
    <3>1. CASE i \in 1 .. k
      BY <3>1 DEF NormalizedUpto
    <3>2. CASE i = k + 1
      BY <3>2, <1>5, <1>2
    <3> QED
      BY <3>1, <3>2
  <2>3. \A i \in DOMAIN sofar.reports :
          \E j \in 1 .. k + 1 : rows[j].order = sofar.reports[i].order
    <3>1. \A j \in 1 .. k : j \in 1 .. k + 1
      OBVIOUS
    <3> QED
      BY <3>1 DEF NormalizedUpto
  <2> QED
    BY <2>1, <2>2, <2>3 DEF NormalizedUpto
<1>6. CASE row.filled # sofar.carried[o].filled
  <2> DEFINE carried == sofar.carried
             reports == sofar.reports
             n == Len(reports)
             amount == Filled(row.filled, row.paid)
  <2>1. next.carried = [carried EXCEPT ![o] = amount] /\ next.reports = Append(reports, report)
    BY <1>6 DEF Normalize, Carry
  <2>2. carried \in Carried /\ reports \in Seq(Made) /\ n \in Nat /\ DOMAIN reports = 1 .. n
    BY DEF NormalizedUpto, Normalizing
  <2>3. carried[o].filled \in Int /\ carried[o].paid \in Int
    BY <1>2, <2>2 DEF Carried
  <2>4. /\ report.order = o /\ report.execution_id = <<o, row.filled, row.paid>>
        /\ report.filled = row.filled - carried[o].filled
        /\ report.paid = row.paid - carried[o].paid
    BY DEF Report, Identity
  <2>5. report.execution_id[1] = o /\ report.execution_id[2] = row.filled /\ report.execution_id[3] = row.paid
    BY <2>4
  <2>6. report \in Made
    <3>1. Identity(row) \in Ids
      BY <1>2 DEF Identity, Ids
    <3>2. report.filled \in Int /\ report.paid \in Int
      <4> HIDE DEF report, carried, row, o
      <4> QED
        BY <1>2, <2>3, <2>4
    <3> QED
      BY <3>1, <3>2, <1>2 DEF Report, Made
  <2>7. Makes(report, carried[o].filled, carried[o].paid)
    <3> HIDE DEF report, carried, row, o
    <3>1. /\ row.filled = carried[o].filled + (row.filled - carried[o].filled)
          /\ row.paid = carried[o].paid + (row.paid - carried[o].paid)
      BY <2>3, <1>2
    <3> QED
      BY <3>1, <2>4, <2>5 DEF Makes
  <2>8. /\ next.carried[o] = amount /\ amount.filled = row.filled /\ amount.paid = row.paid
        /\ \A p \in Orders : p # o => next.carried[p] = carried[p]
    BY <1>2, <2>1, <2>2 DEF Carried, Filled
  <2>9. /\ Len(next.reports) = n + 1 /\ DOMAIN next.reports = 1 .. n + 1
        /\ next.reports[n + 1] = report /\ \A i \in 1 .. n : next.reports[i] = reports[i]
    <3> HIDE DEF report
    <3> QED
      BY <2>1, <2>2, <2>6
  <2> HIDE DEF report, next, amount
  <2>10. Told(next.reports)
    <3> SUFFICES ASSUME NEW i \in 1 .. n + 1
                 PROVE  LET r == next.reports[i]
                        IN  r.execution_id[1] = r.order /\ AsExecuted(r.order, r.execution_id[2], r.execution_id[3])
      BY <2>9 DEF Told
    <3>1. CASE i \in 1 .. n
      <4>1. next.reports[i] = reports[i] /\ i \in DOMAIN sofar.reports
        BY <3>1, <2>2, <2>9
      <4> QED
        BY <4>1 DEF NormalizedUpto, Told
    <3>2. CASE i = n + 1
      BY <3>2, <2>4, <2>5, <2>9, <1>3
    <3> QED
      BY <3>1, <3>2, <2>2
  <2>11. CountOn(next.reports, book)
    <3>1. CountOn(reports, book) /\ KnownFrom(sofar, o)
      BY <1>2 DEF NormalizedUpto
    <3>2. \/ /\ NoneOf(reports, report.order)
             /\ Makes(report, book[report.order].filled, book[report.order].paid)
          \/ \E j \in DOMAIN reports :
               /\ LastOf(reports, j, report.order)
               /\ Makes(report, reports[j].execution_id[2], reports[j].execution_id[3])
      BY <2>4, <2>7, <3>1 DEF KnownFrom
    <3>3. CountOn(Append(reports, report), book)
      <4> HIDE DEF reports
      <4> QED
        BY <2>2, <2>6, <3>1, <3>2, CountOnAppended
    <3> QED
      BY <2>1, <3>3
  <2>12. ASSUME NEW p \in Orders PROVE KnownFrom(next, p)
    <3>1. CASE p = o
      <4>1. LastOf(next.reports, n + 1, o)
        BY <2>2, <2>4, <2>9 DEF LastOf
      <4>2. /\ n + 1 \in DOMAIN next.reports
            /\ next.carried[o].filled = next.reports[n + 1].execution_id[2]
            /\ next.carried[o].paid = next.reports[n + 1].execution_id[3]
        BY <2>2, <2>5, <2>8, <2>9
      <4> QED
        BY <3>1, <4>1, <4>2 DEF KnownFrom
    <3>2. CASE p # o
      <4>1. next.carried[p] = carried[p] /\ KnownFrom(sofar, p)
        BY <3>2, <2>8 DEF NormalizedUpto
      <4>2. CASE NoneOf(reports, p) /\ carried[p] = book[p]
        <5>1. NoneOf(next.reports, p)
          <6> SUFFICES ASSUME NEW i \in 1 .. n + 1 PROVE next.reports[i].order # p
            BY <2>9 DEF NoneOf
          <6>1. CASE i \in 1 .. n
            BY <6>1, <4>2, <2>2, <2>9 DEF NoneOf
          <6>2. CASE i = n + 1
            BY <6>2, <3>2, <2>4, <2>9
          <6> QED
            BY <6>1, <6>2, <2>2
        <5> QED
          BY <5>1, <4>1, <4>2 DEF KnownFrom
      <4>3. ASSUME NEW j \in 1 .. n, LastOf(reports, j, p),
                   carried[p].filled = reports[j].execution_id[2],
                   carried[p].paid = reports[j].execution_id[3]
            PROVE  KnownFrom(next, p)
        <5>1. LastOf(next.reports, j, p)
          <6>1. next.reports[j].order = p
            BY <4>3, <2>9 DEF LastOf
          <6>2. ASSUME NEW i \in j + 1 .. n + 1 PROVE next.reports[i].order # p
            <7>1. CASE i \in j + 1 .. n
              <8>1. i \in 1 .. n /\ reports[i].order # p
                BY <7>1, <4>3, <2>2 DEF LastOf
              <8> QED
                BY <8>1, <2>9
            <7>2. CASE i = n + 1
              BY <7>2, <3>2, <2>4, <2>9
            <7> QED
              BY <7>1, <7>2, <2>2
          <6> QED
            BY <6>1, <6>2, <2>9 DEF LastOf
        <5>2. j \in DOMAIN next.reports /\ next.reports[j] = reports[j]
          BY <2>2, <2>9
        <5> QED
          BY <5>1, <5>2, <4>1, <4>3 DEF KnownFrom
      <4> QED
        BY <4>1, <4>2, <4>3, <2>2 DEF KnownFrom
    <3> QED
      BY <3>1, <3>2
  <2>13. ASSUME NEW i \in 1 .. k + 1 PROVE rows[i].filled <= next.carried[rows[i].order].filled
    <3>1. CASE rows[i].order = o
      <4>1. rows[i].filled <= row.filled
        BY <3>1, <1>2, <1>3
      <4> QED
        BY <3>1, <4>1, <2>8
    <3>2. CASE rows[i].order # o
      <4>1. i \in 1 .. k
        BY <3>2
      <4>2. rows[i].filled <= carried[rows[i].order].filled
        BY <4>1 DEF NormalizedUpto
      <4> QED
        BY <3>2, <4>2, <2>8, <1>2
    <3> QED
      BY <3>1, <3>2
  <2>14. ASSUME NEW i \in DOMAIN next.reports
         PROVE  \E j \in 1 .. k + 1 : rows[j].order = next.reports[i].order
    <3>1. CASE i \in 1 .. n
      <4>1. next.reports[i] = reports[i] /\ i \in DOMAIN reports
        BY <3>1, <2>2, <2>9
      <4>2. PICK j \in 1 .. k : rows[j].order = reports[i].order
        BY <4>1 DEF NormalizedUpto
      <4>3. j \in 1 .. k + 1
        OBVIOUS
      <4> QED
        BY <4>1, <4>2, <4>3
    <3>2. CASE i = n + 1
      <4>1. k + 1 \in 1 .. k + 1 /\ rows[k + 1].order = next.reports[i].order
        BY <3>2, <2>4, <2>9
      <4> QED
        BY <4>1
    <3> QED
      BY <3>1, <3>2, <2>2, <2>9
  <2> QED
    BY <1>4, <2>10, <2>11, <2>12, <2>13, <2>14 DEF NormalizedUpto, next
<1> QED
  BY <1>5, <1>6

\* After all rows, by induction over their number.
LEMMA NormalizedIs ==
  ASSUME InquiryTyped, NEW rows \in Seq(Rows), Read(rows)
  PROVE  \E sofar : /\ NormalizedUpto(sofar, rows, Len(rows))
                    /\ Normalized(rows) = sofar.reports
<1>1. PICK g : NormalizedAlong(g, rows)
  BY NormalizedHasSteps
<1> DEFINE N == {k \in Nat : k <= Len(rows) => NormalizedUpto(g[k], rows, k)}
<1>2. 0 \in N
  BY <1>1, NoneNormalized DEF NormalizedAlong
<1>3. ASSUME NEW k \in Nat, k \in N PROVE k + 1 \in N
  <2> SUFFICES ASSUME k + 1 <= Len(rows) PROVE NormalizedUpto(g[k + 1], rows, k + 1)
    OBVIOUS
  <2>1. k + 1 \in 1 .. Len(rows) /\ (k + 1) - 1 = k /\ NormalizedUpto(g[k], rows, k)
    BY <1>3
  <2>2. g[k + 1] = Normalize(g[k], rows[k + 1])
    BY <1>1, <2>1 DEF NormalizedAlong
  <2> QED
    BY <2>1, <2>2, OneMoreNormalized
<1>4. Nat \subseteq N
  <2> HIDE DEF N
  <2> QED
    BY <1>2, <1>3, Climbs
<1>5. NormalizedUpto(g[Len(rows)], rows, Len(rows))
  BY <1>4
<1> QED
  BY <1>1, <1>5 DEF NormalizedAlong

-----------------------------------------------------------------------------
(* What the reports add up to.                                             *)

\* A report is one that normalize may make.
LEMMA ReportsAreMade == Reports \subseteq Made
  BY DEF Reports, Made, Ids

\* What is booked with the reports added was executed: the last of them says so.
LEMMA BookedWithinExecuted ==
  ASSUME InquiryTyped, NEW reports \in Seq(Reports), Told(reports), CountOn(reports, book),
         NEW o \in Orders, book[o].filled <= Len(executions[o])
  PROVE  BookedWith(o, reports) <= Len(executions[o])
<1>1. PICK g : BookedAlong(g, o, reports)
  BY BookedWithHasSteps
<1> DEFINE n == Len(reports)
           NoneYet(k) == (\A i \in 1 .. k : reports[i].order # o) /\ g[k] = book[o].filled
           LastAt(k, j) == /\ reports[j].order = o
                           /\ \A i \in j + 1 .. k : reports[i].order # o
                           /\ g[k] = reports[j].execution_id[2]
           Level(k) == NoneYet(k) \/ \E j \in 1 .. k : LastAt(k, j)
           N == {k \in Nat : k <= n => Level(k)}
<1>2. /\ n \in Nat /\ DOMAIN reports = 1 .. n
      /\ \A i \in 1 .. n : /\ reports[i].order \in Orders /\ reports[i].filled \in Nat
                           /\ reports[i].execution_id[2] \in Nat
  <2>1. n \in Nat /\ DOMAIN reports = 1 .. n /\ \A i \in 1 .. n : reports[i] \in Reports
    OBVIOUS
  <2> QED
    BY <2>1 DEF Reports
<1>3. book[o].filled \in Nat
  BY DEF InquiryTyped, Amounts
<1>4. Level(0)
  BY <1>1 DEF BookedAlong
<1>5. ASSUME NEW k \in Nat, k + 1 <= n, Level(k) PROVE Level(k + 1)
  <2>1. k + 1 \in 1 .. n /\ (k + 1) - 1 = k
    <3> HIDE DEF Level, n
    <3> QED
      BY <1>2, <1>5
  <2>2. g[k + 1] = g[k] + (IF reports[k + 1].order = o THEN reports[k + 1].filled ELSE 0)
    BY <1>1, <2>1 DEF BookedAlong
  <2>3. CASE reports[k + 1].order = o
    <3>1. CASE NoneYet(k)
      <4>1. ~Between(reports, 0, k + 1)
        BY <3>1, <2>1, <2>3 DEF Between
      <4>2. Makes(reports[k + 1], book[o].filled, book[o].paid)
        BY <4>1, <2>1, <2>3, <1>2 DEF CountOn
      <4>3. g[k + 1] = reports[k + 1].execution_id[2]
        BY <4>2, <3>1, <2>2, <2>3 DEF Makes
      <4>4. LastAt(k + 1, k + 1)
        BY <4>3, <2>3
      <4>5. k + 1 \in 1 .. k + 1
        OBVIOUS
      <4> HIDE DEF LastAt
      <4> QED
        BY <4>4, <4>5
    <3>2. ASSUME NEW j \in 1 .. k, LastAt(k, j) PROVE Level(k + 1)
      <4>1. ~Between(reports, j, k + 1)
        BY <3>2, <2>1, <2>3 DEF Between
      <4>2. j \in 1 .. (k + 1) - 1
        BY <2>1
      <4>3. Makes(reports[k + 1], reports[j].execution_id[2], reports[j].execution_id[3])
        BY <4>1, <4>2, <2>1, <2>3, <3>2, <1>2 DEF CountOn
      <4>4. g[k + 1] = reports[k + 1].execution_id[2]
        BY <4>3, <3>2, <2>2, <2>3 DEF Makes
      <4>5. LastAt(k + 1, k + 1)
        BY <4>4, <2>3
      <4>6. k + 1 \in 1 .. k + 1
        OBVIOUS
      <4> HIDE DEF LastAt
      <4> QED
        BY <4>5, <4>6
    <3> QED
      BY <1>5, <3>1, <3>2
  <2>4. CASE reports[k + 1].order # o
    <3>1. CASE NoneYet(k)
      <4>1. g[k + 1] = g[k]
        BY <2>2, <2>4, <1>3, <3>1
      <4>2. \A i \in 1 .. k + 1 : i \in 1 .. k \/ i = k + 1
        OBVIOUS
      <4>3. NoneYet(k + 1)
        BY <4>1, <4>2, <3>1, <2>4
      <4> QED
        BY <4>3
    <3>2. ASSUME NEW j \in 1 .. k, LastAt(k, j) PROVE Level(k + 1)
      <4>1. g[k + 1] = g[k]
        <5>1. j \in 1 .. n
          BY <2>1
        <5> QED
          BY <5>1, <2>2, <2>4, <1>2, <3>2
      <4>2. \A i \in j + 1 .. k + 1 : i \in j + 1 .. k \/ i = k + 1
        OBVIOUS
      <4>3. LastAt(k + 1, j) /\ j \in 1 .. k + 1
        BY <4>1, <4>2, <3>2, <2>4
      <4> HIDE DEF LastAt
      <4> QED
        BY <4>3
    <3> QED
      BY <1>5, <3>1, <3>2
  <2> QED
    BY <2>3, <2>4
<1>6. n \in N
  <2> HIDE DEF Level
  <2>1. 0 \in N
    BY <1>4
  <2>2. \A k \in Nat : k \in N => k + 1 \in N
    BY <1>2, <1>5
  <2> HIDE DEF N
  <2> QED
    BY <2>1, <2>2, <1>2, Climbs
<1>7. Level(n)
  <2> HIDE DEF Level
  <2> QED
    BY <1>6
<1>8. CASE NoneYet(n)
  BY <1>1, <1>8 DEF BookedAlong
<1>9. ASSUME NEW j \in 1 .. n, LastAt(n, j) PROVE BookedWith(o, reports) <= Len(executions[o])
  <2>1. reports[j].execution_id[2] <= Len(executions[o])
    BY <1>2, <1>9 DEF Told, AsExecuted
  <2> QED
    BY <2>1, <1>1, <1>9 DEF BookedAlong
<1> QED
  BY <1>7, <1>8, <1>9

\* The first of the reports was not booked before, and booking it makes the
\* books show what it says.
LEMMA ReportBooks ==
  ASSUME InquiryInv, call.phase = "reporting", call.reports # <<>>,
         Settle(Head(call.reports))
  PROVE  LET report == Head(call.reports)
             id == report.execution_id
         IN  /\ report \in Reports /\ report.order = id[1] /\ id \in Orders \X (Nat \ {0}) \X Nat
             /\ AsExecuted(id[1], id[2], id[3])
             /\ book' \in [Orders -> Amounts]
             /\ book'[id[1]] = Filled(id[2], id[3])
             /\ book[id[1]].filled <= id[2]
             /\ \A o \in Orders : o # id[1] => book'[o] = book[o]
             /\ seen' = seen \cup {id}
<1> DEFINE reports == call.reports
           report == Head(reports)
           id == report.execution_id
           o == report.order
<1>1. reports \in Seq(Reports) /\ reports # <<>> /\ Told(reports) /\ CountOn(reports, book)
  BY DEF InquiryInv, InquiryTyped, Calls, ReportingOK
<1>2. 1 \in DOMAIN reports /\ report = reports[1] /\ report \in Reports
  <2> HIDE DEF reports
  <2> QED
    BY <1>1
<1>3. /\ o \in Orders /\ report.filled \in Nat \ {0} /\ report.paid \in Nat \ {0}
      /\ id \in Orders \X (Nat \ {0}) \X Nat
  BY <1>2 DEF Reports
<1>4. id[1] = o /\ AsExecuted(o, id[2], id[3])
  <2> HIDE DEF reports
  <2> QED
    BY <1>1, <1>2 DEF Told
<1>5. Makes(report, book[o].filled, book[o].paid)
  <2> HIDE DEF reports
  <2>1. ~Between(reports, 0, 1)
    BY DEF Between
  <2> QED
    BY <1>1, <1>2, <2>1 DEF CountOn
<1>6. book \in [Orders -> Amounts] /\ book[o].filled \in Nat /\ book[o].paid \in Nat
  BY <1>3 DEF InquiryInv, InquiryTyped, Amounts
<1>7. id[2] = book[o].filled + report.filled /\ id[3] = book[o].paid + report.paid
  BY <1>5 DEF Makes
<1>8. id[2] > book[o].filled
  BY <1>3, <1>6, <1>7
<1>9. id \notin seen
  <2>1. id \in seen => id[2] <= book[id[1]].filled
    BY DEF InquiryInv, SeenAreBooked
  <2>2. id[2] \in Nat
    BY <1>3
  <2> QED
    BY <2>1, <2>2, <1>4, <1>6, <1>8
<1>10. book' = [book EXCEPT ![o] = Filled(book[o].filled + report.filled, book[o].paid + report.paid)]
  BY <1>9 DEF Settle, Booked
<1>11. Filled(id[2], id[3]) \in Amounts
  BY <1>3 DEF Filled, Amounts
<1>12. seen' = seen \cup {id}
  BY DEF Settle
<1>13. book' = [book EXCEPT ![o] = Filled(id[2], id[3])]
  BY <1>7, <1>10
<1>14. book' \in [Orders -> Amounts] /\ book'[o] = Filled(id[2], id[3]) /\ \A p \in Orders : p # o => book'[p] = book[p]
  <2> HIDE DEF id, o
  <2> QED
    BY <1>3, <1>6, <1>11, <1>13
<1>15. book[o].filled <= id[2]
  BY <1>3, <1>6, <1>8
<1> QED
  BY <1>2, <1>3, <1>4, <1>12, <1>14, <1>15

-----------------------------------------------------------------------------
(* Steps that end or begin a call, and reports that are not settled.       *)

\* No call under way is a call.
LEMMA IdleIsTyped == Idle \in Calls
  BY EmptySeq DEF Idle, Calls, Phases

\* The invariant holds initially.
LEMMA InitInquiry == InquiryInit => InquiryInv
<1> SUFFICES ASSUME InquiryInit PROVE InquiryInv
  OBVIOUS
<1>1. /\ executions = [o \in Orders |-> <<>>] /\ book = [o \in Orders |-> Filled(0, 0)]
      /\ seen = {} /\ call = Idle /\ answered = [o \in Orders |-> 0]
  BY DEF InquiryInit
<1>2. Executing = {}
  BY <1>1 DEF Executing
<1>3. IsFiniteSet(Executing)
  BY <1>2, FS_EmptySet
<1>4. InquiryTyped
  <2>1. executions \in [Orders -> Seq(Nat \ {0})]
    BY <1>1, EmptySeq
  <2>2. Filled(0, 0) \in Amounts
    BY DEF Filled, Amounts
  <2> QED
    BY <1>1, <1>3, <2>1, <2>2, IdleIsTyped DEF InquiryTyped
<1>5. call.phase = "idle" /\ call.since = [o \in Orders |-> 0]
  BY <1>1 DEF Idle
<1>6. ASSUME NEW o \in Orders
      PROVE  /\ executions[o] \in Seq(PricesOf[o]) /\ Len(executions[o]) <= Quantity[o]
             /\ AsExecuted(o, book[o].filled, book[o].paid)
             /\ answered[o] <= book[o].filled /\ call.since[o] <= Len(executions[o])
  <2>1. executions[o] = <<>> /\ Len(<<>>) = 0 /\ book[o].filled = 0 /\ book[o].paid = 0
    BY <1>1 DEF Filled
  <2>2. Quantity[o] \in Nat
    BY InquiryAssumption
  <2> QED
    BY <1>1, <1>5, <2>1, <2>2, EmptySeq, SumOfNone DEF AsExecuted
<1> QED
  BY <1>1, <1>4, <1>5, <1>6
     DEF InquiryInv, CallInPhase, BooksFollow, SeenAreBooked, PagingOK, ReportingOK

\* What a step that leaves the executions alone makes of the books.
BooksHold ==
    /\ executions' = executions
    /\ book' \in [Orders -> Amounts]
    /\ seen' \subseteq Ids
    /\ answered' \in [Orders -> Nat]
    /\ \A o \in Orders : /\ AsExecuted(o, book'[o].filled, book'[o].paid)
                         /\ answered'[o] <= book'[o].filled
    /\ \A id \in seen' : id[2] <= book'[id[1]].filled

\* A step that leaves executions and books alone.
LEMMA SameBooksHold ==
  ASSUME InquiryInv, UNCHANGED <<executions, book, seen, answered>>
  PROVE  BooksHold
  BY DEF InquiryInv, InquiryTyped, BooksFollow, SeenAreBooked, BooksHold

\* A step that settles a report.
LEMMA SettledBooksHold ==
  ASSUME InquiryInv, call.phase = "reporting", call.reports # <<>>,
         Settle(Head(call.reports)), UNCHANGED <<executions, answered>>
  PROVE  BooksHold
<1> DEFINE id == Head(call.reports).execution_id
           p == id[1]
<1>1. /\ id \in Ids /\ AsExecuted(p, id[2], id[3])
      /\ book' \in [Orders -> Amounts] /\ book'[p] = Filled(id[2], id[3])
      /\ book[p].filled <= id[2]
      /\ \A o \in Orders : o # p => book'[o] = book[o]
      /\ seen' = seen \cup {id}
  BY ReportBooks DEF Ids
<1> HIDE DEF id
<1>2. p \in Orders /\ id[2] \in Nat /\ book'[p].filled = id[2] /\ book'[p].paid = id[3]
  BY <1>1 DEF Ids, Filled
<1>3. /\ \A o \in Orders : book[o].filled \in Nat /\ answered[o] \in Nat
      /\ \A o \in Orders : AsExecuted(o, book[o].filled, book[o].paid) /\ answered[o] <= book[o].filled
      /\ seen \subseteq Ids /\ answered \in [Orders -> Nat]
      /\ \A i \in seen : i[2] <= book[i[1]].filled
  BY DEF InquiryInv, InquiryTyped, BooksFollow, SeenAreBooked, Amounts
<1>4. ASSUME NEW o \in Orders
      PROVE  /\ AsExecuted(o, book'[o].filled, book'[o].paid)
             /\ answered'[o] <= book'[o].filled /\ book[o].filled <= book'[o].filled
             /\ book'[o].filled \in Nat
  <2>1. CASE o = p
    BY <2>1, <1>1, <1>2, <1>3
  <2>2. CASE o # p
    BY <2>2, <1>1, <1>3
  <2> QED
    BY <2>1, <2>2
<1>5. ASSUME NEW i \in seen' PROVE i[2] <= book'[i[1]].filled
  <2>1. CASE i = id
    BY <2>1, <1>2
  <2>2. CASE i \in seen
    <3>1. i[1] \in Orders /\ i[2] \in Nat
      BY <2>2, <1>3 DEF Ids
    <3> QED
      BY <2>2, <3>1, <1>3, <1>4
  <2> QED
    BY <1>1, <2>1, <2>2
<1>6. seen' \subseteq Ids
  BY <1>1, <1>3
<1> QED
  BY <1>1, <1>3, <1>4, <1>5, <1>6 DEF BooksHold

\* A call that is over leaves nothing of itself.
LEMMA CallOver ==
  ASSUME InquiryInv, BooksHold, call' = Idle
  PROVE  InquiryInv'
<1>1. call'.phase = "idle" /\ call'.since = [o \in Orders |-> 0] /\ call' \in Calls
  BY IdleIsTyped DEF Idle
<1>2. InquiryTyped'
  <2>1. Executing' = Executing
    BY DEF BooksHold, Executing
  <2> QED
    BY <1>1, <2>1 DEF InquiryInv, InquiryTyped, BooksHold
<1>3. CallInPhase'
  BY <1>1 DEF CallInPhase, Idle
<1>4. BooksFollow'
  <2> SUFFICES ASSUME NEW o \in Orders
               PROVE  /\ executions'[o] \in Seq(PricesOf[o]) /\ Len(executions'[o]) <= Quantity[o]
                      /\ AsExecuted(o, book[o].filled, book[o].paid)'
                      /\ answered'[o] <= book'[o].filled /\ call'.since[o] <= Len(executions'[o])
    BY DEF BooksFollow
  <2>1. executions'[o] = executions[o] /\ Len(executions[o]) \in Nat
    BY DEF BooksHold, InquiryInv, InquiryTyped
  <2> QED
    BY <1>1, <2>1 DEF BooksHold, InquiryInv, BooksFollow, AsExecuted
<1>5. SeenAreBooked'
  BY DEF SeenAreBooked, BooksHold
<1> QED
  BY <1>1, <1>2, <1>3, <1>4, <1>5 DEF InquiryInv, PagingOK, ReportingOK

\* A call begins.
LEMMA BeginKeeps ==
  ASSUME InquiryInv, Begin
  PROVE  InquiryInv'
<1>1. BooksHold
  BY SameBooksHold DEF Begin
<1>2. /\ call'.phase = "paging" /\ call'.rows = <<>> /\ call'.pages = 0 /\ call'.reports = <<>>
      /\ call'.since = Executed /\ call' \in Calls
  <2>1. Executed \in [Orders -> Nat]
    BY DEF Executed, InquiryInv, InquiryTyped
  <2> QED
    BY <2>1, IdleIsTyped, EmptySeq DEF Begin, Idle, Calls, Phases
<1>3. InquiryTyped'
  <2>1. Executing' = Executing
    BY DEF Begin, Executing
  <2> QED
    BY <1>1, <1>2, <2>1 DEF InquiryInv, InquiryTyped, BooksHold
<1>4. CallInPhase'
  BY <1>2, InquiryAssumption DEF CallInPhase
<1>5. BooksFollow'
  <2> SUFFICES ASSUME NEW o \in Orders
               PROVE  /\ executions'[o] \in Seq(PricesOf[o]) /\ Len(executions'[o]) <= Quantity[o]
                      /\ AsExecuted(o, book[o].filled, book[o].paid)'
                      /\ answered'[o] <= book'[o].filled /\ call'.since[o] <= Len(executions'[o])
    BY DEF BooksFollow
  <2>1. executions'[o] = executions[o] /\ Len(executions[o]) \in Nat
    BY <1>1 DEF BooksHold, InquiryInv, InquiryTyped
  <2>2. call'.since[o] = Len(executions[o])
    BY <1>2 DEF Executed
  <2> QED
    BY <1>1, <2>1, <2>2 DEF BooksHold, InquiryInv, BooksFollow, AsExecuted
<1>6. SeenAreBooked'
  BY <1>1 DEF SeenAreBooked, BooksHold
<1>7. Read(call.rows)' /\ NoneBehind'
  BY <1>2 DEF Read, NoneBehind
<1> QED
  BY <1>2, <1>3, <1>4, <1>5, <1>6, <1>7 DEF InquiryInv, PagingOK, ReportingOK

\* on_report raises, before or after the report is booked.
LEMMA RaisesKeeps ==
  ASSUME InquiryInv, SettleRaises
  PROVE  InquiryInv'
<1>1. call' = Idle
  BY DEF SettleRaises
<1>2. BooksHold
  <2>1. CASE UNCHANGED <<book, seen>>
    BY <2>1, SameBooksHold DEF SettleRaises
  <2>2. CASE Settle(Head(call.reports))
    BY <2>2, SettledBooksHold DEF SettleRaises
  <2> QED
    BY <2>1, <2>2 DEF SettleRaises
<1> QED
  BY <1>1, <1>2, CallOver

\* A call returns: all reports are settled, so what was due is booked.
LEMMA ReturnKeeps ==
  ASSUME InquiryInv, Return
  PROVE  InquiryInv'
<1>1. call' = Idle /\ answered' = call.since /\ UNCHANGED <<executions, book, seen>>
  BY DEF Return
<1>2. \A o \in Orders : call.since[o] <= book[o].filled
  <2>1. call.phase = "reporting" /\ DOMAIN call.reports = {}
    BY DEF Return
  <2> QED
    BY <2>1 DEF InquiryInv, ReportingOK, Reaches
<1>3. call.since \in [Orders -> Nat]
  BY DEF InquiryInv, InquiryTyped, Calls
<1>4. BooksHold
  BY <1>1, <1>2, <1>3 DEF BooksHold, InquiryInv, InquiryTyped, BooksFollow, SeenAreBooked
<1> QED
  BY <1>1, <1>4, CallOver

-----------------------------------------------------------------------------
(* A report is settled.                                                    *)

\* A report is settled: the others count on from the books as they are now.
LEMMA SettleKeeps ==
  ASSUME InquiryInv, SettleReport
  PROVE  InquiryInv'
<1> DEFINE reports == call.reports
           head == Head(reports)
           id == head.execution_id
           p == head.order
           rest == Tail(reports)
<1>1. /\ call.phase = "reporting" /\ reports # <<>> /\ Settle(head)
      /\ call' = [call EXCEPT !.reports = rest] /\ UNCHANGED <<executions, answered>>
  BY DEF SettleReport
<1>2. BooksHold
  BY <1>1, SettledBooksHold
<1>3. /\ head \in Reports /\ p = id[1] /\ id \in Ids
      /\ book' \in [Orders -> Amounts] /\ book'[p] = Filled(id[2], id[3])
      /\ book[p].filled <= id[2] /\ \A o \in Orders : o # p => book'[o] = book[o]
  BY <1>1, ReportBooks DEF Ids
<1>4. /\ call \in Calls /\ reports \in Seq(Reports) /\ call.since \in [Orders -> Nat]
      /\ Told(reports) /\ CountOn(reports, book) /\ \A o \in Orders : Reaches(o, reports)
      /\ call.rows = <<>>
  BY <1>1 DEF InquiryInv, InquiryTyped, Calls, ReportingOK, CallInPhase
<1>5. rest \in Seq(Reports) /\ head = reports[1] /\ Len(reports) = Len(rest) + 1
      /\ Len(rest) \in Nat /\ \A i \in 1 .. Len(rest) : rest[i] = reports[i + 1]
  <2> HIDE DEF reports
  <2> QED
    BY <1>1, <1>4, HeadTailProperties
<1>6. /\ call'.phase = "reporting" /\ call'.reports = rest /\ call'.since = call.since
      /\ call'.rows = <<>> /\ call' \in Calls
  <2> HIDE DEF rest
  <2> QED
    BY <1>1, <1>4, <1>5 DEF Calls
<1>7. CountOn(rest, book')
  <2>1. reports \in Seq(Made)
    BY <1>4, ReportsAreMade
  <2>2. book'[p].filled = id[2] /\ book'[p].paid = id[3]
    BY <1>3 DEF Filled
  <2> DEFINE after == book'
  <2>3. /\ \A o \in Orders : o # Head(reports).order => after[o] = book[o]
        /\ after[Head(reports).order].filled = Head(reports).execution_id[2]
        /\ after[Head(reports).order].paid = Head(reports).execution_id[3]
    BY <1>3, <2>2
  <2> HIDE DEF after, reports
  <2>4. CountOn(Tail(reports), after)
    BY <1>1, <1>4, <2>1, <2>3, CountOnRest
  <2> QED
    BY <2>4 DEF after, reports
<1> HIDE DEF rest, head, reports
<1>8. Told(rest)
  <2>1. DOMAIN rest = 1 .. Len(rest) /\ DOMAIN reports = 1 .. Len(reports)
    BY <1>4, <1>5
  <2>2. \A i \in 1 .. Len(rest) : i + 1 \in 1 .. Len(reports)
    BY <1>5
  <2> QED
    BY <2>1, <2>2, <1>4, <1>5 DEF Told
<1>9. ASSUME NEW o \in Orders
      PROVE  \/ call.since[o] <= book'[o].filled
             \/ \E i \in DOMAIN rest : rest[i].order = o /\ call.since[o] <= rest[i].execution_id[2]
  <2>1. book[o].filled \in Nat /\ book'[o].filled \in Nat /\ call.since[o] \in Nat
    BY <1>3, <1>4 DEF InquiryInv, InquiryTyped, Amounts
  <2>2. book[o].filled <= book'[o].filled
    <3>1. CASE o = p
      BY <3>1, <1>3 DEF Filled
    <3>2. CASE o # p
      BY <3>2, <1>3, <2>1
    <3> QED
      BY <3>1, <3>2
  <2>3. CASE call.since[o] <= book[o].filled
    BY <2>1, <2>2, <2>3
  <2>4. ASSUME NEW i \in DOMAIN reports, reports[i].order = o,
               call.since[o] <= reports[i].execution_id[2]
        PROVE  \/ call.since[o] <= book'[o].filled
               \/ \E k \in DOMAIN rest : rest[k].order = o /\ call.since[o] <= rest[k].execution_id[2]
    <3>1. i \in 1 .. Len(reports)
      BY <1>4
    <3>2. CASE i = 1
      <4>1. o = p /\ call.since[o] <= id[2]
        BY <3>2, <2>4, <1>5
      <4> QED
        BY <4>1, <1>3 DEF Filled
    <3>3. CASE i # 1
      <4>1. i - 1 \in 1 .. Len(rest) /\ (i - 1) + 1 = i
        BY <3>1, <3>3, <1>5
      <4>2. rest[i - 1] = reports[i] /\ i - 1 \in DOMAIN rest
        BY <4>1, <1>5
      <4> QED
        BY <4>2, <2>4
    <3> QED
      BY <3>2, <3>3
  <2> QED
    BY <2>3, <2>4, <1>4 DEF Reaches
<1>10. executions' = executions
  BY <1>1
<1>11. InquiryTyped'
  <2>1. Executing' = Executing
    BY <1>10 DEF Executing
  <2> QED
    BY <1>2, <1>6, <2>1 DEF InquiryInv, InquiryTyped, BooksHold
<1>12. CallInPhase'
  BY <1>6 DEF CallInPhase
<1>13. BooksFollow'
  <2> SUFFICES ASSUME NEW o \in Orders
               PROVE  /\ executions'[o] \in Seq(PricesOf[o]) /\ Len(executions'[o]) <= Quantity[o]
                      /\ AsExecuted(o, book[o].filled, book[o].paid)'
                      /\ answered'[o] <= book'[o].filled /\ call'.since[o] <= Len(executions'[o])
    BY DEF BooksFollow
  <2> QED
    BY <1>2, <1>6, <1>10 DEF BooksHold, InquiryInv, BooksFollow, AsExecuted
<1>14. SeenAreBooked'
  BY <1>2 DEF SeenAreBooked, BooksHold
<1>15. ReportingOK'
  <2>1. Told(call.reports)'
    BY <1>6, <1>8, <1>10 DEF Told, AsExecuted
  <2>2. CountOn(call.reports, book)'
    BY <1>6, <1>7
  <2>3. \A o \in Orders : Reaches(o, call.reports)'
    BY <1>6, <1>9 DEF Reaches
  <2> QED
    BY <2>1, <2>2, <2>3 DEF ReportingOK
<1> QED
  BY <1>6, <1>11, <1>12, <1>13, <1>14, <1>15 DEF InquiryInv, PagingOK

-----------------------------------------------------------------------------
(* A contract executes.                                                    *)

\* A contract executes, before or between the pages and the reports of a call, or beside none
\* with its notice: what a row or a report says was executed stays executed.
LEMMA ExecuteKeeps ==
  ASSUME InquiryInv, NEW o \in Orders, NEW noticed \in BOOLEAN, NEW price \in PricesOf[o],
         Execute(o, price, noticed)
  PROVE  InquiryInv'
<1> DEFINE s == executions[o]
           t == Append(s, price)
<1>1. /\ Len(s) < Quantity[o] /\ (noticed => call = Idle)
      /\ executions' = [executions EXCEPT ![o] = t]
      /\ book' = IF noticed THEN Booked(o, 1, price) ELSE book
      /\ seen' = seen /\ call' = call /\ answered' = answered
  BY DEF Execute
<1>2. price \in Nat \ {0} /\ Quantity[o] \in Nat
  BY InquiryAssumption
<1>3. /\ executions \in [Orders -> Seq(Nat \ {0})] /\ book \in [Orders -> Amounts]
      /\ call \in Calls /\ seen \subseteq Ids /\ answered \in [Orders -> Nat] /\ IsFiniteSet(Executing)
  BY DEF InquiryInv, InquiryTyped
<1>4. /\ s \in Seq(Nat) /\ s \in Seq(Nat \ {0}) /\ t \in Seq(Nat \ {0}) /\ Len(t) = Len(s) + 1
      /\ Len(s) \in Nat /\ t # <<>>
  <2>1. s \in Seq(Nat \ {0})
    BY <1>3
  <2> HIDE DEF s
  <2> QED
    BY <2>1, <1>2
<1>5. Sum(t) = Sum(s) + price /\ Sum(s) \in Nat
  BY <1>2, <1>4, SumOfOneMore, SumIsNatural
<1>6. \A p \in Orders : executions'[p] = IF p = o THEN t ELSE executions[p]
  BY <1>1, <1>3
<1>7. executions' \in [Orders -> Seq(Nat \ {0})]
  <2> HIDE DEF t
  <2> QED
    BY <1>1, <1>3, <1>4
<1> HIDE DEF s, t
<1>8. Executing' = Executing \cup {o} /\ IsFiniteSet(Executing')
  <2>1. Executing' = {p \in Orders : executions'[p] # <<>>}
    BY DEF Executing
  <2>2. Executing' = Executing \cup {o}
    BY <2>1, <1>4, <1>6 DEF Executing
  <2> QED
    BY <2>2, <1>3, FS_AddElement
<1>9. ASSUME NEW p \in Orders, NEW filled \in Nat, NEW cost, AsExecuted(p, filled, cost)
      PROVE  AsExecuted(p, filled, cost)'
  <2>1. CASE p = o
    <3>1. filled <= Len(s) /\ executions'[p] = t /\ Len(t) = Len(s) + 1 /\ Len(s) \in Nat
      BY <2>1, <1>4, <1>6, <1>9 DEF AsExecuted, s
    <3>2. filled <= Len(t) /\ filled # Len(t)
      BY <3>1
    <3> QED
      BY <3>1, <3>2 DEF AsExecuted
  <2>2. CASE p # o
    BY <2>2, <1>6, <1>9 DEF AsExecuted
  <2> QED
    BY <2>1, <2>2
<1>10. ASSUME NEW p \in Orders
       PROVE  /\ book[p] \in Amounts /\ book[p].filled \in Nat /\ book[p].paid \in Nat
              /\ AsExecuted(p, book[p].filled, book[p].paid)
              /\ answered[p] <= book[p].filled /\ answered[p] \in Nat
              /\ executions[p] \in Seq(PricesOf[p]) /\ Len(executions[p]) <= Quantity[p]
              /\ call.since[p] <= Len(executions[p]) /\ call.since[p] \in Nat
              /\ Len(executions[p]) \in Nat
  BY <1>3 DEF Amounts, Calls, InquiryInv, BooksFollow
<1>11. /\ book' \in [Orders -> Amounts]
       /\ \A p \in Orders : /\ book[p].filled <= book'[p].filled /\ book'[p].filled \in Nat
                            /\ book'[p].filled <= Len(executions'[p])
                            /\ book'[p].filled = Len(executions'[p]) =>
                                 book'[p].paid = Sum(executions'[p])
  <2>1. CASE ~noticed
    <3>1. book' = book
      BY <2>1, <1>1
    <3>3. ASSUME NEW p \in Orders
          PROVE  /\ book[p].filled <= Len(executions'[p])
                 /\ book[p].filled = Len(executions'[p]) => book[p].paid = Sum(executions'[p])
      <4>1. PICK f \in Nat, d \in Nat : f = book[p].filled /\ d = book[p].paid
        BY <1>10
      <4>2. AsExecuted(p, f, d)
        BY <4>1, <1>10
      <4>3. AsExecuted(p, f, d)'
        BY <4>2, <1>9
      <4> QED
        BY <4>1, <4>3 DEF AsExecuted
    <3> QED
      BY <3>1, <3>3, <1>3, <1>10
  <2>2. CASE noticed
    <3> DEFINE more == Filled(book[o].filled + 1, book[o].paid + price)
    <3>1. book' = [book EXCEPT ![o] = more]
      BY <2>2, <1>1 DEF Booked
    <3>2. more \in Amounts /\ more.filled = book[o].filled + 1 /\ more.paid = book[o].paid + price
      BY <1>2, <1>10 DEF Filled, Amounts
    <3> HIDE DEF more
    <3>3. book' \in [Orders -> Amounts] /\ book'[o] = more /\ \A p \in Orders : p # o => book'[p] = book[p]
      BY <3>1, <3>2, <1>3
    <3>4. ASSUME NEW p \in Orders
          PROVE  /\ book[p].filled <= book'[p].filled /\ book'[p].filled \in Nat
                 /\ book'[p].filled <= Len(executions'[p])
                 /\ book'[p].filled = Len(executions'[p]) => book'[p].paid = Sum(executions'[p])
      <4>1. CASE p = o
        <5>1. /\ book'[p].filled = book[o].filled + 1 /\ book'[p].paid = book[o].paid + price
              /\ executions'[p] = t /\ Len(t) = Len(s) + 1 /\ Sum(t) = Sum(s) + price
              /\ book[o].filled \in Nat /\ book[o].paid \in Nat /\ Len(s) \in Nat
          BY <4>1, <3>2, <3>3, <1>4, <1>5, <1>6, <1>10
        <5>2. book[o].filled <= Len(s) /\ (book[o].filled = Len(s) => book[o].paid = Sum(s))
          BY <1>10 DEF AsExecuted, s
        <5> QED
          BY <4>1, <5>1, <5>2
      <4>2. CASE p # o
        <5>1. book'[p] = book[p] /\ executions'[p] = executions[p]
          BY <4>2, <3>3, <1>6
        <5> QED
          BY <5>1, <1>10 DEF AsExecuted
      <4> QED
        BY <4>1, <4>2
    <3> QED
      BY <3>3, <3>4
  <2> QED
    BY <2>1, <2>2
<1>12. InquiryTyped'
  BY <1>1, <1>3, <1>7, <1>8, <1>11 DEF InquiryTyped
<1>13. CallInPhase'
  BY <1>1 DEF CallInPhase, InquiryInv, Idle
<1>14. BooksFollow'
  <2> SUFFICES ASSUME NEW p \in Orders
               PROVE  /\ executions'[p] \in Seq(PricesOf[p]) /\ Len(executions'[p]) <= Quantity[p]
                      /\ AsExecuted(p, book[p].filled, book[p].paid)'
                      /\ answered'[p] <= book'[p].filled /\ call'.since[p] <= Len(executions'[p])
    BY DEF BooksFollow
  <2>1. AsExecuted(p, book[p].filled, book[p].paid)'
    BY <1>11 DEF AsExecuted
  <2>2. answered'[p] <= book'[p].filled
    BY <1>1, <1>10, <1>11
  <2>3. executions'[p] \in Seq(PricesOf[p]) /\ Len(executions'[p]) <= Quantity[p] /\ call'.since[p] <= Len(executions'[p])
    <3>1. CASE p = o
      <4>1. executions'[p] = t /\ s \in Seq(PricesOf[o]) /\ call'.since[p] <= Len(s) /\ call.since[p] \in Nat
        BY <3>1, <1>1, <1>6, <1>10 DEF s
      <4>2. t \in Seq(PricesOf[o])
        BY <4>1 DEF t
      <4> QED
        BY <3>1, <4>1, <4>2, <1>1, <1>2, <1>4
    <3>2. CASE p # o
      BY <3>2, <1>1, <1>6, <1>10
    <3> QED
      BY <3>1, <3>2
  <2> QED
    BY <2>1, <2>2, <2>3
<1>15. SeenAreBooked'
  <2> SUFFICES ASSUME NEW id \in seen PROVE id[2] <= book'[id[1]].filled
    BY <1>1 DEF SeenAreBooked
  <2>1. id[1] \in Orders /\ id[2] \in Nat
    BY <1>3 DEF Ids
  <2>2. id[2] <= book[id[1]].filled
    BY DEF InquiryInv, SeenAreBooked
  <2> QED
    BY <2>1, <2>2, <1>10, <1>11
<1>16. ASSUME NEW p \in Executing
       PROVE  p \in Executing' /\ Place(p) \in Nat /\ Place(p)' \in Nat /\ Place(p) <= Place(p)'
  <2> DEFINE F == {q \in Executing : q >= p}
             G == {q \in Executing' : q >= p}
  <2>1. F \subseteq Executing /\ G \subseteq Executing' /\ F \subseteq G
    BY <1>8
  <2>2. Place(p) = Cardinality(F) /\ Place(p)' = Cardinality(G)
    BY DEF Place
  <2> HIDE DEF F, G
  <2>3. IsFiniteSet(F) /\ IsFiniteSet(G)
    BY <2>1, <1>3, <1>8, FS_Subset
  <2>4. Cardinality(F) <= Cardinality(G) /\ Cardinality(F) \in Nat /\ Cardinality(G) \in Nat
    BY <2>1, <2>3, FS_Subset, FS_CardinalityType
  <2> QED
    BY <2>2, <2>4, <1>8
<1>17. PagingOK'
  <2> SUFFICES ASSUME call.phase = "paging" PROVE Read(call.rows)' /\ NoneBehind'
    BY <1>1 DEF PagingOK
  <2>1. Read(call.rows) /\ NoneBehind /\ call.rows \in Seq(Rows)
    BY <1>3 DEF InquiryInv, PagingOK, Calls
  <2>2. PICK rows \in Seq(Rows) : rows = call.rows
    BY <2>1
  <2>3. ASSUME NEW i \in DOMAIN rows PROVE AsExecuted(rows[i].order, rows[i].filled, rows[i].paid)'
    <3>1. rows[i].order \in Orders /\ rows[i].filled \in Nat
      <4>1. rows[i] \in Rows
        BY <2>2
      <4> QED
        BY <4>1 DEF Rows
    <3>2. AsExecuted(rows[i].order, rows[i].filled, rows[i].paid)
      BY <2>1, <2>2 DEF Read
    <3> QED
      BY <3>1, <3>2, <1>9
  <2>4. Read(call.rows)'
    BY <1>1, <2>1, <2>2, <2>3 DEF Read
  <2>5. NoneBehind'
    <3>1. ASSUME call.rows # <<>>
          PROVE  /\ Last(call.rows).order \in Executing'
                 /\ Len(call.rows) <= Place(Last(call.rows).order)'
      <4>1. Last(call.rows).order \in Executing /\ Len(call.rows) <= Place(Last(call.rows).order) /\ Len(call.rows) \in Nat
        BY <2>1, <3>1 DEF NoneBehind
      <4>2. PICK p \in Executing : p = Last(call.rows).order
        BY <4>1
      <4>3. Len(call.rows) <= Place(p) /\ p \in Executing' /\ Place(p) <= Place(p)' /\ Place(p) \in Nat /\ Place(p)' \in Nat
        BY <4>1, <4>2, <1>16
      <4>4. Len(call.rows) <= Place(p)'
        BY <4>1, <4>3
      <4>5. p = Last(call.rows).order'
        BY <4>2, <1>1
      <4> QED
        BY <4>2, <4>3, <4>4, <4>5, <1>1 DEF Place
    <3> QED
      BY <2>1, <3>1, <1>1 DEF NoneBehind
  <2> QED
    BY <2>4, <2>5
<1>18. ReportingOK'
  <2> SUFFICES ASSUME call.phase = "reporting"
               PROVE  Told(call.reports)' /\ CountOn(call.reports, book)' /\ \A p \in Orders : Reaches(p, call.reports)'
    BY <1>1 DEF ReportingOK
  <2>1. Told(call.reports) /\ CountOn(call.reports, book) /\ (\A p \in Orders : Reaches(p, call.reports))
        /\ call.reports \in Seq(Reports)
    BY <1>3 DEF InquiryInv, ReportingOK, Calls
  <2>2. book' = book
    BY <1>1 DEF Idle
  <2>3. PICK reports \in Seq(Reports) : reports = call.reports
    BY <2>1
  <2>4. ASSUME NEW i \in DOMAIN reports
        PROVE  AsExecuted(reports[i].order, reports[i].execution_id[2], reports[i].execution_id[3])'
    <3>1. reports[i].order \in Orders /\ reports[i].execution_id[2] \in Nat
      <4>1. reports[i] \in Reports
        BY <2>3
      <4> QED
        BY <4>1 DEF Reports
    <3>2. AsExecuted(reports[i].order, reports[i].execution_id[2], reports[i].execution_id[3])
      BY <2>1, <2>3 DEF Told
    <3> QED
      BY <3>1, <3>2, <1>9
  <2>5. Told(call.reports)'
    BY <1>1, <2>1, <2>3, <2>4 DEF Told
  <2> QED
    BY <2>1, <2>2, <2>5, <1>1 DEF Reaches
<1> QED
  BY <1>12, <1>13, <1>14, <1>15, <1>17, <1>18 DEF InquiryInv

-----------------------------------------------------------------------------
(* A page is taken.                                                        *)

\* The orders that must not be missed.
Due(o) == call.since[o] > 0

\* An order that is due has a row in the table.
LEMMA DueAreExecuting ==
  ASSUME InquiryInv, NEW o \in Orders, Due(o)
  PROVE  o \in Executing
<1>1. call.since[o] \in Nat /\ call.since[o] <= Len(executions[o]) /\ call.since[o] > 0
  BY DEF InquiryInv, InquiryTyped, Calls, BooksFollow, Due
<1>2. executions[o] # <<>>
  BY <1>1
<1> QED
  BY <1>2 DEF Executing

\* The order with the earlier place is the later one.
LEMMA EarlierPlaceIsLater ==
  ASSUME IsFiniteSet(Executing), NEW o \in Executing, NEW p \in Executing, Place(p) < Place(o)
  PROVE  o < p
<1>1. o \in Nat /\ p \in Nat /\ Place(o) \in Nat /\ Place(p) \in Nat
  <2>1. Place(o) \in 1 .. Cardinality(Executing) /\ Place(p) \in 1 .. Cardinality(Executing)
    BY PlacesFall
  <2> QED
    BY <2>1, ExecutingAreNumbers
<1>2. ~(o > p)
  <2>1. o > p => Place(o) < Place(p)
    BY PlacesFall
  <2> QED
    BY <2>1, <1>1
<1>3. o # p
  BY <1>1
<1> QED
  BY <1>1, <1>2, <1>3

\* Where the next page starts: not before the rows that were read, and not
\* behind an order that is due and was not.
LEMMA StartsAreClose ==
  ASSUME InquiryInv, call.phase = "paging", NEW from \in Starts(call.rows)
  PROVE  /\ from \in Nat \ {0} /\ Len(call.rows) + 1 <= from
         /\ \A o \in Orders : Due(o) /\ ~HasRow(call.rows, o) => from <= Place(o)
<1> DEFINE rows == call.rows
<1>1. rows \in Seq(Rows) /\ Len(rows) \in Nat /\ NoneBehind /\ IsFiniteSet(Executing)
  BY DEF InquiryInv, InquiryTyped, Calls, PagingOK
<1>2. \A o \in Executing : Place(o) \in Nat \ {0}
  <2> SUFFICES ASSUME NEW o \in Executing PROVE Place(o) \in Nat \ {0}
    OBVIOUS
  <2>1. Place(o) \in 1 .. Cardinality(Executing) /\ Cardinality(Executing) \in Nat
    BY <1>1, PlacesFall, FS_CardinalityType
  <2> QED
    BY <2>1
<1>3. CASE rows = <<>>
  <2>1. from = 1 /\ Len(rows) = 0
    BY <1>3 DEF Starts
  <2>2. \A o \in Orders : Due(o) => Place(o) \in Nat \ {0}
    BY <1>2, DueAreExecuting
  <2> QED
    BY <2>1, <2>2
<1>4. CASE rows # <<>>
  <2> DEFINE q == Last(rows).order
  <2>1. q \in Executing /\ Len(rows) <= Place(q) /\ Place(q) \in Nat
    BY <1>1, <1>2, <1>4 DEF NoneBehind
  <2>2. from = Len(rows) + 1 \/ from = Place(q) + 1
    BY <1>4 DEF Starts
  <2>3. ASSUME NEW o \in Orders, Due(o), ~HasRow(rows, o) PROVE from <= Place(o)
    <3>1. o \in Executing /\ o < q
      BY <2>3, <1>1, <1>4, DueAreExecuting DEF NoneBehind, Due
    <3> HIDE DEF q
    <3>2. Place(q) < Place(o)
      <4>1. o \in Nat /\ q \in Nat
        BY <2>1, <3>1, ExecutingAreNumbers
      <4>2. q > o
        BY <3>1, <4>1
      <4> QED
        BY <1>1, <2>1, <3>1, <4>2, PlacesFall
    <3>3. Place(o) \in Nat
      BY <3>1, <1>2
    <3> HIDE DEF rows
    <3> QED
      BY <3>2, <3>3, <2>1, <2>2, <1>1
  <2> HIDE DEF q, rows
  <2> QED
    BY <1>1, <2>1, <2>2, <2>3 DEF rows
<1> QED
  BY <1>3, <1>4

\* With a page more: the rows are still in the order they were read, and the
\* page leaves no order behind that is due; the last page leaves none at all.
LEMMA PageLeavesNone ==
  ASSUME InquiryInv, call.phase = "paging", NEW from \in Starts(call.rows)
  PROVE  LET rows == call.rows \o Page(from)
         IN  /\ rows \in Seq(Rows) /\ Read(rows)
             /\ \A o \in Orders :
                  Due(o) /\ ~HasRow(rows, o) =>
                      /\ from + PageLength - 1 < Len(Table)
                      /\ rows # <<>> => o < Last(rows).order
             /\ rows # <<>> => /\ Last(rows).order \in Executing
                               /\ Len(rows) <= Place(Last(rows).order)
<1> DEFINE old == call.rows
           page == Page(from)
           rows == old \o page
           m == Len(old)
           l == Len(page)
           n == Cardinality(Executing)
           to == PageEnd(from)
<1>1. old \in Seq(Rows) /\ m \in Nat /\ NoneBehind /\ IsFiniteSet(Executing) /\ Read(old) /\ InquiryTyped
  BY DEF InquiryInv, InquiryTyped, Calls, PagingOK
<1>2. /\ from \in Nat \ {0} /\ m + 1 <= from
      /\ \A o \in Orders : Due(o) /\ ~HasRow(old, o) => from <= Place(o)
  BY StartsAreClose
<1>3. /\ Len(Table) = n /\ to \in Nat /\ page \in Seq(Rows) /\ l \in Nat
      /\ l = IF from <= to THEN to - from + 1 ELSE 0
      /\ \A i \in 1 .. l : from + i - 1 \in 1 .. n /\ page[i] = Row(Table[from + i - 1])
  <2>1. /\ Len(Table) = n /\ to \in Nat /\ page \in Seq(Rows)
        /\ l = IF from <= to THEN to - from + 1 ELSE 0
        /\ \A i \in 1 .. l : from + i - 1 \in 1 .. n /\ page[i] = Row(Table[from + i - 1])
    BY <1>1, <1>2, PageIs
  <2> HIDE DEF page
  <2>2. l \in Nat
    BY <2>1
  <2> QED
    BY <2>1, <2>2
<1>4. /\ n \in Nat /\ Table \in [1 .. n -> Executing] /\ \A i \in 1 .. n : Place(Table[i]) = i
      /\ \A o \in Executing : Place(o) \in 1 .. n /\ Table[Place(o)] = o
  BY <1>1, TableListsAll
<1>5. to = IF from + PageLength - 1 <= n THEN from + PageLength - 1 ELSE n
  BY DEF PageEnd
<1>6. PageLength \in Nat \ {0}
  BY InquiryAssumption
<1>7. /\ rows \in Seq(Rows) /\ Len(rows) = m + l /\ DOMAIN rows = 1 .. m + l
      /\ \A i \in 1 .. m : rows[i] = old[i]
      /\ \A i \in 1 .. l : rows[m + i] = page[i]
  <2> HIDE DEF old, page
  <2>1. /\ rows \in Seq(Rows) /\ Len(rows) = m + l
        /\ \A i \in 1 .. m + l : rows[i] = IF i <= m THEN old[i] ELSE page[i - m]
    BY <1>1, <1>3, ConcatProperties
  <2> HIDE DEF rows, m, l
  <2>2. \A i \in 1 .. m : rows[i] = old[i]
    <3>1. \A i \in 1 .. m : i \in 1 .. m + l /\ i <= m
      BY <1>1, <1>3
    <3> QED
      BY <3>1, <2>1
  <2>3. \A i \in 1 .. l : m + i \in 1 .. m + l /\ ~(m + i <= m) /\ (m + i) - m = i
    BY <1>1, <1>3
  <2>4. DOMAIN rows = 1 .. m + l
    BY <2>1
  <2> QED
    BY <2>1, <2>2, <2>3, <2>4
<1> HIDE DEF old, page, rows, m, l, n, to
<1>8. ASSUME NEW i \in 1 .. l
      PROVE  LET p == Table[from + i - 1]
             IN  /\ p \in Executing /\ rows[m + i] = Row(p)
                 /\ rows[m + i].order = p /\ rows[m + i].filled = Len(executions[p])
                 /\ rows[m + i].paid = Sum(executions[p]) /\ Place(p) = from + i - 1
  <2>1. from + i - 1 \in 1 .. n /\ rows[m + i] = Row(Table[from + i - 1])
    BY <1>3, <1>7
  <2>2. Table[from + i - 1] \in Executing /\ Place(Table[from + i - 1]) = from + i - 1
    BY <2>1, <1>4
  <2> QED
    BY <2>1, <2>2 DEF Row
<1>9. Read(rows)
  <2>1. \A p \in Orders : Len(executions[p]) \in Nat /\ call.since[p] \in Nat /\ call.since[p] <= Len(executions[p])
    BY DEF InquiryInv, InquiryTyped, Calls, BooksFollow
  <2>2. \A i \in 1 .. m + l : rows[i] \in Rows /\ rows[i].order \in Orders /\ rows[i].filled \in Nat
    <3>1. \A i \in 1 .. m + l : rows[i] \in Rows
      BY <1>7
    <3> QED
      BY <3>1 DEF Rows
  <2>3. ASSUME NEW i \in 1 .. m + l, i > m
        PROVE  /\ rows[i].filled = Len(executions[rows[i].order])
               /\ rows[i].paid = Sum(executions[rows[i].order])
    <3>1. i - m \in 1 .. l /\ m + (i - m) = i
      BY <1>1, <1>3, <2>3
    <3> QED
      BY <3>1, <1>8
  <2>4. ASSUME NEW i \in 1 .. m + l
        PROVE  /\ AsExecuted(rows[i].order, rows[i].filled, rows[i].paid)
               /\ call.since[rows[i].order] <= rows[i].filled
    <3>1. CASE i <= m
      <4>1. i \in DOMAIN old /\ rows[i] = old[i]
        BY <3>1, <1>1, <1>3, <1>7 DEF m
      <4> QED
        BY <4>1, <1>1 DEF Read
    <3>2. CASE i > m
      BY <3>2, <2>1, <2>2, <2>3 DEF AsExecuted
    <3> QED
      BY <3>1, <3>2, <1>1
  <2>5. ASSUME NEW i \in 1 .. m + l, NEW j \in 1 .. i - 1, rows[j].order = rows[i].order
        PROVE  rows[j].filled <= rows[i].filled
    <3>1. CASE i <= m
      <4>1. i \in 1 .. m /\ j \in 1 .. m
        BY <3>1, <1>1, <1>3
      <4>2. i \in DOMAIN old /\ rows[i] = old[i] /\ rows[j] = old[j]
        BY <4>1, <1>1, <1>7 DEF m
      <4> QED
        BY <4>2, <2>5, <1>1 DEF Read
    <3>2. CASE i > m
      <4>1. j \in 1 .. m + l
        BY <1>1, <1>3
      <4>2. rows[j].filled <= Len(executions[rows[j].order])
        BY <4>1, <2>4 DEF AsExecuted
      <4> QED
        BY <3>2, <4>2, <2>3, <2>5
    <3> QED
      BY <3>1, <3>2, <1>1
  <2> QED
    BY <2>4, <2>5, <1>7 DEF Read
<1>10. ASSUME l # 0
       PROVE  /\ Last(rows) = rows[m + l] /\ Last(rows).order = Table[to] /\ to \in 1 .. n
              /\ rows # <<>> /\ Table[to] \in Executing /\ Place(Table[to]) = to /\ m + l <= to
  <2>1. from <= to /\ l = to - from + 1 /\ l \in 1 .. l /\ from + l - 1 = to
    BY <1>10, <1>2, <1>3
  <2>2. Last(rows) = rows[m + l] /\ rows # <<>>
    <3>1. rows # <<>>
      BY <1>1, <1>3, <1>7, <1>10
    <3> QED
      BY <3>1, <1>7 DEF Last
  <2>3. rows[m + l].order = Table[to]
    BY <2>1, <1>8
  <2>4. to \in 1 .. n
    BY <2>1, <1>3
  <2> QED
    BY <2>1, <2>2, <2>3, <2>4, <1>1, <1>2, <1>3, <1>4
<1>11. l = 0 => rows = old
  <2> SUFFICES ASSUME l = 0 PROVE rows = old
    OBVIOUS
  <2>1. page = <<>>
    BY <1>3 DEF l
  <2> QED
    BY <2>1, <1>1, ConcatEmptySeq DEF rows
<1>12. ASSUME NEW o \in Orders, Due(o), ~HasRow(rows, o)
       PROVE  from + PageLength - 1 < Len(Table) /\ (rows # <<>> => o < Last(rows).order)
  <2>1. ~HasRow(old, o)
    <3> SUFFICES ASSUME NEW i \in DOMAIN old, old[i].order = o PROVE FALSE
      BY DEF HasRow
    <3>1. i \in 1 .. m
      BY <1>1 DEF m
    <3>2. rows[i] = old[i] /\ i \in DOMAIN rows
      BY <3>1, <1>1, <1>3, <1>7
    <3> QED
      BY <3>2, <1>12 DEF HasRow
  <2>2. from <= Place(o) /\ o \in Executing
    BY <2>1, <1>2, <1>12, DueAreExecuting
  <2>3. Place(o) \in 1 .. n /\ Table[Place(o)] = o
    BY <2>2, <1>4
  <2>4. ~(Place(o) <= to)
    <3> SUFFICES ASSUME Place(o) <= to PROVE FALSE
      OBVIOUS
    <3> DEFINE i == Place(o) - from + 1
    <3>1. i \in 1 .. l /\ from + i - 1 = Place(o)
      <4> DEFINE at == Place(o)
      <4>1. at \in Nat /\ from <= at /\ at <= to /\ from \in Nat /\ to \in Nat
        BY <2>2, <2>3, <1>2, <1>3, <1>4
      <4>2. i = at - from + 1
        OBVIOUS
      <4> HIDE DEF at, i
      <4>3. l = to - from + 1 /\ from <= to
        BY <4>1, <1>3
      <4>4. i \in 1 .. l /\ from + i - 1 = at
        BY <4>1, <4>2, <4>3
      <4> QED
        BY <4>4 DEF at
    <3> HIDE DEF i
    <3>2. rows[m + i].order = o
      BY <3>1, <2>3, <1>8
    <3>3. m + i \in DOMAIN rows
      BY <3>1, <1>1, <1>3, <1>7
    <3> QED
      BY <3>2, <3>3, <1>12 DEF HasRow
  <2>5. from + PageLength - 1 < n /\ to = from + PageLength - 1
    BY <2>3, <2>4, <1>2, <1>3, <1>4, <1>5, <1>6
  <2>6. l # 0
    BY <2>5, <1>2, <1>3, <1>6
  <2>7. o < Table[to]
    <3>1. Place(Table[to]) < Place(o) /\ Table[to] \in Executing
      BY <2>3, <2>4, <2>6, <1>3, <1>10
    <3> QED
      BY <3>1, <2>2, <1>1, EarlierPlaceIsLater
  <2> QED
    BY <2>5, <2>6, <2>7, <1>3, <1>10
<1>13. rows # <<>> => Last(rows).order \in Executing /\ Len(rows) <= Place(Last(rows).order)
  <2>1. CASE l # 0
    BY <2>1, <1>7, <1>10
  <2>2. CASE l = 0
    BY <2>2, <1>1, <1>11 DEF NoneBehind, old
  <2> QED
    BY <2>1, <2>2
<1> QED
  BY <1>7, <1>9, <1>12, <1>13 DEF rows, old, page


\* What normalize gives for rows that were accepted is what a report is.
LEMMA AcceptedAreReports ==
  ASSUME InquiryInv, NEW rows \in Seq(Rows), Read(rows), Acceptable(rows),
         \A o \in Orders : Due(o) => HasRow(rows, o)
  PROVE  /\ Normalized(rows) \in Seq(Reports)
         /\ Told(Normalized(rows)) /\ CountOn(Normalized(rows), book)
         /\ \A o \in Orders : Reaches(o, Normalized(rows))
<1>1. InquiryTyped
  BY DEF InquiryInv
<1>2. PICK sofar : NormalizedUpto(sofar, rows, Len(rows)) /\ Normalized(rows) = sofar.reports
  BY <1>1, NormalizedIs
<1> DEFINE reports == Normalized(rows)
<1>3. reports \in Seq(Made) /\ Len(reports) \in Nat /\ DOMAIN reports = 1 .. Len(reports)
  <2>1. sofar.reports \in Seq(Made)
    BY <1>2 DEF NormalizedUpto, Normalizing
  <2> QED
    BY <1>2, <2>1
<1>4. Told(reports) /\ CountOn(reports, book)
  BY <1>2 DEF NormalizedUpto
<1>5. \A i \in DOMAIN reports : Priced(reports[i])
  BY DEF Acceptable
<1>6. \A i \in DOMAIN reports : \E j \in 1 .. Len(rows) : rows[j].order = reports[i].order
  BY <1>2 DEF NormalizedUpto
<1> HIDE DEF reports
<1>7. ASSUME NEW i \in 1 .. Len(reports) PROVE reports[i] \in Reports
  <2>1. reports[i] \in Made /\ Priced(reports[i])
    BY <1>3, <1>5
  <2>2. PICK j \in 1 .. Len(rows) : rows[j].order = reports[i].order
    BY <1>3, <1>6
  <2>3. reports[i].order \notin Foreign
    <3>1. Correlates(rows[j])
      BY DEF Acceptable
    <3> QED
      BY <2>2, <3>1 DEF Correlates
  <2> QED
    BY <2>1, <2>3 DEF Made, Priced, Reports, Ids
<1>8. reports \in Seq(Reports)
  BY <1>3, <1>7
<1>9. ASSUME NEW o \in Orders PROVE Reaches(o, reports)
  <2>1. call.since[o] \in Nat /\ book[o].filled \in Nat
    BY DEF InquiryInv, InquiryTyped, Calls, Amounts
  <2>2. CASE Due(o)
    <3>1. PICK i \in DOMAIN rows : rows[i].order = o
      BY <2>2 DEF HasRow
    <3>2. i \in 1 .. Len(rows) /\ rows[i].filled \in Nat /\ call.since[o] <= rows[i].filled
      <4>1. rows[i] \in Rows
        OBVIOUS
      <4> QED
        BY <3>1, <4>1 DEF Rows, Read
    <3>3. rows[i].filled <= sofar.carried[o].filled
      BY <3>1, <3>2, <1>2 DEF NormalizedUpto
    <3>4. sofar.carried[o].filled \in Int
      BY <1>2 DEF NormalizedUpto, Normalizing, Carried
    <3>5. call.since[o] <= sofar.carried[o].filled
      BY <2>1, <3>2, <3>3, <3>4
    <3>6. KnownFrom(sofar, o)
      BY <1>2 DEF NormalizedUpto
    <3> QED
      BY <1>2, <3>5, <3>6 DEF KnownFrom, LastOf, Reaches, reports
  <2>3. CASE ~Due(o)
    BY <2>1, <2>3 DEF Due, Reaches
  <2> QED
    BY <2>2, <2>3
<1> QED
  BY <1>4, <1>8, <1>9 DEF reports

\* A page is taken, and behind the last one the rows are normalized.
LEMMA PageKeeps ==
  ASSUME InquiryInv, TakePage
  PROVE  InquiryInv'
<1>1. call.phase = "paging" /\ UNCHANGED <<executions, book, seen, answered>>
  BY DEF TakePage
<1>2. PICK from \in Starts(call.rows) :
        LET more == from + PageLength - 1 < Len(Table)
            next == [call EXCEPT !.pages = @ + 1, !.rows = @ \o Page(from)]
        IN  call' = IF LastPage(next, more)
                    THEN IF Acceptable(next.rows)
                         THEN [next EXCEPT !.phase = "reporting", !.rows = <<>>,
                                           !.reports = Normalized(next.rows)]
                         ELSE Idle
                    ELSE IF next.pages = MaxPages THEN Idle ELSE next
  BY DEF TakePage
<1> DEFINE rows == call.rows \o Page(from)
           more == from + PageLength - 1 < Len(Table)
           next == [call EXCEPT !.pages = @ + 1, !.rows = @ \o Page(from)]
<1>3. BooksHold
  BY <1>1, SameBooksHold
<1>4. /\ rows \in Seq(Rows) /\ Read(rows)
      /\ \A o \in Orders :
           Due(o) /\ ~HasRow(rows, o) => more /\ (rows # <<>> => o < Last(rows).order)
      /\ rows # <<>> => /\ Last(rows).order \in Executing
                        /\ Len(rows) <= Place(Last(rows).order)
  BY <1>1, PageLeavesNone
<1>5. call \in Calls /\ call.pages \in Nat /\ call.pages < MaxPages /\ call.reports = <<>>
      /\ call.since \in [Orders -> Nat] /\ MaxPages \in Nat
  BY <1>1, InquiryAssumption DEF InquiryInv, InquiryTyped, CallInPhase, Calls
<1>6. next = [call EXCEPT !.pages = @ + 1, !.rows = rows]
  OBVIOUS
<1>7. call' = IF ~more
              THEN IF Acceptable(next.rows)
                   THEN [next EXCEPT !.phase = "reporting", !.rows = <<>>,
                                     !.reports = Normalized(next.rows)]
                   ELSE Idle
              ELSE IF next.pages = MaxPages THEN Idle ELSE next
  BY <1>2 DEF LastPage
<1> HIDE DEF rows, more
<1> HIDE DEF next
<1>8. /\ next.rows = rows /\ next.pages = call.pages + 1 /\ next.phase = "paging"
      /\ next.since = call.since /\ next.reports = <<>> /\ next \in Calls
  <2>1. call.pages + 1 \in Nat /\ rows \in Seq(Rows)
    BY <1>4, <1>5
  <2>2. next = [call EXCEPT !.pages = call.pages + 1, !.rows = rows]
    BY <1>6
  <2>3. next \in Calls
    BY <1>5, <2>1, <2>2 DEF Calls
  <2> QED
    BY <1>1, <1>5, <2>2, <2>3 DEF Calls
<1>9. Executing' = Executing /\ executions' = executions /\ book' = book
  BY <1>1 DEF Executing
<1>10. CASE call' = Idle
  BY <1>3, <1>10, CallOver
<1>11. ASSUME call' \in Calls, call'.since = call.since
       PROVE  InquiryTyped' /\ BooksFollow' /\ SeenAreBooked'
  <2>1. InquiryTyped'
    BY <1>3, <1>9, <1>11 DEF InquiryInv, InquiryTyped, BooksHold
  <2>2. BooksFollow'
    <3> SUFFICES ASSUME NEW o \in Orders
                 PROVE  /\ executions'[o] \in Seq(PricesOf[o]) /\ Len(executions'[o]) <= Quantity[o]
                        /\ AsExecuted(o, book[o].filled, book[o].paid)'
                        /\ answered'[o] <= book'[o].filled /\ call'.since[o] <= Len(executions'[o])
      BY DEF BooksFollow
    <3> QED
      BY <1>3, <1>9, <1>11 DEF BooksHold, InquiryInv, BooksFollow, AsExecuted
  <2>3. SeenAreBooked'
    BY <1>3 DEF SeenAreBooked, BooksHold
  <2> QED
    BY <2>1, <2>2, <2>3
<1>12. CASE ~more /\ Acceptable(rows)
  <2> DEFINE reports == Normalized(rows)
  <2>1. call' = [next EXCEPT !.phase = "reporting", !.rows = <<>>, !.reports = reports]
    BY <1>7, <1>8, <1>12
  <2>2. \A o \in Orders : Due(o) => HasRow(rows, o)
    BY <1>4, <1>12
  <2>3. /\ reports \in Seq(Reports) /\ Told(reports) /\ CountOn(reports, book)
        /\ \A o \in Orders : Reaches(o, reports)
    BY <1>4, <1>12, <2>2, AcceptedAreReports
  <2> HIDE DEF reports
  <2>4. /\ call'.phase = "reporting" /\ call'.rows = <<>> /\ call'.reports = reports
        /\ call'.since = call.since /\ call' \in Calls
    BY <1>8, <2>1, <2>3, EmptySeq DEF Calls, Phases
  <2>5. CallInPhase'
    BY <2>4 DEF CallInPhase
  <2>6. ReportingOK'
    <3>1. Told(call.reports)'
      BY <1>9, <2>3, <2>4 DEF Told, AsExecuted
    <3>2. CountOn(call.reports, book)'
      BY <1>9, <2>3, <2>4
    <3>3. \A o \in Orders : Reaches(o, call.reports)'
      BY <1>9, <2>3, <2>4 DEF Reaches
    <3> QED
      BY <3>1, <3>2, <3>3 DEF ReportingOK
  <2>7. PagingOK'
    BY <2>4 DEF PagingOK
  <2> QED
    BY <1>11, <2>4, <2>5, <2>6, <2>7 DEF InquiryInv
<1>13. CASE more /\ next.pages # MaxPages
  <2>1. call' = next
    BY <1>7, <1>13
  <2>2. CallInPhase'
    <3>1. call.pages + 1 < MaxPages
      BY <1>5, <1>8, <1>13
    <3> QED
      BY <3>1, <2>1, <1>8 DEF CallInPhase
  <2>3. Read(call.rows)'
    BY <2>1, <1>4, <1>8, <1>9 DEF Read, AsExecuted
  <2>4. NoneBehind'
    <3>1. \A o \in Orders : call'.rows # <<>> /\ call'.since[o] > 0 /\ ~HasRow(call'.rows, o) =>
                              o < Last(call'.rows).order
      BY <2>1, <1>4, <1>8 DEF Due
    <3>2. call'.rows # <<>> => /\ Last(call'.rows).order \in Executing'
                               /\ Len(call'.rows) <= Cardinality({q \in Executing' : q >= Last(call'.rows).order})
      BY <2>1, <1>4, <1>8, <1>9 DEF Place
    <3> QED
      BY <3>1, <3>2 DEF NoneBehind, Place
  <2>5. PagingOK' /\ ReportingOK'
    BY <2>1, <2>3, <2>4, <1>8 DEF PagingOK, ReportingOK
  <2> QED
    BY <1>8, <1>11, <2>1, <2>2, <2>5 DEF InquiryInv
<1> QED
  BY <1>7, <1>8, <1>10, <1>12, <1>13

\* Every step keeps the invariant.
LEMMA NextInquiry == InquiryInv /\ [InquiryNext]_inquiryVars => InquiryInv'
<1> SUFFICES ASSUME InquiryInv, [InquiryNext]_inquiryVars PROVE InquiryInv'
  OBVIOUS
<1>1. ASSUME NEW o \in Orders, NEW noticed \in BOOLEAN, NEW price \in PricesOf[o],
             Execute(o, price, noticed)
      PROVE  InquiryInv'
  BY <1>1, ExecuteKeeps
<1>2. CASE Begin
  BY <1>2, BeginKeeps
<1>3. CASE TakePage
  BY <1>3, PageKeeps
<1>4. CASE PageFails
  <2>1. BooksHold /\ call' = Idle
    BY <1>4, SameBooksHold DEF PageFails
  <2> QED
    BY <2>1, CallOver
<1>5. CASE SettleReport
  BY <1>5, SettleKeeps
<1>6. CASE SettleRaises
  BY <1>6, RaisesKeeps
<1>7. CASE Return
  BY <1>7, ReturnKeeps
<1>8. CASE UNCHANGED inquiryVars
  BY <1>8 DEF inquiryVars, InquiryInv, InquiryTyped, CallInPhase, BooksFollow, SeenAreBooked,
              PagingOK, ReportingOK, Executing, AsExecuted, Read, NoneBehind, Place, Told, Reaches
<1> QED
  BY <1>1, <1>2, <1>3, <1>4, <1>5, <1>6, <1>7, <1>8 DEF InquiryNext

\* The invariant of the inquiry holds in every reachable state.
THEOREM InquiryInvHolds == InquirySpec => []InquiryInv
  BY InitInquiry, NextInquiry, PTL DEF InquirySpec

\* Types: executions and books never pass the order's quantity, a call holds
\* reports only while it reports, each of a quantity and a price above zero and
\* of an order this process sent (KISFuturesExecutionRecoveryAdapter.normalize).
THEOREM InquiryTypeCorrect == InquirySpec => []InquiryTypeOK
<1>1. InquiryInv => InquiryTypeOK
  <2> SUFFICES ASSUME InquiryInv PROVE InquiryTypeOK
    OBVIOUS
  <2>1. ASSUME NEW o \in Orders
        PROVE  /\ executions[o] \in Seq(PricesOf[o]) /\ Len(executions[o]) <= Quantity[o]
               /\ book[o] \in [filled : 0 .. Quantity[o], paid : Nat]
               /\ answered[o] \in 0 .. Quantity[o]
    <3>1. /\ executions[o] \in Seq(PricesOf[o]) /\ Len(executions[o]) <= Quantity[o]
          /\ book[o].filled <= Len(executions[o]) /\ answered[o] <= book[o].filled
      BY DEF InquiryInv, BooksFollow, AsExecuted
    <3>2. book[o] \in Amounts /\ answered[o] \in Nat /\ Len(executions[o]) \in Nat /\ Quantity[o] \in Nat
      BY InquiryAssumption DEF InquiryInv, InquiryTyped
    <3>3. book[o].filled \in 0 .. Quantity[o] /\ answered[o] \in 0 .. Quantity[o]
      BY <3>1, <3>2 DEF Amounts
    <3> QED
      BY <3>1, <3>2, <3>3 DEF Amounts
  <2>2. call.reports \in Seq(Reports)
    BY DEF InquiryInv, InquiryTyped, Calls
  <2> QED
    BY <2>1, <2>2 DEF InquiryInv, CallInPhase, InquiryTypeOK
<1> QED
  BY <1>1, InquiryInvHolds, PTL

\* A recovery that returns has booked all that was executed when it began, and
\* nothing is booked, or about to be, that was not executed: for any orders, any
\* length of a page and whatever executes between two pages
\* (KISFuturesExecutionRecoveryTransport.inquire, normalize, settle).
THEOREM RecoveryIsExact == InquirySpec => []RecoveredExactly
<1>1. InquiryInv => RecoveredExactly
  <2> SUFFICES ASSUME InquiryInv, NEW o \in Orders
               PROVE  /\ answered[o] <= book[o].filled
                      /\ BookedWith(o, call.reports) <= Len(executions[o])
    BY DEF RecoveredExactly
  <2>1. answered[o] <= book[o].filled /\ book[o].filled <= Len(executions[o])
    BY DEF InquiryInv, BooksFollow, AsExecuted
  <2>2. InquiryTyped /\ call.reports \in Seq(Reports)
    BY DEF InquiryInv, InquiryTyped, Calls
  <2>3. Told(call.reports) /\ CountOn(call.reports, book)
    <3>1. CASE call.phase = "reporting"
      BY <3>1 DEF InquiryInv, ReportingOK
    <3>2. CASE call.phase # "reporting"
      <4>1. call.reports = <<>>
        BY <3>2 DEF InquiryInv, InquiryTyped, Calls, Phases, CallInPhase, Idle
      <4> QED
        BY <4>1 DEF Told, CountOn
    <3> QED
      BY <3>1, <3>2
  <2> QED
    BY <2>1, <2>2, <2>3, BookedWithinExecuted
<1> QED
  BY <1>1, InquiryInvHolds, PTL

\* An order of which everything is booked is booked at what was paid for it:
\* prices recovered as differences of cumulative averages add up
\* (KISFuturesExecutionRecoveryAdapter._delta_execution_price).
THEOREM BookedTrulyPaid == InquirySpec => []BookedAtWhatWasPaid
<1>1. InquiryInv => BookedAtWhatWasPaid
  BY DEF InquiryInv, BooksFollow, AsExecuted, BookedAtWhatWasPaid
<1> QED
  BY <1>1, InquiryInvHolds, PTL
=============================================================================
