--------------------------- MODULE RecoveryInquiry ---------------------------
\* LiveExecutionRecoveryService.recover in full: the pages of inquire-ccnl,
\* what they are normalized to, and the reports given to on_report one by one.
\* The exchange goes on executing between two pages, so the rows of one inquiry
\* are of different moments.
\*
\* Orders are known by their ODNO.  An execution is of one contract; instead of
\* an average a row, the OMS and a report carry the sum paid, which is the
\* average times the quantity.
EXTENDS Naturals, Integers, FiniteSets, Sequences, SequencesExt

CONSTANTS Orders,      \* order numbers at the broker
          Foreign,     \* those this process did not send
          Quantity,    \* order |-> its order_quantity
          PricesOf,    \* order |-> the prices it may execute at
          PageLength,  \* external: rows of a page
          MaxPages     \* max_pages

VARIABLES executions,  \* external: order |-> the prices of its executions
          book,        \* order |-> what the OMS shows as filled and paid
          seen,        \* identities of REST reports that were settled
          call,        \* the recover call under way
          answered     \* order |-> executed when the last completed call began

inquiryVars == <<executions, book, seen, call, answered>>

ASSUME InquiryAssumption ==
    /\ Orders \subseteq Nat /\ Foreign \subseteq Orders
    /\ Quantity \in [Orders -> Nat \ {0}] /\ PricesOf \in [Orders -> SUBSET (Nat \ {0})]
    /\ PageLength \in Nat \ {0} /\ MaxPages \in Nat \ {0}

Sum(prices) == FoldLeft(+, 0, prices)
Filled(filled, paid) == [filled |-> filled, paid |-> paid]
Executed == [o \in Orders |-> Len(executions[o])]

Idle == [phase |-> "idle", rows |-> <<>>, pages |-> 0, reports |-> <<>>,
         since |-> [o \in Orders |-> 0]]

InquiryInit ==
    /\ executions = [o \in Orders |-> <<>>]
    /\ book = [o \in Orders |-> Filled(0, 0)]
    /\ seen = {}
    /\ call = Idle
    /\ answered = [o \in Orders |-> 0]

Booked(o, filled, paid) ==
    [book EXCEPT ![o] = Filled(@.filled + filled, @.paid + paid)]

\* External: one contract executes.  Its notice arrives, unless the process is
\* down or recovering, or the notice is lost.
Execute(o, price, noticed) ==
    /\ Len(executions[o]) < Quantity[o]
    /\ noticed => call = Idle /\ o \notin Foreign
    /\ executions' = [executions EXCEPT ![o] = Append(@, price)]
    /\ book' = IF noticed THEN Booked(o, 1, price) ELSE book
    /\ UNCHANGED <<seen, call, answered>>

-----------------------------------------------------------------------------
\* The pages.

\* External: orders with executions (CCLD_NCCS_DVSN 01), latest first
\* (SORT_SQN DS).
Executing == {o \in Orders : executions[o] # <<>>}
Place(o) == Cardinality({p \in Executing : p >= o})
Table == [i \in 1 .. Cardinality(Executing) |-> CHOOSE o \in Executing : Place(o) = i]

\* A row as it stands when its page is made.
Row(o) == [order |-> o, filled |-> Len(executions[o]), paid |-> Sum(executions[o])]

Page(from) ==
    LET page == SubSeq(Table, from, Min({from + PageLength - 1, Len(Table)}))
    IN  [i \in DOMAIN page |-> Row(page[i])]

Begin ==
    /\ call = Idle
    /\ call' = [Idle EXCEPT !.phase = "paging", !.since = Executed]
    /\ UNCHANGED <<executions, book, seen, answered>>

\* Where a continued inquiry goes on: ctx_area_fk200 and _nk200 are given back
\* as received, and stand for the last row or for a number of rows.  With the
\* latter a row is repeated when another comes in before it.
Starts(rows) ==
    IF rows = <<>> THEN {1}
    ELSE {Len(rows) + 1, Place(Last(rows).order) + 1}

\* Slip: an order nobody here sent is no reason to stop.
CorrelatesSlip(row) == book[row.order].filled < Quantity[row.order]

\* The order was sent by this process and is not FILLED in the OMS.
Correlates(row) == row.order \notin Foreign /\ book[row.order].filled < Quantity[row.order]

\* _snapshot_identity: the order, its cumulative quantity and its average.
Identity(row) == <<row.order, row.filled, row.paid>>

\* to_execution_report with _delta_execution_price: what the row shows beyond
\* what was known before it.
Report(row, prior) ==
    [order |-> row.order, filled |-> row.filled - prior.filled,
     paid |-> row.paid - prior.paid, execution_id |-> Identity(row)]

\* Slips: the next row of an order is compared with what the OMS shows, in full
\* or in price.
CarrySlip(carried, row) == carried
CarryPriceSlip(carried, row) == [carried EXCEPT ![row.order].filled = row.filled]

\* cumulative_by_order and average_by_order after a row that gave a report.
Carry(carried, row) == [carried EXCEPT ![row.order] = Filled(row.filled, row.paid)]

\* normalize: row by row, a later row of an order counts from the earlier one.
Normalize(sofar, row) ==
    IF row.filled = sofar.carried[row.order].filled THEN sofar
    ELSE [carried |-> Carry(sofar.carried, row),
          reports |-> Append(sofar.reports, Report(row, sofar.carried[row.order]))]

Normalized(rows) == FoldLeft(Normalize, [carried |-> book, reports |-> <<>>], rows).reports

\* A quantity that passed the order is refused, or one that went back, or a
\* price that is not positive, and with it the whole inquiry.
WithinOrder(row) == row.filled <= Quantity[row.order]
Priced(report) == report.filled > 0 /\ report.paid > 0

Acceptable(rows) ==
    /\ \A i \in DOMAIN rows : Correlates(rows[i]) /\ WithinOrder(rows[i])
    /\ \A i \in DOMAIN Normalized(rows) : Priced(Normalized(rows)[i])

LastPage(next, more) == ~more

\* One pass of the loop of inquire; behind the last one, normalize.  Nothing is
\* reported unless all of the rows are acceptable.
TakePage ==
    /\ call.phase = "paging"
    /\ \E from \in Starts(call.rows) :
         LET more == from + PageLength - 1 < Len(Table)
             next == [call EXCEPT !.pages = @ + 1, !.rows = @ \o Page(from)]
         IN  call' = IF LastPage(next, more)
                     THEN IF Acceptable(next.rows)
                          THEN [next EXCEPT !.phase = "reporting", !.rows = <<>>,
                                            !.reports = Normalized(next.rows)]
                          ELSE Idle
                     ELSE IF next.pages = MaxPages THEN Idle ELSE next
    /\ UNCHANGED <<executions, book, seen, answered>>

\* _request raises: no token, no connection, no JSON, rt_cd not 0.
PageFails ==
    /\ call.phase = "paging"
    /\ call' = Idle
    /\ UNCHANGED <<executions, book, seen, answered>>

-----------------------------------------------------------------------------
\* The reports, through LiveExecutionPositionBridge.settle.

Settle(report) ==
    /\ book' = IF report.execution_id \in seen THEN book
               ELSE Booked(report.order, report.filled, report.paid)
    /\ seen' = seen \cup {report.execution_id}

SettleReport ==
    /\ call.phase = "reporting" /\ call.reports # <<>>
    /\ Settle(Head(call.reports))
    /\ call' = [call EXCEPT !.reports = Tail(@)]
    /\ UNCHANGED <<executions, answered>>

\* on_report raises, before or after the OMS has applied the report: those that
\* follow are not settled by this call.
SettleRaises ==
    /\ call.phase = "reporting" /\ call.reports # <<>>
    /\ Settle(Head(call.reports)) \/ UNCHANGED <<book, seen>>
    /\ call' = Idle
    /\ UNCHANGED <<executions, answered>>

Return ==
    /\ call.phase = "reporting" /\ call.reports = <<>>
    /\ answered' = call.since
    /\ call' = Idle
    /\ UNCHANGED <<executions, book, seen>>

InquiryNext ==
    \/ \E o \in Orders, noticed \in BOOLEAN :
         \E price \in PricesOf[o] : Execute(o, price, noticed)
    \/ Begin \/ TakePage \/ PageFails
    \/ SettleReport \/ SettleRaises \/ Return

InquirySpec == InquiryInit /\ [][InquiryNext]_inquiryVars

-----------------------------------------------------------------------------
Reports == [order : Orders \ Foreign, filled : Nat \ {0}, paid : Nat \ {0},
            execution_id : Orders \X (Nat \ {0}) \X Nat]

\* Types; only a call that reports holds reports, and one that pages is within
\* its limit of pages.
InquiryTypeOK ==
    /\ \A o \in Orders :
         /\ executions[o] \in Seq(PricesOf[o]) /\ Len(executions[o]) <= Quantity[o]
         /\ book[o] \in [filled : 0 .. Quantity[o], paid : Nat]
         /\ answered[o] \in 0 .. Quantity[o]
    /\ call.phase = "paging" => call.pages < MaxPages /\ call.reports = <<>>
    /\ call.phase = "reporting" => call.reports \in Seq(Reports) /\ call.rows = <<>>
    /\ call.phase = "idle" => call = Idle

\* What will be booked of an order once these reports are.
BookedWith(o, reports) ==
    FoldLeft(LAMBDA sum, r : sum + (IF r.order = o THEN r.filled ELSE 0),
             book[o].filled, reports)

\* A call that returns has booked all that was executed when it began, however
\* the rows moved between its pages (transport:41-66); and what is booked, with
\* what the reports of a call in progress are about to book, was executed: no
\* row counts twice (adapter:140-164).
RecoveredExactly ==
    \A o \in Orders :
        /\ answered[o] <= book[o].filled
        /\ BookedWith(o, call.reports) <= Len(executions[o])

\* An order of which everything is booked is booked at what was paid for it,
\* whichever executions came as notices and whichever in rows (adapter:194-215).
BookedAtWhatWasPaid ==
    \A o \in Orders :
        book[o].filled = Len(executions[o]) => book[o].paid = Sum(executions[o])

=============================================================================
