---------------------------- MODULE MCLiveBooks ----------------------------
\* The books the live environment keeps for itself: the position, and the
\* orders as the inquiry restores them.  Here they stand side by side; one
\* execution in both of them is LiveSettlement's.
EXTENDS RecoveryInquiry, PositionAggregate

\* They share no state, so a behaviour is of the one or of the other.
BooksInit == Init /\ InquiryInit
BooksNext == \/ InquiryInit /\ Next /\ UNCHANGED inquiryVars
             \/ Init /\ InquiryNext /\ UNCHANGED vars
BooksSpec == BooksInit /\ [][BooksNext]_<<vars, inquiryVars>>

\* Four orders, so that two rows may come in before one that was read: it is
\* then read three times, and the limit of pages is met.  The last order was
\* sent by someone else.
MCQuantity == <<1, 3, 1, 1>>
MCPricesOf == <<{1}, {1, 3}, {1}, {1}>>
=============================================================================
