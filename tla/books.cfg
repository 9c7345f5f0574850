SPECIFICATION BooksSpec
CONSTANTS
    Orders = {1, 2, 3, 4}
    Foreign = {4}
    Quantity <- MCQuantity
    PricesOf <- MCPricesOf
    PageLength = 1
    MaxPages = 3
    Quantities = {0, 1, 2, 3}
    Prices = {0, 2, 5, 7}
    None = None
    MaxFills = 4
INVARIANTS
    RecoveredExactly
    InquiryTypeOK
    BookedAtWhatWasPaid
    SignedQuantityIsNet
    AverageWithinPrices
CHECK_DEADLOCK FALSE
