SPECIFICATION Spec
CONSTANTS
  Prices <- MCPrices
  Replays <- MCReplays
  Sleeps = {4, 6, 7000}
  TickStep = 500
  StreamLength = 2
  MaxTicks = 2
  MaxSleeps = 1
  None = None
  NoTick = NoTick
  OrderIds = {o1}
  Instruments <- MCInstruments
  SymbolOf <- MCSymbolOf
  Instrument = "kospi_call"
  Sizes = {1, 2}
  Limits <- MCLimits
  Spread <- MCSpread
  Capital <- MCCapital
  MaxExecutions = 3
CONSTRAINTS
  Apart
  Third
INVARIANTS
  MarketInOrder
  AccountIsTrue
  TypeOK
  BooksAgree
PROPERTIES
  SettledOnce
CHECK_DEADLOCK FALSE
