SPECIFICATION Spec
CONSTANTS
    Managers = {own, other}
    Own = own
    Credentialed = {own, other}
    Lives = {1, 2}
    Buffer = 1
    FirstCaches <- MCFirstCaches
    MaxTime = 1
    Days <- MCDays
    YearOf <- MCYearOf
    WeekdayOf <- MCWeekdayOf
    Official <- MCOfficial
    PageLength = 5
    MaxPages = 3
    Files <- MCFiles
    MonthOf <- MCMonthOf
    MaxOperations = 4
    Readers = {r1, r2}
    MaxSessions = 2
    MaxTrades = 2
CONSTRAINTS
    Apart
SYMMETRY Symmetric
INVARIANTS
    TypeOK
PROPERTIES
    TokensUsable
    ExpiriesErrLate
    SuccessMeansComplete
    StreamsSound
CHECK_DEADLOCK FALSE
