---------------------------- MODULE KisHolidays ----------------------------
\* The holidays of the exchange as the process knows them: KISHolidayProvider,
\* which loads them year by year and page by page, and the trading calendar
\* that asks it.  A day is an integer; the first day of the model is a
\* Thursday plus Offset.
EXTENDS Integers, FiniteSets, FiniteSetsExt

CONSTANTS Days,        \* the days of the model, an interval
          YearOf,      \* day |-> year
          WeekdayOf,   \* day |-> date.weekday()
          Official,    \* external: the days the exchange is closed
          PageLength,  \* external: days on one page of the inquiry
          MaxPages     \* the 15 pages load_from_kis_api asks for at most

Years == {YearOf[d] : d \in Days}

ASSUME HolidayAssumption ==
    /\ Days \subseteq Int /\ {Min(Days), Max(Days)} \subseteq Days
    /\ Days = Min(Days) .. Max(Days)
    /\ YearOf \in [Days -> Nat] /\ WeekdayOf \in [Days -> 0 .. 6]
    /\ \A d1, d2 \in Days : /\ d1 <= d2 => YearOf[d1] <= YearOf[d2]
                            /\ WeekdayOf[d2] = (WeekdayOf[d1] + d2 - d1) % 7
    /\ Official \subseteq Days
    /\ PageLength \in Nat \ {0, 1} /\ MaxPages \in Nat \ {0}

VARIABLES strict,    \* strict_mode, as the process was started
          holidays,  \* _holidays
          loaded,    \* _loaded_years
          error,     \* _last_error is set
          load       \* the load_from_kis_api call under way

holidayVars == <<strict, holidays, loaded, error, load>>

Idle == [year |-> 0, page |-> 0, base |-> 0, asked |-> FALSE]

HolidayInit ==
    /\ strict \in BOOLEAN
    /\ holidays = {}
    /\ loaded = {}
    /\ error = FALSE
    /\ load = Idle

-----------------------------------------------------------------------------
\* A page of the inquiry from day base on: external, as much of it as the
\* loading loop relies on.  The last page carries no continuation keys.
Page(base) == {d \in Days : base <= d /\ d < base + PageLength}
LastPage(base) == \A d \in Days : d < base + PageLength

FirstDay(year) == Min({d \in Days : YearOf[d] = year})

\* parse_kis_holiday_output: the days the exchange is not open.
Closed(page) == page \cap Official

FinishedSlip(base, page) == page >= 1

\* The loop stops at a page without continuation keys or one that reaches into
\* the next year, and after MaxPages pages; the next page begins with the last
\* day of this one.
Finished(base, page) ==
    \/ LastPage(base)
    \/ \E d \in Page(base) : YearOf[d] = load.year + 1
    \/ page = MaxPages

NextBase(base) == Max(Page(base))

\* load_from_kis_api enters its loop.
Begin(year) ==
    /\ load = Idle
    /\ load' = [year |-> year, page |-> 1, base |-> FirstDay(year), asked |-> FALSE]
    /\ UNCHANGED <<strict, holidays, loaded, error>>

\* Whatever is raised while it runs ends the call: the error is remembered and
\* what earlier pages brought, the year's being loaded included, stays.
GiveUp ==
    /\ load' = Idle
    /\ error' = TRUE
    /\ UNCHANGED <<strict, holidays, loaded>>

\* load_from_response_data marks the year loaded with every page.
TakePage ==
    /\ holidays' = holidays \cup Closed(Page(load.base))
    /\ loaded' = loaded \cup {load.year}
    /\ error' = FALSE
    /\ load' = IF Finished(load.base, load.page)
               THEN Idle
               ELSE [load EXCEPT !.page = @ + 1,
                                 !.base = NextBase(load.base),
                                 !.asked = FALSE]
    /\ UNCHANGED strict

-----------------------------------------------------------------------------
\* is_holiday and is_trading_day; a strict provider raises for a year of which
\* it has loaded nothing.
Answers(d) == ~strict \/ YearOf[d] \in loaded

TradingDay(d, closed) == WeekdayOf[d] < 5 /\ d \notin closed

\* The latest trading day up to d, found by asking day after day: the walk
\* fails if a day of it is one the provider does not answer for, and weekends
\* are settled without asking.
LatestTradingDay(d, closed) == Max({x \in Days : x <= d /\ TradingDay(x, closed)})

Walked(d) ==
    LET end == LatestTradingDay(d, holidays)
    IN  {x \in Days : end <= x /\ x <= d /\ WeekdayOf[x] < 5}

CanWalk(d) == \A x \in Walked(d) : Answers(x)

-----------------------------------------------------------------------------
HolidayTypeOK ==
    /\ strict \in BOOLEAN
    /\ holidays \subseteq Official
    /\ loaded \subseteq Years
    /\ error \in BOOLEAN
    /\ load # Idle => load.year \in Years /\ load.page \in 1 .. MaxPages
                      /\ load.base \in Days

\* The last day of the last page a load of year may ask for.
Reach(year) == FirstDay(year) + MaxPages * (PageLength - 1)

\* A load that returns without an error has brought every holiday of its year
\* up to the end of the last page it may ask for, over however many pages they
\* were spread.  Beyond that page it knows nothing, and returns as a success
\* all the same (holiday_provider.py:152-188).
SuccessMeansComplete ==
    [][\A d \in Official :
         load.year = YearOf[d] /\ load' = Idle /\ ~error'
         => d \in holidays' \/ d > Reach(load.year)]_holidayVars
=============================================================================
