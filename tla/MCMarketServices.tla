-------------------------- MODULE MCMarketServices --------------------------
\* The new year of the model falls on a Thursday, as in 2026, and the last day
\* of the old one is a holiday too: the first weekly option of the new year
\* expires two days before its nominal day.  The second Thursday is open, the
\* third is a holiday.
EXTENDS MarketServices

MCDays == 1 .. 24
MCYearOf == [d \in MCDays |-> IF d < 8 THEN 1 ELSE 2]
MCWeekdayOf == [d \in MCDays |-> (d + 2) % 7]
MCOfficial == {2, 7, 8, 22}

MCMonthOf == [old |-> 1, new |-> 8]

Line(symbol, code, strike, month, week, monthly) ==
    [symbol |-> symbol, code |-> code, strike |-> strike,
     month |-> month, week |-> week, monthly |-> monthly]

Weekly == Line("weekly", "std_weekly", 1, "new", 1, FALSE)
Third == Line("third", NoCode, 1, "new", 3, TRUE)
Monthly == Line("monthly", "std_monthly", 1, "new", 0, TRUE)
Nameless == Line("nameless", NoCode, 1, "new", 0, FALSE)
Restruck == [Weekly EXCEPT !.strike = 2]

MCFiles ==
    {<<Weekly, Monthly>>, <<Nameless, Third, Weekly>>, <<Monthly, Third>>,
     <<Weekly, Monthly, Restruck>>, <<Nameless>>}

\* A calendar load and the websockets do not meet but in the credentials, which
\* do not change, nor do the two streams: one of the three is busy at a time, and the
\* streams are, from one of the first states.  Once a master file was read the clock
\* stands: what becomes of a page that is asked for, its load finds out either way.
Apart ==
    LET used(t) == awaited[t] # "nothing" \/ SessionsOf(t) # {} IN
    /\ \E t \in Streams : ~used(t)
    /\ (\E t \in Streams : used(t)) =>
           /\ strict /\ cache = Token(0, 2, FALSE)
           /\ quota = MaxOperations /\ now = 0 /\ answer = [m \in Managers |-> Silent]
    /\ now # 0 => contracts = [c \in Codes |-> NoExpiry] /\ ~refused

Symmetric == Permutations(Readers)

MCFirstCaches == {Token(0, 2, FALSE), Token(0, 3, TRUE)}
=============================================================================
