---------------------------- MODULE OptionMaster ----------------------------
\* The option contract master: the daily master file of the exchange is parsed
\* line by line, each contract's expiry is computed with the trading calendar
\* as it stands at that moment, and the result is kept twice - in a lookup of
\* expiries that every load overwrites, and in a registry of identities that
\* refuses to change.
EXTENDS KisHolidays, Sequences, SequencesExt

CONSTANTS Files,     \* the master files the exchange may publish
          MonthOf    \* name of a month |-> its first day

\* A line: the short code, the standard code (or NoCode), the strike, the
\* month, the week (0 when the name holds no weekly pattern) and whether the
\* name holds a monthly pattern.
NoCode == "no_code"

Lines == UNION {ToSet(file) : file \in Files}
Codes == {line.symbol : line \in Lines} \cup ({line.code : line \in Lines} \ {NoCode})

NoExpiry == 0

ASSUME OptionAssumption ==
    /\ NoExpiry \notin Days
    /\ \A file \in Files : file \in Seq(Lines)
    /\ MonthOf \in [DOMAIN MonthOf -> Days]
    /\ \A line \in Lines : /\ line.week \in 0 .. 5 /\ line.month \in DOMAIN MonthOf
                           /\ line.symbol # NoCode

VARIABLES contracts,   \* code |-> expiry of the lookup, NoExpiry if unknown
          identities,  \* code |-> the identity registered, or NoIdentity
          refused      \* _last_error is set

masterVars == <<contracts, identities, refused>>

NoIdentity == [code |-> NoCode, expiry |-> NoExpiry, strike |-> 0]

MasterInit ==
    /\ contracts = [c \in Codes |-> NoExpiry]
    /\ identities = [c \in Codes |-> NoIdentity]
    /\ refused = FALSE

-----------------------------------------------------------------------------
\* The nominal day of an expiry: the Thursday of the week named, or the second
\* one of the month, within the month.
FirstThursday(month) == MonthOf[month] + ((3 - WeekdayOf[MonthOf[month]]) % 7)

LastOfMonth(month) ==
    LET later == {m \in DOMAIN MonthOf : MonthOf[m] > MonthOf[month]}
    IN  IF later = {} THEN Max(Days) ELSE Min({MonthOf[m] : m \in later}) - 1

WeeklyDay(month, week) ==
    Min({FirstThursday(month) + 7 * (week - 1), LastOfMonth(month)})

MonthlyDay(month) == FirstThursday(month) + 7

NominalDays(line) ==
    (IF line.week = 0 THEN {} ELSE {WeeklyDay(line.month, line.week)})
      \cup (IF line.monthly THEN {MonthlyDay(line.month)} ELSE {})

\* The days of the model reach back to one before each on which the exchange
\* is open.
ASSUME ReachAssumption ==
    \A line \in Lines : \A day \in NominalDays(line) :
        \E x \in Days : x <= day /\ TradingDay(x, Official)

ComputedSlip(day) == IF CanWalk(day) /\ day \notin holidays THEN day
                     ELSE IF CanWalk(day) THEN day - 1 ELSE NoExpiry

\* Both walk back to a trading day; a calendar that cannot answer fails the
\* computation.
Computed(day) == IF CanWalk(day) THEN LatestTradingDay(day, holidays) ELSE NoExpiry

\* _calculate_expiry: a weekly computation that fails is forgotten, and the
\* name may still be read as a monthly one.
Expiry(line) ==
    LET weekly == IF line.week = 0 THEN NoExpiry
                                   ELSE Computed(WeeklyDay(line.month, line.week))
        monthly == IF line.monthly THEN Computed(MonthlyDay(line.month)) ELSE NoExpiry
    IN  IF weekly # NoExpiry THEN weekly ELSE monthly

Identity(line) ==
    [code |-> line.code, expiry |-> Expiry(line), strike |-> line.strike]

\* parse_kis_fo_idx_mst_result: a line without an expiry is passed over; two
\* lines that differ about one contract fail the whole file, and so does a file
\* that yields none.
Parse(file) ==
    [i \in {n \in DOMAIN file : Expiry(file[n]) # NoExpiry} |->
        [symbol |-> file[i].symbol, identity |-> Identity(file[i])]]

Contradictory(entries) ==
    \E i, j \in DOMAIN entries :
        entries[i].symbol = entries[j].symbol /\ entries[i].identity # entries[j].identity

Readable(entries) == entries # <<>> /\ ~Contradictory(entries)

\* Where the parsed file names a code; the last entry counts.
Naming(entries, code) ==
    {i \in DOMAIN entries : code \in {entries[i].symbol, entries[i].identity.code}}

\* _apply_parse_result: the lookup takes the whole file first; the identities
\* follow in the order of the file, up to one that contradicts its registration.
Looked(entries) ==
    [c \in Codes |-> IF Naming(entries, c) = {} THEN contracts[c]
                     ELSE entries[Max(Naming(entries, c))].identity.expiry]

Contradicted(entry) ==
    identities[entry.symbol] \notin {NoIdentity, entry.identity}

Accepted(entries) ==
    LET stops == {i \in DOMAIN entries : Contradicted(entries[i])}
    IN  Restrict(entries, {i \in DOMAIN entries : \A n \in stops : i < n})

Of(accepted, code) == {i \in DOMAIN accepted : accepted[i].symbol = code}

Registered(accepted) ==
    [c \in Codes |-> IF Of(accepted, c) = {} THEN identities[c]
                     ELSE accepted[CHOOSE i \in Of(accepted, c) : TRUE].identity]

\* load_from_kis_source, load_from_zip_bytes, load_from_raw_mst_content.
LoadMaster(file) ==
    /\ LET entries == Parse(file)
           accepted == Accepted(entries)
       IN  IF Readable(entries)
           THEN /\ contracts' = Looked(entries)
                /\ identities' = Registered(accepted)
                /\ refused' = (accepted # entries)
           ELSE /\ refused' = TRUE
                /\ UNCHANGED <<contracts, identities>>
    /\ UNCHANGED holidayVars

\* The download fails, or the archive holds no readable file.
LoadNothing ==
    /\ refused' = TRUE
    /\ UNCHANGED <<contracts, identities, holidayVars>>

-----------------------------------------------------------------------------
MasterTypeOK ==
    /\ contracts \in [Codes -> Days \cup {NoExpiry}]
    /\ \A c \in Codes :
        \/ identities[c] = NoIdentity
        \/ /\ identities[c].expiry \in Days
           /\ contracts[c] # NoExpiry
    /\ refused \in BOOLEAN

\* The expiry a contract truly has, by the exchange's own calendar.
NominalDay(line) == IF line.week = 0 THEN MonthlyDay(line.month)
                                     ELSE WeeklyDay(line.month, line.week)
OfficialExpiry == [line \in Lines |-> LatestTradingDay(NominalDay(line), Official)]

\* Whatever part of the calendar is loaded, and whichever order the loads of
\* the calendar and of the master come in, a contract is never taken to expire
\* before it does: what is not known of the calendar can only make an expiry
\* too late (option_master.py:71-127).
NeverExpiresEarly ==
    \A line \in Lines : contracts[line.symbol] # NoExpiry
        => contracts[line.symbol] >= OfficialExpiry[line]

\* The lookup may run ahead of the registry when a reload contradicts it, but
\* only towards the earlier day: the two disagree on a contract only because
\* holidays became known after its identity was registered
\* (option_master.py:347-350).
LookupNeverLater ==
    \A c \in Codes : identities[c] # NoIdentity
        => contracts[c] <= identities[c].expiry

\* The calendar is complete up to the nominal day of a line.
CompleteFor(line) ==
    loaded = Years /\ \A d \in Official : d <= NominalDay(line) => d \in holidays

\* An identity registered while the calendar was complete for it carries the
\* official expiry, whatever year its walk back reached into.
SoundWhenComplete ==
    [][\A line \in Lines :
         /\ CompleteFor(line)
         /\ identities[line.symbol] = NoIdentity
         /\ identities'[line.symbol] # NoIdentity
         => identities'[line.symbol].expiry = OfficialExpiry[line]]_masterVars

\* Incomplete knowledge of the calendar errs on one side only, and complete
\* knowledge does not err.
ExpiriesErrLate ==
    [](NeverExpiresEarly /\ LookupNeverLater) /\ SoundWhenComplete
=============================================================================
