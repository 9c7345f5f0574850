--------------------------- MODULE MarketServices ---------------------------
\* The services a strategy's instruments rest on, put together as
\* create_production_option_master does: the holiday provider asks the auth
\* manager of its process for a token with every page it loads, the calendar
\* asks the provider, and the option master asks the calendar.  Other processes
\* issue tokens and write the cache file meanwhile.  The websockets of the
\* process ask the auth manager for its credentials and nothing else.
EXTENDS OptionMaster, KisAuthentication, KisWebSockets

CONSTANT Own   \* the process the option master lives in

ASSUME ServicesAssumption == Own \in Managers

VARIABLE quota  \* bound: how many loads and token calls are left

CONSTANT MaxOperations

serviceVars == <<authVars, holidayVars, masterVars, quota>>
vars == <<serviceVars, socketVars>>

Init ==
    /\ AuthInit
    /\ HolidayInit
    /\ MasterInit
    /\ SocketInit
    /\ quota = MaxOperations

\* The process that loads its calendar does nothing else meanwhile.
Loading == load # Idle

CallToken(m, force) ==
    /\ quota > 0
    /\ m = Own => ~Loading
    /\ Ask(m, force)
    /\ quota' = quota - 1
    /\ UNCHANGED <<holidayVars, masterVars>>

\* load_from_kis_api refuses at once without credentials.
LoadCalendar(year) ==
    /\ quota > 0
    /\ saving[Own] = NoToken
    /\ IF Own \in Credentialed
       THEN Begin(year)
       ELSE load = Idle /\ error' = TRUE /\ UNCHANGED <<strict, holidays, loaded, load>>
    /\ quota' = quota - 1
    /\ UNCHANGED <<authVars, masterVars>>

\* get_auth_headers for the next page.
AskForPage ==
    /\ Loading /\ ~load.asked
    /\ Ask(Own, FALSE)
    /\ load' = [load EXCEPT !.asked = TRUE]
    /\ UNCHANGED <<strict, holidays, loaded, error, masterVars, quota>>

\* No token, no connection, an answer that is not JSON or not rt_cd 0.
PageFails ==
    /\ Loading /\ load.asked /\ saving[Own] = NoToken
    /\ GiveUp
    /\ UNCHANGED <<authVars, masterVars, quota>>

PageArrives ==
    /\ Loading /\ load.asked /\ answer[Own].how = "token"
    /\ TakePage
    /\ UNCHANGED <<authVars, masterVars, quota>>

SaveToken(m) == Save(m) /\ UNCHANGED <<holidayVars, masterVars, quota>>

\* Only another process is restarted: with its own process the whole model
\* starts over.
RestartOther(m) ==
    /\ m # Own
    /\ Restart(m)
    /\ UNCHANGED <<holidayVars, masterVars, quota>>

LoadContracts ==
    /\ quota > 0
    /\ ~Loading /\ saving[Own] = NoToken
    /\ LoadNothing \/ \E file \in Files : LoadMaster(file)
    /\ quota' = quota - 1
    /\ UNCHANGED authVars

Clock == TimePasses /\ UNCHANGED <<holidayVars, masterVars, quota>>

Services ==
    \/ \E m \in Managers, force \in BOOLEAN : CallToken(m, force)
    \/ \E m \in Managers : SaveToken(m) \/ RestartOther(m)
    \/ \E year \in Years : LoadCalendar(year)
    \/ AskForPage \/ PageArrives \/ PageFails
    \/ LoadContracts
    \/ Clock

Next ==
    \/ Services /\ UNCHANGED socketVars
    \/ SocketNext(Own \in Credentialed) /\ UNCHANGED serviceVars

Spec == Init /\ [][Next]_vars

TypeOK == AuthTypeOK /\ HolidayTypeOK /\ MasterTypeOK /\ SocketTypeOK
=============================================================================
