--------------------------------- MODULE Calendar ---------------------------------
(***************************************************************************)
(* CalendarService: may an order be sent now, and if not, when is the next     *)
(* session?  (backend/data/calendar.py)                                        *)
(*                                                                             *)
(* The holidays of a year are loaded when a day of it is first asked for,      *)
(* outside the lock, from the exchange's calendar or, if that fails, from the  *)
(* static table, and for good.  One caller is followed; others load beside it. *)
(***************************************************************************)
EXTENDS Naturals

CONSTANTS
    ClOthers,       \* threads that load years beside the caller
    ClLast,         \* bound: the days are 0..ClLast, the last of them in the next year
    ClMayBefore,    \* ALLOW_PREMARKET_ORDERS
    ClMayAfter      \* ALLOW_AFTERHOURS_ORDERS

ASSUME ClAssumption == ClLast \in Nat \ {0} /\ {ClMayBefore, ClMayAfter} \subseteq BOOLEAN

VARIABLES
    clWorld,        \* the market, its true days, and the weekdays the static table lists as holidays
    clIndex,        \* _holiday_index: what is on record for a day
    clLoaded,       \* _loaded_years
    clFellBack,     \* years to which the static table has contributed
    clOther,        \* the loads under way in other threads
    clCall          \* the caller

clVars == <<clWorld, clIndex, clLoaded, clFellBack, clOther, clCall>>

ClDays == 0..ClLast
ClYears == {0, 1}
ClYear(d) == IF d = ClLast THEN 1 ELSE 0

\* Odd times are the borders of a day's sessions, even ones lie between them.
ClPre == 1
ClOpen == 3
ClEarly == 5
ClClose == 7
ClAfterEnd == 9
ClTimes == 0..10

\* Seasons matter to New York only: in summer it closes at 20:00 UTC.
ClMarkets == {"KRX", "summer", "winter"}
ClUS == clWorld.market # "KRX"

ClNone == [early |-> FALSE, full |-> FALSE, close |-> ClClose]
ClHoliday == [ClNone EXCEPT !.full = TRUE]
ClHalf(close) == [ClNone EXCEPT !.early = TRUE, !.close = close]

\* What the exchange's calendar says of a day; a US close before 20:30 UTC is
\* taken for an early one.
ClPrimary(d) ==
    CASE clWorld.day[d] = "closed" -> ClHoliday
      [] clWorld.day[d] = "half" -> ClHalf(ClEarly)
      [] clWorld.day[d] = "open" /\ clWorld.market = "summer" -> ClHalf(ClClose)
      [] OTHER -> ClNone

ClTable(d) == IF d \in clWorld.table THEN ClHoliday ELSE ClNone
ClSays(source, d) == IF source = "primary" THEN ClPrimary(d) ELSE ClTable(d)

ClIdle == [at |-> "idle", day |-> 0, time |-> 0, on |-> 0, goal |-> "permit", got |-> "none",
           h |-> ClNone, win |-> "none", close |-> 0, res |-> "none", next |-> 0]

ClInit ==
    /\ clWorld \in [market : ClMarkets, day : [ClDays -> {"open", "half", "closed", "weekend"}], table : SUBSET ClDays]
    /\ \A d \in ClDays : /\ clWorld.day[d] = "half" => ClUS
                         /\ clWorld.day[d] = "weekend" => d \notin clWorld.table
    /\ clIndex = [d \in ClDays |-> ClNone]
    /\ clLoaded = {} /\ clFellBack = {}
    /\ clOther = [t \in ClOthers |-> [got |-> "none", year |-> 0]]
    /\ clCall = ClIdle

(***************************************************************************)
(* _ensure_holidays_loaded.                                                    *)
(***************************************************************************)
ClAt(at) == clCall.at = at
ClGo(at) == clCall' = [clCall EXCEPT !.at = at]
ClReads == UNCHANGED <<clWorld, clIndex, clLoaded, clFellBack, clOther>>

\* What was on record for other days stays.
ClStore(source, year) ==
    /\ clIndex' = [d \in ClDays |-> IF ClYear(d) = year /\ ClSays(source, d) # ClNone THEN ClSays(source, d) ELSE clIndex[d]]
    /\ clLoaded' = clLoaded \cup {year}
    /\ clFellBack' = IF source = "table" THEN clFellBack \cup {year} ELSE clFellBack
    /\ UNCHANGED clWorld

ClOtherLoads(t) ==
    /\ clOther[t].got = "none"
    /\ \E year \in ClYears \ clLoaded, source \in {"primary", "table"} :
          clOther' = [clOther EXCEPT ![t] = [got |-> source, year |-> year]]
    /\ UNCHANGED <<clWorld, clIndex, clLoaded, clFellBack, clCall>>

ClOtherStores(t) ==
    /\ clOther[t].got # "none"
    /\ ClStore(clOther[t].got, clOther[t].year)
    /\ clOther' = [clOther EXCEPT ![t].got = "none"]
    /\ UNCHANGED clCall

\* The search for the next session passes over weekends.
ClPassesOver(d) == clCall.goal = "next" /\ clWorld.day[d] = "weekend"
ClIsLoaded == ClYear(clCall.on) \in clLoaded

ClFetch ==
    /\ ClAt("load") /\ ~ClIsLoaded /\ ~ClPassesOver(clCall.on)
    /\ \E source \in {"primary", "table"} : clCall' = [clCall EXCEPT !.at = "store", !.got = source]
    /\ ClReads

ClKeep ==
    /\ ClAt("store") /\ clCall' = [clCall EXCEPT !.at = "load", !.got = "none"]
    /\ ClStore(clCall.got, ClYear(clCall.on))
    /\ UNCHANGED clOther

(***************************************************************************)
(* check_order_permission.                                                     *)
(***************************************************************************)
ClBegin ==
    /\ ClAt("idle")
    /\ \E d \in ClDays : clCall' = [ClIdle EXCEPT !.at = "load", !.day = d, !.on = d]
    /\ ClReads

ClDenied(res) ==
    [clCall EXCEPT !.at = "load", !.res = res, !.on = clCall.day, !.goal = "next", !.h = ClNone, !.close = 0]

\* get_holiday: a holiday settles it.
ClRead ==
    /\ ClAt("load") /\ clCall.goal = "permit" /\ ClIsLoaded
    /\ \E time \in ClTimes :
          LET h == clIndex[clCall.day]
          IN clCall' = IF h.full THEN [ClDenied("denied") EXCEPT !.time = time]
                       ELSE [clCall EXCEPT !.at = "day", !.h = h, !.time = time]
    /\ ClReads

\* get_session: is_trading_day.
ClTrades(d) == clWorld.day[d] # "weekend" /\ ~clIndex[d].full

ClDay ==
    /\ ClAt("day") /\ ClReads
    /\ IF ClTrades(clCall.day) THEN ClGo("window") ELSE clCall' = ClDenied("denied")

\* get_session_window where it is a trading day: Korea by the index; New York asks the exchange's
\* calendar for the day, and goes by fixed times if it fails or has no session.
ClFixed(h) == IF ClUS THEN IF h.early THEN ClEarly ELSE ClClose ELSE h.close
ClTrueClose(d) == IF clWorld.day[d] = "half" THEN ClEarly ELSE ClClose
ClHasSession(d) == clWorld.day[d] \in {"open", "half"}

ClWindow ==
    /\ ClAt("window") /\ ClReads
    /\ \/ clCall' = [clCall EXCEPT !.at = "judge", !.win = "fixed", !.close = ClFixed(clIndex[clCall.day])]
       \/ /\ ClUS /\ ClHasSession(clCall.day)
          /\ clCall' = [clCall EXCEPT !.at = "judge", !.win = "exact", !.close = ClTrueClose(clCall.day)]

\* get_session: the borders.
ClRegularLater(c) == c.time >= ClOpen
ClRegular(c) == c.time >= ClOpen /\ c.time <= c.close
ClBefore(c) == c.time >= ClPre /\ c.time < ClOpen
ClAfter(c) == c.time > c.close /\ c.time < ClAfterEnd

\* A day on record as a half one has no session after its close.
ClMayStayLate(h) == ClMayAfter
ClMayStay(h) == ClMayAfter /\ ~h.early

ClJudge ==
    /\ ClAt("judge") /\ ClReads
    /\ clCall' =
         CASE ClRegular(clCall) -> [clCall EXCEPT !.at = "done", !.res = "regular"]
           [] ClBefore(clCall) /\ ClMayBefore -> [clCall EXCEPT !.at = "done", !.res = "before"]
           [] ClAfter(clCall) /\ ClMayStay(clCall.h) -> [clCall EXCEPT !.at = "done", !.res = "after"]
           [] OTHER -> ClDenied("denied")

\* next_session_open, a day at a time; 31 days without a session end it.
ClOpensAfterToday(on) == on > clCall.day
ClOpensAfter(on) == on > clCall.day \/ (on = clCall.day /\ clCall.time < ClOpen)

ClSearch ==
    /\ ClAt("load") /\ clCall.goal = "next" /\ ClReads
    /\ ClIsLoaded \/ ClPassesOver(clCall.on)
    /\ clCall' = IF ClTrades(clCall.on) /\ ClOpensAfter(clCall.on)
                 THEN [clCall EXCEPT !.at = "done", !.next = clCall.on]
                 ELSE IF clCall.on = ClLast THEN [clCall EXCEPT !.at = "done", !.next = ClLast + 1]
                 ELSE [clCall EXCEPT !.on = @ + 1]

ClReturn == ClAt("done") /\ clCall' = ClIdle /\ ClReads

ClNext ==
    \/ \E t \in ClOthers : ClOtherLoads(t) \/ ClOtherStores(t)
    \/ ClBegin \/ ClFetch \/ ClKeep \/ ClRead \/ ClDay \/ ClWindow \/ ClJudge \/ ClSearch \/ ClReturn

ClSpec == ClInit /\ [][ClNext]_clVars

(***************************************************************************)
(* Properties.                                                                 *)
(***************************************************************************)
ClTypeOK ==
    /\ clIndex \in [ClDays -> [early : BOOLEAN, full : BOOLEAN, close : {ClEarly, ClClose}]]
    /\ clLoaded \subseteq ClYears /\ clFellBack \subseteq clLoaded
    /\ clOther \in [ClOthers -> [got : {"none", "primary", "table"}, year : ClYears]]
    /\ clCall \in [at : {"idle", "load", "store", "day", "window", "judge", "done"}, day : ClDays, time : ClTimes,
                   on : ClDays, goal : {"permit", "next"}, got : {"none", "primary", "table"},
                   h : {ClNone, ClHoliday, ClHalf(ClEarly), ClHalf(ClClose)}, win : {"none", "fixed", "exact"},
                   close : {0, ClEarly, ClClose}, res : {"none", "denied", "regular", "before", "after"}, next : 0..(ClLast + 1)]

ClInSession(c) == ClHasSession(c.day) /\ c.time \in ClOpen..ClTrueClose(c.day)

\* Whatever other threads load meanwhile, an order passes as one of the regular
\* session in that session only, and as one before or after it on a trading day
\* outside it, half days' afternoons excepted, unless the static table was used.
ClOnlyInSession ==
    ClAt("done") /\ clCall.res # "denied" =>
        \/ ClYear(clCall.day) \in clFellBack
        \/ clCall.res = "regular" /\ ClInSession(clCall)
        \/ clCall.res = "before" /\ ClHasSession(clCall.day) /\ clCall.time < ClOpen
        \/ clCall.res = "after" /\ clWorld.day[clCall.day] = "open" /\ clCall.time > ClClose

\* In session, an order is turned away only by the static table, or on a summer
\* afternoon in New York, which counts as a half day's when the exchange's calendar
\* does not answer.
ClServed ==
    ClAt("done") /\ clCall.res = "denied" /\ ClInSession(clCall) =>
        \/ ClYear(clCall.day) \in clFellBack /\ clCall.day \in clWorld.table
        \/ clWorld.market = "summer" /\ clCall.win = "fixed" /\ clCall.time > ClEarly

\* Who is turned away is told the first session that opens later; the static table
\* may hide one or invent one.
ClNextTold ==
    ClAt("done") /\ clCall.res = "denied" =>
        /\ \A d \in clCall.day..(clCall.next - 1) : ClHasSession(d) =>
              \/ d = clCall.day /\ clCall.time >= ClOpen
              \/ ClYear(d) \in clFellBack /\ d \in clWorld.table
        /\ clCall.next = clCall.day => clCall.time < ClOpen
        /\ clCall.next \in ClDays /\ ~ClHasSession(clCall.next) => ClYear(clCall.next) \in clFellBack

ClInv == ClTypeOK /\ ClOnlyInSession /\ ClServed /\ ClNextTold
=============================================================================
