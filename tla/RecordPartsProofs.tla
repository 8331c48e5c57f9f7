---------------------------- MODULE RecordPartsProofs ----------------------------
(***************************************************************************)
(* Proofs about the parts that MCRecord puts beside the order's record.  A     *)
(* step of the whole is a step of one part and leaves the others as they are,  *)
(* so that what holds of each part by itself holds of every behaviour of the   *)
(* whole.                                                                      *)
(***************************************************************************)
EXTENDS MCRecord, OrderRecordProofs, Integers, FiniteSetTheorems, SequenceTheorems, NaturalsInduction,
        WellFoundedInduction, TLAPS

\* Every step of the whole is a step, or a stutter, of each of its parts.
LEMMA StepOfEach ==
    [RecordNext]_recordVars =>
        /\ [Next]_vars /\ [KcNext]_kcVars /\ [TkNext]_tkVars /\ [LmNext]_lmVars /\ [FxNext]_fxVars
        /\ [ClNext]_clVars /\ [OrNext]_orVars /\ [PbNext]_pbVars /\ [SoNext]_soVars /\ [LwNext]_lwVars
        /\ [QcNext]_qcVars
  BY DEF RecordNext, Alone, recordVars

\* The whole begins where each of its parts does.
LEMMA InitOfEach ==
    RecordInit => /\ Init /\ KcInit /\ TkInit /\ LmInit /\ FxInit /\ ClInit /\ OrInit /\ PbInit /\ SoInit
                  /\ LwInit /\ QcInit
  BY DEF RecordInit

-----------------------------------------------------------------------------
(* The calendar.                                                             *)

ClRecord == [early : BOOLEAN, full : BOOLEAN, close : {ClEarly, ClClose}]
ClWorldType ==
    [market : ClMarkets, day : [ClDays -> {"open", "half", "closed", "weekend"}], table : SUBSET ClDays]
ClSources == {"none", "primary", "table"}
ClCallType ==
    [at : {"idle", "load", "store", "day", "window", "judge", "done"}, day : ClDays, time : ClTimes,
     on : ClDays, goal : {"permit", "next"}, got : ClSources,
     h : {ClNone, ClHoliday, ClHalf(ClEarly), ClHalf(ClClose)}, win : {"none", "fixed", "exact"},
     close : {0, ClEarly, ClClose}, res : {"none", "denied", "regular", "before", "after"}, next : 0..(ClLast + 1)]
ClTyped ==
    /\ clWorld \in ClWorldType
    /\ \A d \in ClDays : clWorld.day[d] = "half" => ClUS
    /\ clIndex \in [ClDays -> {ClNone, ClHoliday, ClHalf(ClEarly), ClHalf(ClClose)}]
    /\ clLoaded \subseteq ClYears /\ clFellBack \subseteq clLoaded
    /\ clOther \in [ClOthers -> [got : ClSources, year : ClYears]]
    /\ clCall \in ClCallType /\ (clCall.at = "store" => clCall.got # "none")

\* What is on record for a day of a year: nothing until the year is loaded; what the
\* exchange's calendar says unless the static table was used; and a holiday that is none
\* comes from the table.
ClKnown(d) ==
    /\ ClYear(d) \notin clLoaded => clIndex[d] = ClNone
    /\ ClYear(d) \in clLoaded \ clFellBack => clIndex[d] = ClPrimary(d)
    /\ clIndex[d].full /\ clWorld.day[d] # "closed" => ClYear(d) \in clFellBack /\ d \in clWorld.table
    /\ clIndex[d].early => clIndex[d] = ClPrimary(d)

\* How far the caller has come, and on what ground.
ClByTable(d) == ClYear(d) \in clFellBack
ClClosing(c) ==
    \/ c.win = "exact" /\ ClHasSession(c.day) /\ c.close = ClTrueClose(c.day)
    \/ /\ c.win = "fixed" /\ c.close \in {ClEarly, ClClose}
       /\ c.close = ClEarly => ClPrimary(c.day).early
       /\ ClByTable(c.day) \/ c.close = ClFixed(ClPrimary(c.day))
ClOnGround(c) ==
    /\ c.at \in {"load", "store"} /\ c.goal = "permit" => c.res = "none" /\ c.on = c.day
    /\ c.at \in {"day", "window", "judge"} =>
          c.goal = "permit" /\ c.res = "none" /\ ClYear(c.day) \in clLoaded
          /\ (ClByTable(c.day) \/ (c.h = ClPrimary(c.day) /\ ~c.h.full))
    /\ c.at \in {"window", "judge"} =>
          clWorld.day[c.day] # "weekend" /\ (ClByTable(c.day) \/ ClHasSession(c.day))
    /\ c.at = "judge" => ClClosing(c)

\* Who was turned away was so for a reason, and the search for the next session
\* passed none.
ClTurnedAway(c) ==
    c.res = "denied" /\ ClInSession(c) =>
        \/ ClByTable(c.day) /\ c.day \in clWorld.table
        \/ clWorld.market = "summer" /\ c.win = "fixed" /\ c.time > ClEarly
ClPasses(c, d) ==
    ClHasSession(d) => \/ d = c.day /\ c.time >= ClOpen
                       \/ ClByTable(d) /\ d \in clWorld.table
ClPassed(c) ==
    c.goal = "next" =>
        /\ c.res = "denied" /\ c.day <= c.on
        /\ \A d \in c.day..(c.on - 1) : ClPasses(c, d)

ClInductive ==
    /\ ClTyped /\ \A d \in ClDays : ClKnown(d)
    /\ ClOnGround(clCall) /\ ClTurnedAway(clCall) /\ ClPassed(clCall)
    /\ ClOnlyInSession /\ ClNextTold

\* What the exchange's calendar says, and what it means.
LEMMA ClPrimaryIs ==
    ASSUME ClTyped, NEW d \in ClDays
    PROVE  /\ ClPrimary(d) \in {ClNone, ClHoliday, ClHalf(ClEarly), ClHalf(ClClose)}
           /\ ClPrimary(d).full <=> clWorld.day[d] = "closed"
           /\ ClPrimary(d).early <=> \/ clWorld.day[d] = "half"
                                     \/ clWorld.day[d] = "open" /\ clWorld.market = "summer"
           /\ ClPrimary(d).close = ClEarly <=> clWorld.day[d] = "half"
  <1>1. /\ ClNone.early = FALSE /\ ClNone.full = FALSE /\ ClNone.close = 7
        /\ ClHoliday.early = FALSE /\ ClHoliday.full = TRUE /\ ClHoliday.close = 7
        /\ ClHalf(5).early = TRUE /\ ClHalf(5).full = FALSE /\ ClHalf(5).close = 5
        /\ ClHalf(7).early = TRUE /\ ClHalf(7).full = FALSE /\ ClHalf(7).close = 7
    BY DEF ClNone, ClHoliday, ClHalf, ClClose
  <1>2. clWorld.day[d] \in {"open", "half", "closed", "weekend"}
    BY DEF ClTyped, ClWorldType
  <1>3. CASE clWorld.day[d] = "closed"
    <2>1. ClPrimary(d) = ClHoliday
      BY <1>3 DEF ClPrimary
    <2> QED BY <1>1, <1>3, <2>1 DEF ClEarly, ClClose
  <1>4. CASE clWorld.day[d] = "half"
    <2>1. ClPrimary(d) = ClHalf(5)
      BY <1>4 DEF ClPrimary, ClEarly
    <2> QED BY <1>1, <1>4, <2>1 DEF ClEarly, ClClose
  <1>5. CASE clWorld.day[d] = "open" /\ clWorld.market = "summer"
    <2>1. ClPrimary(d) = ClHalf(7)
      BY <1>5 DEF ClPrimary, ClClose
    <2> QED BY <1>1, <1>5, <2>1 DEF ClEarly, ClClose
  <1>6. CASE clWorld.day[d] = "weekend" \/ (clWorld.day[d] = "open" /\ clWorld.market # "summer")
    <2>1. ClPrimary(d) = ClNone
      BY <1>6 DEF ClPrimary
    <2> QED BY <1>1, <1>6, <2>1 DEF ClEarly, ClClose
  <1> QED BY <1>2, <1>3, <1>4, <1>5, <1>6

\* The records of a day.
LEMMA ClRecordIs ==
    \A h \in {ClNone, ClHoliday, ClHalf(ClEarly), ClHalf(ClClose)} :
        /\ h \in ClRecord
        /\ h.full <=> h = ClHoliday
        /\ h = ClNone <=> ~h.full /\ ~h.early
        /\ h.close = ClEarly => h.early /\ ~h.full
        /\ ~(h.full /\ h.early)
  <1>1. /\ ClNone.early = FALSE /\ ClNone.full = FALSE /\ ClNone.close = 7 /\ ClNone \in ClRecord
        /\ ClHoliday.early = FALSE /\ ClHoliday.full = TRUE /\ ClHoliday.close = 7 /\ ClHoliday \in ClRecord
        /\ ClHalf(5).early = TRUE /\ ClHalf(5).full = FALSE /\ ClHalf(5).close = 5 /\ ClHalf(5) \in ClRecord
        /\ ClHalf(7).early = TRUE /\ ClHalf(7).full = FALSE /\ ClHalf(7).close = 7 /\ ClHalf(7) \in ClRecord
    BY DEF ClNone, ClHoliday, ClHalf, ClEarly, ClClose, ClRecord
  <1>2. ClEarly = 5 /\ ClClose = 7
    BY DEF ClEarly, ClClose
  <1> QED BY <1>1, <1>2

\* A year of days comes in.
LEMMA ClStored ==
    ASSUME ClTyped, \A d \in ClDays : ClKnown(d),
           NEW source \in {"primary", "table"}, NEW year \in ClYears, ClStore(source, year)
    PROVE  /\ clIndex' \in [ClDays -> {ClNone, ClHoliday, ClHalf(ClEarly), ClHalf(ClClose)}]
           /\ clLoaded' \subseteq ClYears /\ clFellBack' \subseteq clLoaded'
           /\ clLoaded \subseteq clLoaded' /\ clFellBack \subseteq clFellBack' /\ clWorld' = clWorld
           /\ \A d \in ClDays : ClKnown(d)'
  <1> DEFINE new(d) == IF ClYear(d) = year /\ ClSays(source, d) # ClNone THEN ClSays(source, d) ELSE clIndex[d]
  <1>1. /\ clIndex' = [d \in ClDays |-> new(d)]
        /\ clLoaded' = clLoaded \cup {year}
        /\ clFellBack' = IF source = "table" THEN clFellBack \cup {year} ELSE clFellBack
        /\ clWorld' = clWorld
    BY DEF ClStore
  <1>2. ASSUME NEW d \in ClDays PROVE new(d) \in {ClNone, ClHoliday, ClHalf(ClEarly), ClHalf(ClClose)}
    <2>1. ClSays(source, d) \in {ClNone, ClHoliday, ClHalf(ClEarly), ClHalf(ClClose)}
      BY ClPrimaryIs DEF ClSays, ClTable
    <2> QED BY <2>1 DEF ClTyped
  <1>3. ASSUME NEW d \in ClDays PROVE ClKnown(d)'
    <2>1. clIndex'[d] = new(d) /\ ClPrimary(d)' = ClPrimary(d) /\ clWorld'.day = clWorld.day
          /\ clWorld'.table = clWorld.table
      BY <1>1 DEF ClPrimary
    <2>2. ClKnown(d)
      OBVIOUS
    <2>3. /\ clIndex[d] \in {ClNone, ClHoliday, ClHalf(ClEarly), ClHalf(ClClose)}
          /\ clFellBack \subseteq clLoaded
      BY DEF ClTyped
    <2> HIDE DEF new
    <2>4. CASE ClYear(d) # year
      <3>1. new(d) = clIndex[d]
        BY <2>4 DEF new
      <3>2. /\ ClYear(d) \in clLoaded' <=> ClYear(d) \in clLoaded
            /\ ClYear(d) \in clFellBack' <=> ClYear(d) \in clFellBack
        BY <1>1, <2>4
      <3> QED BY <2>1, <2>2, <3>1, <3>2 DEF ClKnown
    <2>5. CASE ClYear(d) = year /\ source = "primary"
      <3>1. new(d) = IF ClPrimary(d) # ClNone THEN ClPrimary(d) ELSE clIndex[d]
        BY <2>5 DEF new, ClSays
      <3>2. ClYear(d) \in clLoaded' /\ clFellBack' = clFellBack
        BY <1>1, <2>5
      <3> QED BY <2>1, <2>2, <2>3, <3>1, <3>2, ClPrimaryIs, ClRecordIs DEF ClKnown
    <2>6. CASE ClYear(d) = year /\ source = "table"
      <3>1. new(d) = IF d \in clWorld.table THEN ClHoliday ELSE clIndex[d]
        <4>1. ClHoliday # ClNone
          BY ClRecordIs
        <4> QED BY <2>6, <4>1 DEF new, ClSays, ClTable
      <3>2. ClYear(d) \in clLoaded' /\ ClYear(d) \in clFellBack'
        BY <1>1, <2>6
      <3> QED BY <2>1, <2>2, <2>3, <3>1, <3>2, ClRecordIs DEF ClKnown
    <2> QED BY <2>4, <2>5, <2>6
  <1>4. clFellBack' \subseteq clLoaded'
    BY <1>1 DEF ClTyped
  <1> QED BY <1>1, <1>2, <1>3, <1>4 DEF ClTyped

\* What was found of the caller's way stays true when more is loaded.
ClGrows ==
    clLoaded \subseteq clLoaded' /\ clFellBack \subseteq clFellBack' /\ clWorld' = clWorld
ClSameCall ==
    \/ clCall' = clCall
    \/ /\ clCall.at \in {"load", "store"}
       /\ \E at \in {"load", "store"}, got \in ClSources : clCall' = [clCall EXCEPT !.at = at, !.got = got]
ClFound ==
    ClOnGround(clCall) /\ ClTurnedAway(clCall) /\ ClPassed(clCall) /\ ClOnlyInSession /\ ClNextTold
\* What a step leaves alone of the calendar's record stays known.
LEMMA ClStands ==
    ASSUME ClTyped, ClFound, ClGrows, ClSameCall
    PROVE  ClFound'
  <1> DEFINE c == clCall
             e == clCall'
  <1>1. /\ e.day = c.day /\ e.time = c.time /\ e.on = c.on /\ e.goal = c.goal /\ e.h = c.h /\ e.win = c.win
        /\ e.close = c.close /\ e.res = c.res /\ e.next = c.next
        /\ e.at = c.at \/ (c.at \in {"load", "store"} /\ e.at \in {"load", "store"})
    BY DEF ClSameCall, ClTyped, ClCallType
  <1>2. /\ \A d : ClByTable(d) => ClByTable(d)'
        /\ \A d : ClHasSession(d)' = ClHasSession(d)
        /\ \A d : ClTrueClose(d)' = ClTrueClose(d)
        /\ \A d : ClPrimary(d)' = ClPrimary(d)
        /\ \A h : ClFixed(h)' = ClFixed(h)
        /\ ClYear(c.day) \in clLoaded => ClYear(c.day) \in clLoaded'
    BY DEF ClGrows, ClByTable, ClHasSession, ClTrueClose, ClPrimary, ClFixed, ClUS
  <1>3. clWorld' = clWorld
    BY DEF ClGrows

  <1>4. ClClosing(c) => ClClosing(clCall)'
    BY <1>1, <1>2 DEF ClClosing
  <1>5. ClOnGround(c) => ClOnGround(clCall)'
    BY <1>1, <1>2, <1>3, <1>4 DEF ClOnGround
  <1>6. ClInSession(c) = ClInSession(clCall)'
    BY <1>1, <1>2 DEF ClInSession
  <1>7. ClTurnedAway(c) => ClTurnedAway(clCall)'
    BY <1>1, <1>2, <1>3, <1>6 DEF ClTurnedAway
  <1>8. \A d : ClPasses(c, d) => ClPasses(clCall, d)'
    BY <1>1, <1>2, <1>3 DEF ClPasses
  <1>9. ClPassed(c) => ClPassed(clCall)'
    BY <1>1, <1>8 DEF ClPassed
  <1>10. ClOnlyInSession'
    <2>1. SUFFICES ASSUME e.at = "done", e.res # "denied"
                   PROVE  ClOnlyInSession'
      BY DEF ClOnlyInSession, ClAt
    <2>2. c.at = "done" /\ c.res # "denied"
      BY <1>1, <2>1
    <2> QED BY <1>1, <1>2, <1>3, <1>6, <2>2 DEF ClOnlyInSession, ClAt, ClFound, ClByTable
  <1>11. ClNextTold'
    <2>1. SUFFICES ASSUME e.at = "done", e.res = "denied"
                   PROVE  ClNextTold'
      BY DEF ClNextTold, ClAt
    <2>2. c.at = "done" /\ c.res = "denied"
      BY <1>1, <2>1
    <2> QED BY <1>1, <1>2, <1>3, <2>2 DEF ClNextTold, ClAt, ClFound, ClByTable
  <1> QED BY <1>5, <1>7, <1>9, <1>10, <1>11 DEF ClFound

\* Loading beside the caller, and its own.
LEMMA ClLoads ==
    ASSUME ClInductive, \/ \E t \in ClOthers : ClOtherLoads(t) \/ ClOtherStores(t)
                        \/ ClFetch \/ ClKeep \/ UNCHANGED clVars
    PROVE  ClInductive'
  <1> USE DEF ClInductive
  <1>1. ASSUME ClTyped', ClGrows, ClSameCall, \A d \in ClDays : ClKnown(d)' PROVE ClInductive'
    BY <1>1, ClStands DEF ClFound
  <1>2. ASSUME UNCHANGED <<clWorld, clIndex, clLoaded, clFellBack>>
        PROVE  ClGrows /\ \A d \in ClDays : ClKnown(d)'
    BY <1>2 DEF ClGrows, ClKnown, ClPrimary
  <1>3. ASSUME NEW t \in ClOthers, ClOtherLoads(t) PROVE ClInductive'
    <2>1. ClTyped'
      BY <1>3 DEF ClOtherLoads, ClTyped, ClSources, ClUS, ClYears
    <2> QED BY <1>1, <1>2, <1>3, <2>1 DEF ClOtherLoads, ClSameCall
  <1>4. ASSUME NEW t \in ClOthers, ClOtherStores(t) PROVE ClInductive'
    <2>1. clOther[t].got \in {"primary", "table"} /\ clOther[t].year \in ClYears
      BY <1>4 DEF ClOtherStores, ClTyped, ClSources
    <2>2. ClStore(clOther[t].got, clOther[t].year) /\ clCall' = clCall
          /\ clOther' = [clOther EXCEPT ![t].got = "none"]
      BY <1>4 DEF ClOtherStores
    <2>3. /\ clIndex' \in [ClDays -> {ClNone, ClHoliday, ClHalf(ClEarly), ClHalf(ClClose)}]
          /\ clLoaded' \subseteq ClYears /\ clFellBack' \subseteq clLoaded'
          /\ ClGrows /\ \A d \in ClDays : ClKnown(d)'
      BY <2>1, <2>2, ClStored DEF ClGrows
    <2>4. ClTyped'
      BY <2>2, <2>3 DEF ClTyped, ClGrows, ClUS, ClSources
    <2> QED BY <1>1, <2>2, <2>3, <2>4 DEF ClSameCall
  <1>5. ASSUME ClFetch PROVE ClInductive'
    <2>1. PICK source \in {"primary", "table"} : clCall' = [clCall EXCEPT !.at = "store", !.got = source]
      BY <1>5 DEF ClFetch
    <2>2. ClSameCall
      BY <1>5, <2>1 DEF ClSameCall, ClFetch, ClAt, ClSources
    <2>3. clCall' \in ClCallType /\ clCall'.got # "none"
      BY <2>1 DEF ClTyped, ClCallType, ClSources
    <2>4. ClTyped'
      BY <1>5, <2>3 DEF ClFetch, ClReads, ClTyped, ClUS
    <2> QED BY <1>1, <1>2, <1>5, <2>2, <2>4 DEF ClFetch, ClReads
  <1>6. ASSUME ClKeep PROVE ClInductive'
    <2>1. clCall.got \in {"primary", "table"} /\ ClYear(clCall.on) \in ClYears
      BY <1>6 DEF ClKeep, ClAt, ClTyped, ClCallType, ClSources, ClYear, ClYears
    <2>2. ClStore(clCall.got, ClYear(clCall.on)) /\ clOther' = clOther
          /\ clCall' = [clCall EXCEPT !.at = "load", !.got = "none"]
      BY <1>6 DEF ClKeep
    <2>3. /\ clIndex' \in [ClDays -> {ClNone, ClHoliday, ClHalf(ClEarly), ClHalf(ClClose)}]
          /\ clLoaded' \subseteq ClYears /\ clFellBack' \subseteq clLoaded'
          /\ ClGrows /\ \A d \in ClDays : ClKnown(d)'
      BY <2>1, <2>2, ClStored DEF ClGrows
    <2>4. clCall' \in ClCallType /\ clCall'.at = "load"
      BY <2>2 DEF ClTyped, ClCallType, ClSources
    <2>5. ClTyped'
      BY <2>2, <2>3, <2>4 DEF ClTyped, ClGrows, ClUS
    <2>6. ClSameCall
      BY <1>6, <2>2 DEF ClSameCall, ClKeep, ClAt, ClSources
    <2> QED BY <1>1, <2>3, <2>5, <2>6
  <1>7. ASSUME UNCHANGED clVars PROVE ClInductive'
    <2>1. ClTyped'
      BY <1>7 DEF clVars, ClTyped, ClUS
    <2> QED BY <1>1, <1>2, <1>7, <2>1 DEF clVars, ClSameCall
  <1> QED BY <1>3, <1>4, <1>5, <1>6, <1>7

\* A step of the caller's own leaves what is loaded as it is.
LEMMA ClReading ==
    ASSUME ClInductive, ClReads, clCall' \in ClCallType, clCall'.at # "store"
    PROVE  /\ ClTyped' /\ \A d \in ClDays : ClKnown(d)'
           /\ \A d : ClByTable(d)' = ClByTable(d) /\ ClHasSession(d)' = ClHasSession(d)
                     /\ ClTrueClose(d)' = ClTrueClose(d) /\ ClPrimary(d)' = ClPrimary(d)
           /\ \A h : ClFixed(h)' = ClFixed(h)
           /\ clLoaded' = clLoaded /\ clWorld' = clWorld /\ clFellBack' = clFellBack
  BY DEF ClInductive, ClReads, ClTyped, ClUS, ClKnown, ClByTable, ClHasSession, ClTrueClose,
     ClPrimary, ClFixed

\* The caller turned away: its search begins on the day it asked for.
LEMMA ClDenies ==
    ASSUME ClInductive, ClReads, NEW time \in ClTimes, clCall.at # "store",
           clCall' = [ClDenied("denied") EXCEPT !.time = time],
           ClHasSession(clCall.day) /\ time \in ClOpen..ClTrueClose(clCall.day) =>
              \/ ClByTable(clCall.day) /\ clCall.day \in clWorld.table
              \/ clWorld.market = "summer" /\ clCall.win = "fixed" /\ time > ClEarly
    PROVE  ClInductive'
  <1> DEFINE c == clCall
             e == clCall'
  <1>1. c \in ClCallType /\ c.day \in Int
    BY DEF ClInductive, ClTyped, ClCallType, ClDays
  <1>2. /\ e \in ClCallType
        /\ e.at = "load" /\ e.goal = "next" /\ e.res = "denied" /\ e.on = c.day /\ e.day = c.day
        /\ e.time = time /\ e.win = c.win
    BY <1>1 DEF ClDenied, ClCallType
  <1>3. /\ ClTyped' /\ \A d \in ClDays : ClKnown(d)'
        /\ \A d : ClByTable(d)' = ClByTable(d) /\ ClHasSession(d)' = ClHasSession(d)
                     /\ ClTrueClose(d)' = ClTrueClose(d)
        /\ clWorld' = clWorld
    BY <1>2, ClReading

  <1>4. ClOnGround(clCall)'
    BY <1>2 DEF ClOnGround
  <1>5. ClTurnedAway(clCall)'
    BY <1>2, <1>3 DEF ClTurnedAway, ClInSession
  <1>6. ClPassed(clCall)'
    BY <1>1, <1>2 DEF ClPassed
  <1>7. ClOnlyInSession' /\ ClNextTold'
    BY <1>2 DEF ClOnlyInSession, ClNextTold, ClAt
  <1> QED BY <1>3, <1>4, <1>5, <1>6, <1>7 DEF ClInductive

\* The caller's own steps up to the window of the day.
LEMMA ClEnters ==
    ASSUME ClInductive, ClBegin \/ ClRead \/ ClDay \/ ClWindow \/ ClReturn
    PROVE  ClInductive'
  <1> DEFINE c == clCall
             e == clCall'
             h == clIndex[clCall.day]
  <1>0. /\ c \in ClCallType /\ c.day \in ClDays
        /\ h \in {ClNone, ClHoliday, ClHalf(ClEarly), ClHalf(ClClose)}
        /\ ClKnown(c.day) /\ ClReads
        /\ clWorld.day[c.day] \in {"open", "half", "closed", "weekend"}
    BY DEF ClInductive, ClTyped, ClCallType, ClWorldType, ClBegin, ClRead, ClDay, ClWindow,
       ClReturn
  <1>a. ASSUME e \in ClCallType, e.at \notin {"store", "done"}, e.goal = "permit", e.res = "none", ClOnGround(clCall)'
        PROVE  ClInductive'
    <2>1. ClTyped' /\ \A d \in ClDays : ClKnown(d)'
      BY <1>0, <1>a, ClReading
    <2>2. ClTurnedAway(clCall)' /\ ClPassed(clCall)' /\ ClOnlyInSession' /\ ClNextTold'
      BY <1>a DEF ClTurnedAway, ClPassed, ClOnlyInSession, ClNextTold, ClAt
    <2> QED BY <1>a, <2>1, <2>2 DEF ClInductive
  <1>1. CASE ClBegin
    <2>1. PICK d \in ClDays : e = [ClIdle EXCEPT !.at = "load", !.day = d, !.on = d]
      BY <1>1 DEF ClBegin
    <2>2. e = [at |-> "load", day |-> d, time |-> 0, on |-> d, goal |-> "permit", got |-> "none",
               h |-> ClNone, win |-> "none", close |-> 0, res |-> "none", next |-> 0]
      BY <2>1 DEF ClIdle
    <2>3. /\ e \in ClCallType /\ e.at = "load" /\ e.goal = "permit" /\ e.res = "none" /\ e.on = e.day
      BY <2>2, ClAssumption DEF ClCallType, ClSources, ClTimes
    <2> QED BY <1>a, <2>3 DEF ClOnGround
  <1>2. CASE ClReturn
    <2>1. e \in ClCallType /\ e.at = "idle" /\ e.goal = "permit" /\ e.res = "none"
      BY <1>2, ClAssumption DEF ClReturn, ClIdle, ClCallType, ClSources, ClTimes, ClDays
    <2> QED BY <1>a, <2>1 DEF ClOnGround
  <1>3. CASE ClRead
    <2>1. PICK time \in ClTimes :
            e = IF h.full THEN [ClDenied("denied") EXCEPT !.time = time]
                ELSE [c EXCEPT !.at = "day", !.h = h, !.time = time]
      BY <1>3 DEF ClRead
    <2>2. c.at = "load" /\ c.goal = "permit" /\ ClIsLoaded
      BY <1>3 DEF ClRead, ClAt
    <2>3. CASE h.full
      <3>1. ClHasSession(c.day) => ClByTable(c.day) /\ c.day \in clWorld.table
        BY <1>0, <2>3 DEF ClKnown, ClHasSession, ClByTable
      <3> QED BY <1>0, <2>1, <2>2, <2>3, <3>1, ClDenies
    <2>4. CASE ~h.full
      <3>1. e \in ClCallType /\ e.at = "day" /\ e.goal = "permit" /\ e.h = h /\ e.day = c.day
        BY <1>0, <2>1, <2>2, <2>4 DEF ClCallType
      <3>2. e.res = "none" /\ ClYear(c.day) \in clLoaded
        BY <1>0, <2>1, <2>2, <2>4 DEF ClInductive, ClOnGround, ClCallType, ClIsLoaded
      <3>3. ClByTable(c.day) \/ h = ClPrimary(c.day)
        BY <1>0, <3>2 DEF ClKnown, ClByTable
      <3>4. ClOnGround(clCall)'
        BY <1>0, <2>4, <3>1, <3>2, <3>3, ClReading DEF ClOnGround
      <3> QED BY <1>a, <3>1, <3>2, <3>4
    <2> QED BY <2>3, <2>4
  <1>4. CASE ClDay
    <2>1. c.at = "day" /\ ClOnGround(c) /\ ClYear(c.day) \in clLoaded /\ c.goal = "permit" /\ c.res = "none"
      BY <1>4 DEF ClDay, ClAt, ClInductive, ClOnGround
    <2>2. CASE ClTrades(c.day)
      <3>1. e = [c EXCEPT !.at = "window"]
        BY <1>4, <2>2 DEF ClDay, ClGo
      <3>2. /\ e \in ClCallType /\ e.at = "window" /\ e.goal = "permit" /\ e.res = "none"
            /\ e.day = c.day /\ e.h = c.h
        BY <1>0, <2>1, <3>1 DEF ClCallType
      <3>3. clWorld.day[c.day] # "weekend" /\ (ClByTable(c.day) \/ ClHasSession(c.day))
        <4>1. ClTyped
          BY DEF ClInductive
        <4> QED BY <1>0, <2>1, <2>2, <4>1, ClPrimaryIs DEF ClTrades, ClOnGround, ClHasSession
      <3>4. ClOnGround(clCall)'
        BY <1>0, <2>1, <3>2, <3>3, ClReading DEF ClOnGround
      <3> QED BY <1>a, <3>2, <3>4
    <2>3. CASE ~ClTrades(c.day)
      <3>1. e = [ClDenied("denied") EXCEPT !.time = c.time]
        BY <1>0, <1>4, <2>3 DEF ClDay, ClDenied, ClCallType
      <3>2. ClHasSession(c.day) => ClByTable(c.day) /\ c.day \in clWorld.table
        BY <1>0, <2>3 DEF ClTrades, ClKnown, ClHasSession, ClByTable
      <3>3. c.time \in ClTimes
        BY <1>0 DEF ClCallType
      <3> QED BY <1>0, <2>1, <3>1, <3>2, <3>3, ClDenies
    <2> QED BY <2>2, <2>3
  <1>5. CASE ClWindow
    <2>1. /\ c.at = "window" /\ ClOnGround(c) /\ ClYear(c.day) \in clLoaded /\ c.goal = "permit" /\ c.res = "none"
          /\ ClTyped
      BY <1>5 DEF ClWindow, ClAt, ClInductive, ClOnGround
    <2>2. PICK win \in {"fixed", "exact"}, close \in {ClEarly, ClClose} :
            /\ e = [c EXCEPT !.at = "judge", !.win = win, !.close = close]
            /\ \/ win = "fixed" /\ close = ClFixed(h)
               \/ win = "exact" /\ ClHasSession(c.day) /\ close = ClTrueClose(c.day)
      <3>1. ClFixed(h) \in {ClEarly, ClClose} /\ ClTrueClose(c.day) \in {ClEarly, ClClose}
        BY <1>0, ClRecordIs DEF ClFixed, ClTrueClose, ClRecord
      <3> QED BY <1>5, <3>1 DEF ClWindow
    <2>3. /\ e \in ClCallType /\ e.at = "judge" /\ e.goal = "permit" /\ e.res = "none"
          /\ e.day = c.day /\ e.h = c.h /\ e.win = win /\ e.close = close
      BY <1>0, <2>1, <2>2 DEF ClCallType
    <2>4. ClClosing(e)
      <3>1. CASE win = "exact"
        BY <2>2, <2>3, <3>1 DEF ClClosing
      <3>2. CASE win = "fixed"
        <4>1. close = ClEarly => h.early
          BY <1>0, <2>2, <3>2, ClRecordIs DEF ClFixed, ClEarly, ClClose
        <4>2. h.early => h = ClPrimary(c.day)
          BY <1>0 DEF ClKnown
        <4>3. ClByTable(c.day) \/ h = ClPrimary(c.day)
          BY <1>0, <2>1 DEF ClKnown, ClByTable
        <4> QED BY <2>2, <2>3, <3>2, <4>1, <4>2, <4>3 DEF ClClosing
      <3> QED BY <3>1, <3>2
    <2>5. ClClosing(clCall)'
      BY <1>0, <2>3, <2>4, ClReading DEF ClClosing
    <2>6. ClOnGround(clCall)'
      BY <1>0, <2>1, <2>3, <2>5, ClReading DEF ClOnGround
    <2> QED BY <1>a, <2>3, <2>6
  <1> QED BY <1>1, <1>2, <1>3, <1>4, <1>5

\* The verdict.
LEMMA ClJudges ==
    ASSUME ClInductive, ClJudge
    PROVE  ClInductive'
  <1> DEFINE c == clCall
             e == clCall'
             day == clWorld.day[clCall.day]
             primary == ClPrimary(clCall.day)
  <1>1. /\ c \in ClCallType /\ c.day \in ClDays /\ c.at = "judge" /\ ClReads /\ ClTyped
        /\ ClOnGround(c) /\ ClClosing(c) /\ c.goal = "permit" /\ c.res = "none" /\ day # "weekend"
    BY DEF ClInductive, ClTyped, ClCallType, ClJudge, ClAt, ClOnGround
  <1>2. /\ primary.early <=> day = "half" \/ (day = "open" /\ clWorld.market = "summer")
        /\ primary.close = ClEarly <=> day = "half"
        /\ primary \in {ClNone, ClHoliday, ClHalf(ClEarly), ClHalf(ClClose)}
        /\ primary.close \in {ClEarly, ClClose}
        /\ day = "half" => ClUS
        /\ clWorld.market = "summer" => ClUS
        /\ clWorld.market \in ClMarkets /\ day \in {"open", "half", "closed", "weekend"}
    BY <1>1, ClPrimaryIs, ClRecordIs DEF ClTyped, ClWorldType, ClRecord, ClUS
  <1>3. c.close \in {5, 7} /\ c.time \in 0..10
    BY <1>1 DEF ClClosing, ClTrueClose, ClEarly, ClClose, ClCallType, ClTimes
  <1>4. \/ /\ ClRegular(c) /\ e = [c EXCEPT !.at = "done", !.res = "regular"]
        \/ /\ ClBefore(c) /\ e = [c EXCEPT !.at = "done", !.res = "before"]
        \/ /\ ClAfter(c) /\ ClMayStay(c.h) /\ e = [c EXCEPT !.at = "done", !.res = "after"]
        \/ /\ ~ClRegular(c) /\ e = ClDenied("denied")
    BY DEF ClJudge
  <1> HIDE DEF primary, day
  <1>5. ASSUME NEW res \in {"regular", "before", "after"}, e = [c EXCEPT !.at = "done", !.res = res],
               \/ ClByTable(c.day)
               \/ res = "regular" /\ ClInSession(c)
               \/ res = "before" /\ ClHasSession(c.day) /\ c.time < ClOpen
               \/ res = "after" /\ day = "open" /\ c.time > ClClose
        PROVE  ClInductive'
    <2>1. /\ e \in ClCallType /\ e.at = "done" /\ e.goal = "permit" /\ e.res = res
          /\ e.day = c.day /\ e.time = c.time
      BY <1>1, <1>5 DEF ClCallType
    <2>2. /\ ClTyped' /\ \A d \in ClDays : ClKnown(d)'
          /\ \A d : ClByTable(d)' = ClByTable(d) /\ ClHasSession(d)' = ClHasSession(d)
                     /\ ClTrueClose(d)' = ClTrueClose(d)
          /\ clWorld' = clWorld /\ clFellBack' = clFellBack
      BY <1>1, <2>1, ClReading
    <2>3. ClOnGround(clCall)' /\ ClTurnedAway(clCall)' /\ ClPassed(clCall)' /\ ClNextTold'
      BY <2>1 DEF ClOnGround, ClTurnedAway, ClPassed, ClNextTold, ClAt
    <2>4. ClInSession(c) => ClInSession(clCall)'
      BY <2>1, <2>2 DEF ClInSession
    <2>5. ClOnlyInSession'
      BY <1>5, <2>1, <2>2, <2>4 DEF ClOnlyInSession, ClByTable, day
    <2> QED BY <2>2, <2>3, <2>5 DEF ClInductive
  <1>6. CASE ClRegular(c) /\ e = [c EXCEPT !.at = "done", !.res = "regular"]
    <2>1. ClByTable(c.day) \/ ClInSession(c)
      <3>1. ClByTable(c.day) \/ (ClHasSession(c.day) /\ c.close <= ClTrueClose(c.day))
        BY <1>1, <1>2, <1>3 DEF ClOnGround, ClClosing, ClFixed, ClTrueClose, ClHasSession,
           ClEarly, ClClose, day, primary
      <3> QED BY <1>3, <1>6, <3>1 DEF ClRegular, ClInSession, ClOpen, ClTrueClose, ClEarly,
                 ClClose
    <2> QED BY <1>5, <1>6, <2>1
  <1>7. CASE ClBefore(c) /\ e = [c EXCEPT !.at = "done", !.res = "before"]
    BY <1>1, <1>5, <1>7 DEF ClOnGround, ClBefore
  <1>8. CASE ClAfter(c) /\ ClMayStay(c.h) /\ e = [c EXCEPT !.at = "done", !.res = "after"]
    <2>1. ClByTable(c.day) \/ (day = "open" /\ c.time > ClClose)
      <3>1. SUFFICES ASSUME ~ClByTable(c.day) PROVE day = "open" /\ c.time > ClClose
        OBVIOUS
      <3>2. c.h = primary /\ ~primary.early /\ day = "open"
        BY <1>1, <1>2, <1>8, <3>1 DEF ClOnGround, ClMayStay, ClHasSession, day, primary
      <3>3. c.close = ClClose
        BY <1>1, <1>2, <3>1, <3>2 DEF ClClosing, ClFixed, ClTrueClose, ClEarly, ClClose, day,
           primary
      <3> QED BY <1>8, <3>2, <3>3 DEF ClAfter
    <2> QED BY <1>5, <1>8, <2>1
  <1>9. CASE ~ClRegular(c) /\ e = ClDenied("denied")
    <2>1. e = [ClDenied("denied") EXCEPT !.time = c.time] /\ c.time \in ClTimes /\ c.at # "store"
      BY <1>1, <1>9 DEF ClDenied, ClCallType
    <2>2. ASSUME ClHasSession(c.day), c.time \in ClOpen..ClTrueClose(c.day)
          PROVE  clWorld.market = "summer" /\ c.win = "fixed" /\ c.time > ClEarly
      <3>1. c.time > c.close /\ c.time >= 3
        BY <1>3, <1>9, <2>2 DEF ClRegular, ClOpen, ClTrueClose, ClEarly, ClClose
      <3>2. c.close = 5 /\ ClTrueClose(c.day) = 7 /\ c.win = "fixed" /\ day # "half"
        BY <1>1, <1>3, <2>2, <3>1 DEF ClClosing, ClTrueClose, ClOpen, ClEarly, ClClose, day
      <3>3. primary.early
        BY <1>1, <3>2 DEF ClClosing, ClEarly, ClClose, ClTrueClose, primary
      <3> QED BY <1>2, <3>1, <3>2, <3>3 DEF ClEarly
    <2> QED BY <1>1, <2>1, <2>2, ClDenies
  <1> QED BY <1>4, <1>6, <1>7, <1>8, <1>9

\* The search for the next session.
LEMMA ClSearches ==
    ASSUME ClInductive, ClSearch
    PROVE  ClInductive'
  <1> DEFINE c == clCall
             e == clCall'
             found == ClTrades(clCall.on) /\ ClOpensAfter(clCall.on)
  <1>1. /\ c \in ClCallType /\ c.day \in ClDays /\ c.on \in ClDays /\ ClReads /\ ClTyped /\ ClKnown(c.on)
        /\ c.at = "load" /\ c.goal = "next" /\ ClTurnedAway(c) /\ ClPassed(c)
        /\ ClIsLoaded \/ ClPassesOver(c.on)
        /\ clWorld.day[c.on] \in {"open", "half", "closed", "weekend"}
    BY DEF ClInductive, ClTyped, ClCallType, ClSearch, ClAt, ClWorldType
  <1>2. ClLast \in Nat /\ ClDays = 0..ClLast
    BY ClAssumption DEF ClDays
  <1>3. /\ c.res = "denied" /\ c.day <= c.on
        /\ \A d \in c.day..(c.on - 1) : ClPasses(c, d)
    BY <1>1 DEF ClPassed
  <1>4. ~found => ClPasses(c, c.on)
    <2>1. SUFFICES ASSUME ~found, ClHasSession(c.on)
                   PROVE  (c.on = c.day /\ c.time >= ClOpen) \/ (ClByTable(c.on) /\ c.on \in clWorld.table)
      BY DEF ClPasses
    <2>2. CASE ClTrades(c.on)
      <3>1. c.time \in Int /\ ClOpen = 3
        BY <1>1 DEF ClCallType, ClTimes, ClOpen
      <3> QED BY <1>1, <1>2, <1>3, <2>1, <2>2, <3>1 DEF ClOpensAfter
    <2>3. CASE ~ClTrades(c.on)
      BY <1>1, <2>1, <2>3 DEF ClTrades, ClHasSession, ClKnown, ClByTable
    <2> QED BY <2>2, <2>3
  <1>5. found => clWorld.day[c.on] # "weekend" /\ (ClByTable(c.on) \/ ClHasSession(c.on))
    <2>1. SUFFICES ASSUME found, ~ClByTable(c.on) PROVE clWorld.day[c.on] # "weekend" /\ ClHasSession(c.on)
      BY DEF ClTrades
    <2>2. clIndex[c.on] = ClPrimary(c.on)
      BY <1>1, <2>1 DEF ClTrades, ClPassesOver, ClIsLoaded, ClKnown, ClByTable
    <2> QED BY <1>1, <2>1, <2>2, ClPrimaryIs DEF ClTrades, ClHasSession
  <1>6. \/ found /\ e = [c EXCEPT !.at = "done", !.next = c.on]
        \/ ~found /\ c.on = ClLast /\ e = [c EXCEPT !.at = "done", !.next = ClLast + 1]
        \/ ~found /\ c.on # ClLast /\ e = [c EXCEPT !.on = c.on + 1]
    BY DEF ClSearch
  <1> HIDE DEF found
  <1>7. /\ e \in ClCallType /\ e.at \in {"load", "done"} /\ e.goal = "next" /\ e.res = "denied"
        /\ e.day = c.day /\ e.time = c.time /\ e.win = c.win
        /\ e.on \in {c.on, c.on + 1} /\ (e.on = c.on + 1 => ~found)
    <2>1. c \in ClCallType /\ c.on \in 0..ClLast /\ c.at = "load" /\ c.goal = "next" /\ c.res = "denied"
      BY <1>1, <1>2, <1>3
    <2>2. CASE found /\ e = [c EXCEPT !.at = "done", !.next = c.on]
      <3>1. c.on \in 0..(ClLast + 1) /\ c.on # c.on + 1
        BY <1>2, <2>1
      <3> QED BY ONLY <2>1, <2>2, <3>1 DEF ClCallType
    <2>3. CASE ~found /\ e = [c EXCEPT !.at = "done", !.next = ClLast + 1]
      <3>1. ClLast + 1 \in 0..(ClLast + 1)
        BY <1>2
      <3> QED BY ONLY <2>1, <2>3, <3>1 DEF ClCallType
    <2>4. CASE ~found /\ c.on # ClLast /\ e = [c EXCEPT !.on = c.on + 1]
      <3>1. c.on + 1 \in ClDays
        BY <1>2, <2>1, <2>4
      <3> QED BY ONLY <2>1, <2>4, <3>1 DEF ClCallType
    <2> QED BY <1>6, <2>2, <2>3, <2>4
  <1>8. /\ ClTyped' /\ \A d \in ClDays : ClKnown(d)'
        /\ \A d : ClByTable(d)' = ClByTable(d) /\ ClHasSession(d)' = ClHasSession(d)
                     /\ ClTrueClose(d)' = ClTrueClose(d)
        /\ clWorld' = clWorld /\ clFellBack' = clFellBack
    BY <1>1, <1>7, ClReading
  <1>9. ClOnGround(clCall)'
    BY <1>7 DEF ClOnGround
  <1>10. ClTurnedAway(clCall)'
    <2>1. ClInSession(clCall)' <=> ClInSession(c)
      BY <1>7, <1>8 DEF ClInSession
    <2>2. c.res = "denied" /\ ClTurnedAway(c)
      BY <1>1, <1>3
    <2> QED BY <1>7, <1>8, <2>1, <2>2 DEF ClTurnedAway
  <1>11. \A d : ClPasses(c, d) => ClPasses(clCall, d)'
    BY <1>7, <1>8 DEF ClPasses
  <1>12. e.on \in {c.on, c.on + 1} /\ (e.on = c.on + 1 => ~found)
    BY <1>7
  <1>13. ClPassed(clCall)'
    <2>1. ASSUME NEW d \in c.day..(e.on - 1) PROVE ClPasses(clCall, d)'
      <3>1. c.on \in Int /\ c.day \in Int
        BY <1>1, <1>2
      <3>2. d \in c.day..(c.on - 1) \/ (d = c.on /\ ~found)
        BY <1>12, <2>1, <3>1
      <3> QED BY <1>3, <1>4, <1>11, <3>2
    <2>2. c.day <= e.on
      BY <1>1, <1>2, <1>3, <1>12
    <2> QED BY <1>7, <2>1, <2>2 DEF ClPassed
  <1>14. ClOnlyInSession'
    BY <1>7 DEF ClOnlyInSession
  <1>15. ASSUME e.at = "done" PROVE ClNextTold'
    <2>1. (e.next = c.on /\ found) \/ (e.next = ClLast + 1 /\ c.on = ClLast /\ ~found)
      BY <1>1, <1>6, <1>15 DEF ClCallType
    <2>2. ASSUME NEW d \in c.day..(e.next - 1) PROVE ClPasses(clCall, d)'
      <3>1. c.on \in Int /\ c.day \in Int
        BY <1>1, <1>2
      <3>2. d \in c.day..(c.on - 1) \/ (d = c.on /\ ~found)
        BY <1>2, <2>1, <2>2, <3>1
      <3> QED BY <1>3, <1>4, <1>11, <3>2
    <2>3. ASSUME e.next = c.day PROVE c.time < ClOpen
      <3>1. found /\ c.on = c.day
        BY <1>1, <1>2, <1>3, <2>1, <2>3
      <3> QED BY <1>1, <1>2, <3>1 DEF found, ClOpensAfter
    <2>4. ASSUME e.next \in ClDays PROVE found /\ e.next = c.on
      BY <1>2, <2>1, <2>4
    <2> QED BY <1>5, <1>7, <1>8, <2>2, <2>3, <2>4 DEF ClNextTold, ClPasses, ClByTable
  <1>16. ClNextTold'
    BY <1>15 DEF ClNextTold, ClAt
  <1> QED BY <1>8, <1>9, <1>10, <1>13, <1>14, <1>16 DEF ClInductive

\* Nobody has asked, nothing is loaded.
LEMMA ClAtFirst == ClInit => ClInductive
  <1> SUFFICES ASSUME ClInit PROVE ClInductive
    OBVIOUS
  <1>1. ClTyped
    BY ClAssumption DEF ClInit, ClTyped, ClWorldType, ClIdle, ClCallType, ClSources, ClTimes,
       ClDays, ClYears, ClUS
  <1>2. ASSUME NEW d \in ClDays PROVE ClKnown(d)
    BY ClRecordIs DEF ClInit, ClKnown
  <1> QED BY <1>1, <1>2 DEF ClInit, ClInductive, ClIdle, ClOnGround, ClTurnedAway, ClPassed,
             ClOnlyInSession,
            ClNextTold, ClAt

\* Orders pass in session, and who is turned away is told when.
LEMMA ClInvariant == ClInit /\ [][ClNext]_clVars => []ClInv
  <1>1. ClInductive /\ [ClNext]_clVars => ClInductive'
    BY ClLoads, ClEnters, ClJudges, ClSearches DEF ClNext
  <1>2. ClInductive => ClInv
    <2> SUFFICES ASSUME ClInductive PROVE ClInv
      OBVIOUS
    <2>1. ClTypeOK
      BY ClRecordIs DEF ClInductive, ClTyped, ClTypeOK, ClSources, ClRecord, ClCallType
    <2>2. ClServed
      BY DEF ClInductive, ClTurnedAway, ClServed, ClByTable
    <2> QED BY <2>1, <2>2 DEF ClInductive, ClInv
  <1> QED BY <1>1, <1>2, ClAtFirst, PTL

-----------------------------------------------------------------------------
(* The opening of a market.                                                  *)

SoIn(q) == {q[i] : i \in 1..Len(q)}
SoOnce(q) == \A i, j \in 1..Len(q) : q[i] = q[j] => i = j

\* The first of a sequence, and the rest.
LEMMA SoTailOf ==
    ASSUME NEW S, NEW q \in Seq(S), q # <<>>
    PROVE  /\ Head(q) \in S /\ Tail(q) \in Seq(S)
           /\ Head(q) \in SoIn(q) /\ SoIn(q) = {Head(q)} \union SoIn(Tail(q))
           /\ SoOnce(q) => Head(q) \notin SoIn(Tail(q)) /\ SoOnce(Tail(q))
  <1>1. /\ Len(q) \in Nat \ {0} /\ Head(q) = q[1] /\ Tail(q) \in Seq(S) /\ Len(Tail(q)) = Len(q) - 1
        /\ \A i \in 1..Len(Tail(q)) : Tail(q)[i] = q[i + 1]
        /\ \A i \in 1..Len(q) : q[i] \in S
    OBVIOUS
  <1>2. SoIn(q) = {Head(q)} \union SoIn(Tail(q))
    <2>1. ASSUME NEW x \in SoIn(q), x # Head(q) PROVE x \in SoIn(Tail(q))
      <3>1. PICK i \in 1..Len(q) : x = q[i]
        BY DEF SoIn
      <3>2. i - 1 \in 1..Len(Tail(q)) /\ Tail(q)[i - 1] = x
        BY <1>1, <2>1, <3>1
      <3> QED BY <3>2 DEF SoIn
    <2>2. SoIn(Tail(q)) \subseteq SoIn(q)
      <3> SUFFICES ASSUME NEW i \in 1..Len(Tail(q)) PROVE Tail(q)[i] \in SoIn(q)
        BY DEF SoIn
      <3>1. i + 1 \in 1..Len(q)
        BY <1>1
      <3> QED BY <1>1, <3>1 DEF SoIn
    <2>3. Head(q) \in SoIn(q)
      BY <1>1 DEF SoIn
    <2> QED BY <2>1, <2>2, <2>3
  <1>3. ASSUME SoOnce(q) PROVE Head(q) \notin SoIn(Tail(q)) /\ SoOnce(Tail(q))
    BY <1>1, <1>3 DEF SoIn, SoOnce
  <1> QED BY <1>1, <1>2, <1>3

\* One more at the end of a sequence.
LEMMA SoAppended ==
    ASSUME NEW S, NEW q \in Seq(S), NEW x \in S
    PROVE  /\ Append(q, x) \in Seq(S) /\ SoIn(Append(q, x)) = SoIn(q) \union {x}
           /\ SoOnce(q) /\ x \notin SoIn(q) => SoOnce(Append(q, x))
  <1>1. /\ Len(q) \in Nat /\ Append(q, x) \in Seq(S) /\ Len(Append(q, x)) = Len(q) + 1
        /\ \A i \in 1..Len(q) : Append(q, x)[i] = q[i]
        /\ Append(q, x)[Len(q) + 1] = x
    OBVIOUS
  <1>2. SoIn(Append(q, x)) = SoIn(q) \union {x}
    BY <1>1 DEF SoIn
  <1>3. SoOnce(q) /\ x \notin SoIn(q) => SoOnce(Append(q, x))
    BY <1>1 DEF SoIn, SoOnce
  <1> QED BY <1>1, <1>2, <1>3

\* Nothing is in the empty sequence.
LEMMA SoEmpty == \A S : <<>> \in Seq(S) /\ SoIn(<<>>) = {} /\ SoOnce(<<>>)
  BY DEF SoIn, SoOnce

SoPlaces == {"listen", "ping", "poll", "down"}
SoMainType == [at : SoPlaces, batch : Seq(Openings), taken : Seq(Openings)]
SoRedisType == [up : BOOLEAN, linked : BOOLEAN, bus : Seq(Openings)]
SoSkip == [opening : Openings, at : Nat, told : Nat]
SoTyped ==
    /\ soClock \in 1..SoEnd /\ soRow \in [Openings -> {"none", "pending", "processed"}]
    /\ soPublishing \in 0..SoOpens
    /\ soRedis \in SoRedisType /\ (soRedis.linked => soRedis.up)
    /\ soMain \in SoMainType
    /\ soToldAt \in Nat /\ soToldAt <= soClock /\ soLast \in {0, soToldAt}
    /\ soAt \in [Openings -> 0..SoEnd] /\ soTold \in [Openings -> Nat]
    /\ soSkipped \subseteq SoSkip
    /\ soMishaps \in [outage : Nat, write : Nat, restart : Nat]

\* What a poll has in hand is pending, and what it has put behind it was heard.
SoHeard(o) == soTold[o] > 0 \/ \E s \in soSkipped : s.opening = o
SoPolled ==
    soMain.at = "poll" =>
        /\ SoOnce(soMain.batch) /\ SoIn(soMain.batch) \subseteq SoIn(soMain.taken)
        /\ \A o \in SoIn(soMain.taken) :
              soRow[o] = "pending" /\ (o \in SoIn(soMain.batch) \/ SoHeard(o))

\* An opening's message is out once.
SoOnItsWay(o) == o = soPublishing \/ o \in SoIn(soRedis.bus)
SoNews ==
    /\ \A o \in Openings : soAt[o] = 0 => soRow[o] = "none" /\ ~SoOnItsWay(o)
    /\ soPublishing \notin SoIn(soRedis.bus) /\ SoOnce(soRedis.bus)

\* What an opening was told for: its message, its row, and for each mishap one more
\* poll of it.
SoByMessage(o) == IF soAt[o] = 0 \/ SoOnItsWay(o) THEN 0 ELSE 1
SoPut(o) == soMain.at = "poll" /\ o \in SoIn(soMain.taken) \ SoIn(soMain.batch)
SoByRow(o) == IF soRow[o] = "processed" \/ SoPut(o) THEN 1 ELSE 0
SoCounted ==
    \A o \in Openings : soTold[o] <= SoByMessage(o) + SoByRow(o) + soMishaps.write + soMishaps.restart

\* Openings come in their order, a day apart.
SoApart ==
    \A o \in Openings :
        /\ soAt[o] <= soClock
        /\ soAt[o] # 0 => \A q \in Openings : q < o => soAt[q] # 0 /\ soAt[o] >= soAt[q] + SoDay

\* While nothing happened to Redis and the worker: who is on his way is told of no
\* sooner and no later than he is heard.
SoPeaceful == soMishaps.outage + soMishaps.restart = 0
SoInPeace ==
    SoPeaceful =>
        /\ soMain.at = "listen" /\ soRedis.linked
        /\ \A o \in Openings :
              /\ soTold[o] <= 1
              /\ soAt[o] = 0 \/ SoOnItsWay(o) => soTold[o] = 0
              /\ SoOnItsWay(o) => soAt[o] = soClock
              /\ soAt[o] >= SoWindow /\ ~SoOnItsWay(o) => soTold[o] = 1
        /\ soLast # 0 => \E q \in Openings : soAt[q] = soLast /\ soTold[q] = 1

SoInductive ==
    SoTyped /\ SoPolled /\ SoNews /\ SoCounted /\ SoApart /\ SoInPeace /\ SoMarkedWasHeard /\ SoToldLately

\* The oldest rows are as many as there are or as a poll takes, in their order.
LEMMA SoBatch ==
    ASSUME SoTyped
    PROVE  /\ SoOldest \in Seq(Openings) /\ SoOnce(SoOldest)
           /\ \A o \in SoIn(SoOldest) : soRow[o] = "pending"
  <1> DEFINE n == IF Cardinality(SoPending) < SoLimit THEN Cardinality(SoPending) ELSE SoLimit
             Sorted(s) == /\ \A i, j \in 1..n : i < j => s[i] < s[j]
                          /\ \A o \in SoPending \ {s[i] : i \in 1..n} : \A i \in 1..n : s[i] < o
             below == [o \in SoPending |-> Cardinality({q \in SoPending : q <= o})]
             all == Cardinality(SoPending)
  <1>1. IsFiniteSet(SoPending) /\ all \in Nat /\ SoPending \subseteq Nat
    <2>1. SoOpens \in Nat /\ Openings = 1..SoOpens /\ Openings \subseteq Nat
      BY SoAssumption DEF Openings
    <2>2. IsFiniteSet(Openings)
      BY <2>1, FS_Interval
    <2>3. SoPending \in SUBSET Openings
      BY DEF SoPending
    <2>4. IsFiniteSet(SoPending)
      BY <2>2, <2>3, FS_Subset
    <2>5. Cardinality(SoPending) \in Nat
      BY <2>4, FS_CardinalityType
    <2> QED BY <2>1, <2>3, <2>4, <2>5
  <1>2. n \in Nat /\ n <= all /\ 1..n \subseteq 1..all
    BY <1>1, SoAssumption
  <1> HIDE DEF n, all
  <1>3. ASSUME NEW o \in SoPending
        PROVE  below[o] \in 1..all /\ IsFiniteSet({q \in SoPending : q <= o})
    <2> DEFINE T == {q \in SoPending : q <= o}
    <2>1. T \in SUBSET SoPending /\ o \in T
      BY <1>1
    <2>2. IsFiniteSet(T) /\ Cardinality(T) <= all
      BY <1>1, <2>1, FS_Subset DEF all
    <2>3. Cardinality(T) \in Nat /\ Cardinality(T) # 0
      BY <2>1, <2>2, FS_CardinalityType, FS_EmptySet
    <2> QED BY <1>1, <2>2, <2>3
  <1>4. ASSUME NEW o \in SoPending, NEW p \in SoPending, o < p PROVE below[o] < below[p]
    <2> DEFINE T == {q \in SoPending : q <= o}
               U == {q \in SoPending : q <= p}
    <2>0. \A q \in SoPending : q \in Nat
      BY <1>1
    <2>1. T \in SUBSET U /\ p \in U /\ p \notin T
      <3>1. \A q \in SoPending : q <= o => q <= p
        BY <1>4, <2>0
      <3>2. p <= p /\ ~(p <= o)
        BY <1>4, <2>0
      <3> QED BY <3>1, <3>2
    <2>2. IsFiniteSet(U) /\ IsFiniteSet(T)
      BY <1>3
    <2>3. Cardinality(T) <= Cardinality(U) /\ Cardinality(T) # Cardinality(U)
      BY <2>1, <2>2, FS_Subset
    <2>4. below[o] = Cardinality(T) /\ below[p] = Cardinality(U) /\ below[o] \in Nat /\ below[p] \in Nat
      BY <1>3
    <2> HIDE DEF T, U, below
    <2> QED BY <2>3, <2>4
  <1>5. below \in Injection(SoPending, 1..all)
    <2>1. below \in [SoPending -> 1..all]
      BY <1>3
    <2>2. ASSUME NEW o \in SoPending, NEW p \in SoPending, below[o] = below[p] PROVE o = p
      <3>1. o \in Nat /\ p \in Nat /\ below[o] \in Nat
        BY <1>1, <1>3
      <3>2. ~(o < p) /\ ~(p < o)
        BY <1>4, <2>2, <3>1
      <3> QED BY <3>1, <3>2
    <2> QED BY <2>1, <2>2 DEF Injection, IsInjective
  <1>6. below \in Surjection(SoPending, 1..all)
    <2>1. IsFiniteSet(1..all) /\ Cardinality(1..all) = all
      BY <1>1, FS_Interval
    <2> QED BY <1>5, <2>1, FS_Injection DEF all
  <1>7. \A i \in 1..all : \E o \in SoPending : below[o] = i
    BY <1>6 DEF Surjection
  <1> HIDE DEF below
  <1> DEFINE s == [i \in 1..n |-> CHOOSE o \in SoPending : below[o] = i]
  <1>8. \A i \in 1..n : s[i] \in SoPending /\ below[s[i]] = i
    BY <1>2, <1>7
  <1>9. s \in [1..n -> SoPending]
    BY <1>8
  <1> HIDE DEF s
  <1>10. Sorted(s)
    <2>1. ASSUME NEW i \in 1..n, NEW j \in 1..n, i < j PROVE s[i] < s[j]
      <3>1. s[i] \in Nat /\ s[j] \in Nat
        BY <1>1, <1>8
      <3>2. s[i] # s[j]
        <4>1. below[s[i]] = i /\ below[s[j]] = j /\ i # j
          BY <1>2, <1>8, <2>1
        <4> QED BY <4>1
      <3>3. ~(s[j] < s[i])
        BY <1>2, <1>4, <1>8, <2>1
      <3> QED BY <3>1, <3>2, <3>3
    <2>2. ASSUME NEW o \in SoPending \ {s[i] : i \in 1..n}, NEW i \in 1..n PROVE s[i] < o
      <3>1. below[o] \in 1..all /\ o \in Nat /\ s[i] \in Nat /\ s[i] # o
        BY <1>1, <1>3, <1>8, <2>2
      <3>2. ~(o < s[i])
        <4>1. SUFFICES ASSUME o < s[i] PROVE FALSE
          OBVIOUS
        <4>2. below[o] < i
          BY <1>4, <1>8, <4>1
        <4>3. below[o] \in 1..n
          BY <1>2, <2>2, <3>1, <4>2
        <4>4. s[below[o]] \in SoPending /\ below[s[below[o]]] = below[o]
          BY <1>8, <4>3
        <4>5. s[below[o]] = o
          <5>1. s[below[o]] \in Nat
            BY <1>1, <4>4
          <5>2. below[o] \in Nat /\ o \in SoPending
            BY <1>1, <3>1, <2>2
          <5>3. ~(s[below[o]] < o)
            <6> SUFFICES ASSUME s[below[o]] < o PROVE FALSE
              OBVIOUS
            <6>1. below[s[below[o]]] < below[o]
              BY <1>4, <4>4, <5>2
            <6> QED BY <4>4, <5>2, <6>1
          <5>4. ~(o < s[below[o]])
            <6> SUFFICES ASSUME o < s[below[o]] PROVE FALSE
              OBVIOUS
            <6>1. below[o] < below[s[below[o]]]
              BY <1>4, <4>4, <5>2
            <6> QED BY <4>4, <5>2, <6>1
          <5> QED BY <3>1, <5>1, <5>3, <5>4
        <4> QED BY <2>2, <4>3, <4>5
      <3> QED BY <3>1, <3>2
    <2> QED BY <2>1, <2>2
  <1>11. SoOldest = CHOOSE x \in [1..n -> SoPending] : Sorted(x)
    BY DEF SoOldest, n
  <1>12. SoOldest \in [1..n -> SoPending] /\ Sorted(SoOldest)
    <2> HIDE DEF Sorted
    <2> QED BY <1>9, <1>10, <1>11
  <1>13. SoOldest \in Seq(Openings) /\ Len(SoOldest) = n /\ \A i \in 1..n : soRow[SoOldest[i]] = "pending"
    <2>1. SoPending \subseteq Openings
      BY DEF SoPending
    <2>2. \A i \in 1..n : SoOldest[i] \in SoPending
      BY <1>12
    <2> QED BY <1>2, <1>12, <2>1, <2>2 DEF SoPending
  <1>14. SoOnce(SoOldest)
    <2>1. \A i \in 1..n : SoOldest[i] \in Nat
      BY <1>1, <1>12
    <2>2. \A i, j \in 1..n : i < j => SoOldest[i] < SoOldest[j]
      BY <1>12
    <2> QED BY <1>2, <1>13, <2>1, <2>2 DEF SoOnce
  <1> QED BY <1>13, <1>14 DEF SoIn

\* What handling the news of an opening leaves behind.
LEMMA SoHandled ==
    ASSUME SoTyped, NEW o \in Openings, SoHandle(o)
    PROVE  /\ soTold' \in [Openings -> Nat] /\ soSkipped' \subseteq SoSkip
           /\ soToldAt' \in Nat /\ soToldAt' <= soClock /\ soLast' \in {0, soToldAt'}
           /\ soTold'[o] \in {soTold[o], soTold[o] + 1}
           /\ \A p \in Openings \ {o} : soTold'[p] = soTold[p]
           /\ soTold'[o] > 0 \/ \E s \in soSkipped' : s.opening = o
           /\ soSkipped \subseteq soSkipped'
           /\ SoToldLately => SoToldLately'
  <1> USE DEF SoTyped
  <1>1. soClock \in Nat \ {0} /\ soLast \in Nat /\ soLast <= soClock /\ SoWindow \in Nat \ {0}
    BY SoAssumption
  <1>2. CASE soClock - soLast < SoWindow
    <2> DEFINE skip == [opening |-> o, at |-> soClock, told |-> soToldAt]
    <2>1. /\ soSkipped' = soSkipped \union {skip} /\ soLast' = soLast
          /\ soTold' = soTold /\ soToldAt' = soToldAt
      BY <1>2 DEF SoHandle, SoLastStays
    <2>2. skip \in SoSkip /\ skip.opening = o /\ skip.at = soClock /\ skip.told = soToldAt
      BY <1>1 DEF SoSkip
    <2>3. skip.at < SoWindow \/ (skip.told > 0 /\ skip.at - skip.told < SoWindow)
      BY <1>1, <1>2, <2>2
    <2> HIDE DEF skip
    <2>4. SoToldLately => SoToldLately'
      BY <2>1, <2>3 DEF SoToldLately
    <2> QED BY <1>1, <2>1, <2>2, <2>4
  <1>3. CASE ~(soClock - soLast < SoWindow)
    <2>1. /\ soTold' = [soTold EXCEPT ![o] = @ + 1] /\ soLast' = soClock /\ soToldAt' = soClock
          /\ soSkipped' = soSkipped
      BY <1>3 DEF SoHandle
    <2>2. soTold[o] \in Nat /\ soTold'[o] = soTold[o] + 1
      BY <2>1
    <2>3. SoToldLately => SoToldLately'
      BY <2>1 DEF SoToldLately
    <2> QED BY <1>1, <2>1, <2>2, <2>3
  <1> QED BY <1>2, <1>3

\* A step of the counters of mishaps.
LEMMA SoMishapped ==
    ASSUME SoTyped, NEW kind \in {"outage", "write", "restart"}, SoMishap(kind)
    PROVE  /\ soMishaps' \in [outage : Nat, write : Nat, restart : Nat]
           /\ soMishaps'[kind] = soMishaps[kind] + 1
           /\ \A other \in {"outage", "write", "restart"} \ {kind} : soMishaps'[other] = soMishaps[other]
  <1>1. soMishaps \in [outage : Nat, write : Nat, restart : Nat]
    BY DEF SoTyped
  <1>2. soMishaps' = [soMishaps EXCEPT ![kind] = soMishaps[kind] + 1]
    BY DEF SoMishap
  <1>3. CASE kind = "outage"
    BY <1>1, <1>2, <1>3
  <1>4. CASE kind = "write"
    BY <1>1, <1>2, <1>4
  <1>5. CASE kind = "restart"
    BY <1>1, <1>2, <1>5
  <1> QED BY <1>3, <1>4, <1>5

\* Every step keeps the types.
LEMMA SoTypedStep == ASSUME SoTyped, [SoNext]_soVars PROVE SoTyped'
  <1> USE DEF SoTyped
  <1>n. SoOpens \in Nat /\ SoEnd \in Nat \ {0} /\ Openings = 1..SoOpens
    BY SoAssumption DEF Openings
  <1>1. ASSUME SoTick PROVE SoTyped'
    BY <1>1, <1>n DEF SoTick
  <1>2. ASSUME NEW o \in Openings, SoOpen(o) PROVE SoTyped'
    <2>1. soAt' \in [Openings -> 0..SoEnd] /\ soPublishing' \in 0..SoOpens
      BY <1>2, <1>n DEF SoOpen
    <2>2. soMishaps' \in [outage : Nat, write : Nat, restart : Nat]
      BY <1>2, SoMishapped DEF SoOpen
    <2>3. soRow' \in [Openings -> {"none", "pending", "processed"}]
      BY <1>2 DEF SoOpen
    <2> QED BY <1>2, <2>1, <2>2, <2>3 DEF SoOpen
  <1>3. ASSUME SoPublish PROVE SoTyped'
    <2>1. soPublishing \in Openings
      BY <1>3, <1>n DEF SoPublish
    <2>2. Append(soRedis.bus, soPublishing) \in Seq(Openings)
      BY <2>1, SoAppended DEF SoRedisType
    <2>3. soRedis' \in SoRedisType /\ soRedis'.linked = soRedis.linked /\ soRedis'.up = soRedis.up
      BY <1>3, <2>2 DEF SoPublish, SoRedisType
    <2> QED BY <1>3, <1>n, <2>3 DEF SoPublish
  <1>4. ASSUME SoListen PROVE SoTyped'
    <2>1. CASE soRedis.linked /\ soRedis.bus # <<>> /\ soRedis' = [soRedis EXCEPT !.bus = Tail(@)]
               /\ SoHandle(Head(soRedis.bus)) /\ UNCHANGED soMain
      <3>1. Head(soRedis.bus) \in Openings /\ Tail(soRedis.bus) \in Seq(Openings)
        BY <2>1, SoTailOf DEF SoRedisType
      <3>2. soRedis' \in SoRedisType /\ soRedis'.linked = soRedis.linked /\ soRedis'.up = soRedis.up
        BY <2>1, <3>1 DEF SoRedisType
      <3> QED BY <1>4, <2>1, <3>1, <3>2, SoHandled DEF SoListen
    <2>2. CASE soMain' = [soMain EXCEPT !.at = "ping"] /\ UNCHANGED <<soRedis, soLast, soTold, soSkipped, soToldAt>>
      <3>1. soMain' \in SoMainType
        BY <2>2 DEF SoMainType, SoPlaces
      <3> QED BY <1>4, <2>2, <3>1 DEF SoListen
    <2> QED BY <1>4, <2>1, <2>2 DEF SoListen
  <1>5. ASSUME SoPing PROVE SoTyped'
    <2>1. SoListening \in SoMainType
      BY SoEmpty DEF SoListening, SoMainType, SoPlaces
    <2>2. [at |-> "poll", batch |-> SoOldest, taken |-> SoOldest] \in SoMainType
      BY SoBatch DEF SoMainType, SoPlaces
    <2>3. soMain' \in SoMainType
      BY <1>5, <2>1, <2>2 DEF SoPing
    <2>4. soRedis' \in SoRedisType /\ (soRedis'.linked => soRedis'.up)
      <3>1. <<>> \in Seq(Openings)
        BY SoEmpty
      <3>2. CASE soRedis.up /\ soRedis' = [soRedis EXCEPT !.linked = TRUE, !.bus = <<>>]
        BY <3>1, <3>2 DEF SoRedisType
      <3>3. CASE soRedis' = soRedis
        BY <3>3
      <3> QED BY <1>5, <3>2, <3>3 DEF SoPing
    <2> QED BY <1>5, <2>3, <2>4 DEF SoPing
  <1>6. ASSUME SoTake PROVE SoTyped'
    <2>1. Head(soMain.batch) \in Openings /\ Tail(soMain.batch) \in Seq(Openings)
      BY <1>6, SoTailOf DEF SoTake, SoMainType
    <2>2. soMain' \in SoMainType
      BY <1>6, <2>1 DEF SoTake, SoMainType
    <2> QED BY <1>6, <2>1, <2>2, SoHandled DEF SoTake
  <1>7. ASSUME SoMark PROVE SoTyped'
    <2>1. soMain' \in SoMainType
      BY <1>7, SoEmpty DEF SoMark, SoMainType, SoPlaces
    <2>2. soMishaps' \in [outage : Nat, write : Nat, restart : Nat]
      BY <1>7, SoMishapped DEF SoMark
    <2>3. soRow' \in [Openings -> {"none", "pending", "processed"}]
      BY <1>7 DEF SoMark
    <2> QED BY <1>7, <2>1, <2>2, <2>3 DEF SoMark
  <1>8. ASSUME SoOutage PROVE SoTyped'
    <2>1. soRedis' \in SoRedisType /\ ~soRedis'.linked
      BY <1>8, SoEmpty DEF SoOutage, SoRedisType
    <2>2. soMishaps' \in [outage : Nat, write : Nat, restart : Nat]
      BY <1>8, SoMishapped DEF SoOutage
    <2> QED BY <1>8, <2>1, <2>2 DEF SoOutage
  <1>9. ASSUME SoBack PROVE SoTyped'
    <2>1. soRedis' \in SoRedisType /\ soRedis'.up
      BY <1>9 DEF SoBack, SoRedisType
    <2> QED BY <1>9, <2>1 DEF SoBack
  <1>10. ASSUME SoRestart PROVE SoTyped'
    <2>1. soMain' \in SoMainType
      <3>1. <<>> \in Seq(Openings)
        BY SoEmpty
      <3>2. \/ soMain' = [at |-> "down", batch |-> <<>>, taken |-> <<>>]
            \/ soMain' = [at |-> "ping", batch |-> <<>>, taken |-> <<>>]
        BY <1>10 DEF SoRestart, SoListening
      <3>3. CASE soMain' = [at |-> "down", batch |-> <<>>, taken |-> <<>>]
        BY <3>1, <3>3 DEF SoMainType, SoPlaces
      <3>4. CASE soMain' = [at |-> "ping", batch |-> <<>>, taken |-> <<>>]
        BY <3>1, <3>4 DEF SoMainType, SoPlaces
      <3> QED BY <3>2, <3>3, <3>4
    <2>2. soMishaps' \in [outage : Nat, write : Nat, restart : Nat]
      BY <1>10, SoMishapped DEF SoRestart
    <2>3. soRedis' \in SoRedisType /\ ~soRedis'.linked
      BY <1>10, SoEmpty DEF SoRestart, SoRedisType
    <2> QED BY <1>10, <1>n, <2>1, <2>2, <2>3 DEF SoRestart
  <1>11. ASSUME UNCHANGED soVars PROVE SoTyped'
    BY <1>11 DEF soVars
  <1> QED BY <1>1, <1>2, <1>3, <1>4, <1>5, <1>6, <1>7, <1>8, <1>9, <1>10, <1>11 DEF SoNext

\* What was heard of stays so; the sessions are told by SoListen and SoTake only.
LEMMA SoHears ==
    ASSUME SoTyped, [SoNext]_soVars
    PROVE  /\ \A o \in Openings : SoHeard(o) => SoHeard(o)'
           /\ SoToldLately => SoToldLately'
  <1>1. CASE SoListen /\ soRedis.linked /\ soRedis.bus # <<>> /\ SoHandle(Head(soRedis.bus))
    <2>1. Head(soRedis.bus) \in Openings
      BY <1>1, SoTailOf DEF SoTyped, SoRedisType
    <2>2. \A o \in Openings : soTold'[o] >= soTold[o]
      BY <1>1, <2>1, SoHandled DEF SoTyped
    <2> QED BY <1>1, <2>1, <2>2, SoHandled DEF SoHeard, SoTyped
  <1>2. CASE SoTake
    <2>1. Head(soMain.batch) \in Openings /\ SoHandle(Head(soMain.batch))
      BY <1>2, SoTailOf DEF SoTyped, SoMainType, SoTake
    <2>2. \A o \in Openings : soTold'[o] >= soTold[o]
      BY <2>1, SoHandled DEF SoTyped
    <2> QED BY <2>1, <2>2, SoHandled DEF SoHeard, SoTyped
  <1>3. CASE UNCHANGED <<soTold, soSkipped>>
    BY <1>3 DEF SoHeard, SoToldLately
  <1> QED BY <1>1, <1>2, <1>3 DEF SoNext, soVars, SoTick, SoOpen, SoPublish, SoListen, SoPing,
             SoMark, SoOutage,
            SoBack, SoRestart

\* A poll's rows are pending until it marks them, and marked once they were heard.
LEMMA SoPolledStep ==
    ASSUME SoTyped, SoPolled, SoNews, SoMarkedWasHeard, [SoNext]_soVars
    PROVE  SoPolled' /\ SoMarkedWasHeard'
  <1>h. \A o \in Openings : SoHeard(o) => SoHeard(o)'
    BY SoHears
  <1>t. soMain.batch \in Seq(Openings) /\ soMain.taken \in Seq(Openings) /\ SoIn(soMain.taken) \subseteq Openings
        /\ soRow \in [Openings -> {"none", "pending", "processed"}]
    BY DEF SoTyped, SoMainType, SoIn
  <1>m. ASSUME \A o \in Openings : soRow'[o] = "processed" => soRow[o] = "processed" PROVE SoMarkedWasHeard'
    BY <1>h, <1>m DEF SoMarkedWasHeard, SoHeard
  <1>s. ASSUME UNCHANGED <<soMain, soRow>> PROVE SoPolled' /\ SoMarkedWasHeard'
    BY <1>h, <1>m, <1>s, <1>t DEF SoPolled
  <1>1. ASSUME NEW o \in Openings, SoOpen(o) PROVE SoPolled' /\ SoMarkedWasHeard'
    <2>1. soRow[o] = "none" /\ soMain' = soMain /\ \A p \in Openings \ {o} : soRow'[p] = soRow[p]
      BY <1>1, <1>t DEF SoOpen, SoNews
    <2>2. soRow'[o] # "processed"
      BY <1>1, <1>t, <2>1 DEF SoOpen
    <2>3. SoPolled'
      BY <1>h, <1>t, <2>1 DEF SoPolled
    <2>4. SoMarkedWasHeard'
      BY <1>m, <2>1, <2>2
    <2> QED BY <2>3, <2>4
  <1>2. ASSUME SoListen PROVE SoPolled' /\ SoMarkedWasHeard'
    <2>1. soRow' = soRow /\ soMain'.at \in {"listen", "ping"}
      BY <1>2 DEF SoListen, SoTyped, SoMainType
    <2> QED BY <1>m, <2>1 DEF SoPolled
  <1>3. ASSUME SoPing PROVE SoPolled' /\ SoMarkedWasHeard'
    <2>1. soRow' = soRow
      BY <1>3 DEF SoPing
    <2>2. CASE soRedis.up
      <3>1. soMain'.at = "listen"
        BY <1>3, <2>2 DEF SoPing, SoListening
      <3> QED BY <1>m, <2>1, <3>1 DEF SoPolled
    <2>3. CASE ~soRedis.up
      <3>1. soMain'.batch = SoOldest /\ soMain'.taken = SoOldest
        BY <1>3, <2>3 DEF SoPing
      <3> QED BY <1>m, <2>1, <3>1, SoBatch DEF SoPolled
    <2> QED BY <2>2, <2>3
  <1>4. ASSUME SoTake PROVE SoPolled' /\ SoMarkedWasHeard'
    <2>a. PICK h, rest : h = Head(soMain.batch) /\ rest = Tail(soMain.batch)
      OBVIOUS
    <2>1. /\ soMain.at = "poll" /\ soMain.batch # <<>> /\ SoHandle(h) /\ soRow' = soRow
          /\ soMain' = [soMain EXCEPT !.batch = rest]
      BY <1>4, <2>a DEF SoTake
    <2>2. /\ h \in Openings /\ SoIn(soMain.batch) = {h} \union SoIn(rest)
          /\ SoOnce(soMain.batch) => SoOnce(rest)
      BY <1>t, <2>1, <2>a, SoTailOf
    <2>3. SoHeard(h)'
      BY <2>1, <2>2, SoHandled DEF SoHeard
    <2>4. soMain'.at = "poll" /\ soMain'.batch = rest /\ soMain'.taken = soMain.taken
      BY <2>1 DEF SoTyped, SoMainType
    <2>5. SoIn(rest) \subseteq SoIn(soMain.taken) /\ SoOnce(rest)
      BY <2>1, <2>2 DEF SoPolled
    <2>6. ASSUME NEW o \in SoIn(soMain.taken)
          PROVE  soRow'[o] = "pending" /\ (o \in SoIn(rest) \/ SoHeard(o)')
      BY <1>h, <1>t, <2>1, <2>2, <2>3, <2>6 DEF SoPolled
    <2>7. SoMarkedWasHeard'
      BY <1>m, <2>1
    <2> QED BY <2>4, <2>5, <2>6, <2>7 DEF SoPolled
  <1>5. ASSUME SoMark PROVE SoPolled' /\ SoMarkedWasHeard'
    <2>1. soMain'.at = "ping" /\ soMain.at = "poll" /\ soMain.batch = <<>>
      BY <1>5 DEF SoMark, SoTyped, SoMainType
    <2>2. \A o \in SoIn(soMain.taken) : SoHeard(o)'
      BY <1>h, <1>t, <2>1, SoEmpty DEF SoPolled
    <2>3. ASSUME NEW o \in Openings, soRow'[o] = "processed" PROVE soRow[o] = "processed" \/ o \in SoIn(soMain.taken)
      BY <1>5, <1>t, <2>3 DEF SoMark, SoMarks, SoIn
    <2> QED BY <1>h, <2>1, <2>2, <2>3 DEF SoPolled, SoMarkedWasHeard, SoHeard
  <1>6. ASSUME SoRestart PROVE SoPolled' /\ SoMarkedWasHeard'
    <2>1. soRow' = soRow /\ soMain'.at \in {"down", "ping"}
      BY <1>6 DEF SoRestart, SoListening
    <2> QED BY <1>m, <2>1 DEF SoPolled
  <1> QED BY <1>s, <1>1, <1>2, <1>3, <1>4, <1>5, <1>6
             DEF SoNext, soVars, SoTick, SoPublish, SoOutage, SoBack

\* An opening's message goes its way once.
LEMMA SoNewsStep ==
    ASSUME SoTyped, SoPolled, SoNews, [SoNext]_soVars
    PROVE  SoNews'
  <1>t. soMain.taken \in Seq(Openings) /\ DOMAIN soMain.taken = 1..Len(soMain.taken)
    BY DEF SoTyped, SoMainType
  <1>n. SoOpens \in Nat /\ Openings = 1..SoOpens /\ 0 \notin Openings /\ SoIn(soRedis.bus) \subseteq Openings
        /\ soRedis.bus \in Seq(Openings)
    BY SoAssumption DEF Openings, SoTyped, SoRedisType, SoIn
  <1>s. ASSUME UNCHANGED <<soAt, soPublishing, soRedis>>,
               \A o \in Openings : soRow[o] = "none" => soRow'[o] = "none"
        PROVE  SoNews'
    BY <1>s DEF SoNews, SoOnItsWay
  <1>e. ASSUME UNCHANGED <<soAt, soRow>>, soPublishing' \in {0, soPublishing}, soRedis'.bus = <<>>
        PROVE  SoNews'
    BY <1>e, <1>n, SoEmpty DEF SoNews, SoOnItsWay
  <1>1. ASSUME NEW o \in Openings, SoOpen(o) PROVE SoNews'
    <2>1. /\ soAt[o] = 0 /\ soPublishing = 0 /\ soPublishing' = o /\ soRedis' = soRedis
          /\ soAt' = [soAt EXCEPT ![o] = soClock]
          /\ \A p \in Openings \ {o} : soRow'[p] = soRow[p]
      BY <1>1 DEF SoOpen, SoTyped
    <2>2. soAt'[o] # 0 /\ \A p \in Openings \ {o} : soAt'[p] = soAt[p]
      BY <2>1, SoAssumption DEF SoTyped
    <2> QED BY <1>n, <2>1, <2>2 DEF SoNews, SoOnItsWay
  <1>2. ASSUME SoPublish PROVE SoNews'
    <2>1. soPublishing \in Openings /\ soPublishing' = 0 /\ UNCHANGED <<soAt, soRow>>
      BY <1>2, <1>n DEF SoPublish, SoTyped
    <2>2. CASE soRedis.linked
      <3>1. soRedis'.bus = Append(soRedis.bus, soPublishing)
        BY <1>2, <2>2 DEF SoPublish, SoTyped, SoRedisType
      <3>2. SoIn(soRedis'.bus) = SoIn(soRedis.bus) \union {soPublishing} /\ SoOnce(soRedis'.bus)
        BY <1>n, <2>1, <3>1, SoAppended DEF SoNews
      <3> QED BY <1>n, <2>1, <3>2 DEF SoNews, SoOnItsWay
    <2>3. CASE ~soRedis.linked
      <3>1. soRedis' = soRedis
        BY <1>2, <2>3 DEF SoPublish
      <3> QED BY <1>n, <2>1, <3>1 DEF SoNews, SoOnItsWay
    <2> QED BY <2>2, <2>3
  <1>3. ASSUME SoListen PROVE SoNews'
    <2>1. UNCHANGED <<soAt, soRow, soPublishing>>
      BY <1>3 DEF SoListen
    <2>2. CASE soRedis' = soRedis
      BY <1>s, <2>1, <2>2
    <2>3. CASE soRedis.bus # <<>> /\ soRedis' = [soRedis EXCEPT !.bus = Tail(@)]
      <3>1. soRedis'.bus = Tail(soRedis.bus)
        BY <2>3 DEF SoTyped, SoRedisType
      <3>2. SoIn(soRedis'.bus) \subseteq SoIn(soRedis.bus) /\ (SoOnce(soRedis.bus) => SoOnce(soRedis'.bus))
        BY <1>n, <2>3, <3>1, SoTailOf
      <3> QED BY <2>1, <3>2 DEF SoNews, SoOnItsWay
    <2> QED BY <1>3, <2>2, <2>3 DEF SoListen
  <1>4. ASSUME SoPing PROVE SoNews'
    <2>1. UNCHANGED <<soAt, soRow, soPublishing>> /\ (soRedis' = soRedis \/ soRedis'.bus = <<>>)
      BY <1>4 DEF SoPing, SoTyped, SoRedisType
    <2> QED BY <1>s, <1>e, <2>1
  <1>5. ASSUME SoMark PROVE SoNews'
    <2>1. UNCHANGED <<soAt, soPublishing, soRedis>> /\ soMain.at = "poll"
      BY <1>5 DEF SoMark
    <2>2. ASSUME NEW o \in Openings, soRow[o] = "none" PROVE soRow'[o] = "none"
      <3>1. o \notin SoIn(soMain.taken)
        BY <2>1, <2>2 DEF SoPolled
      <3>2. o \notin SoMarks
        BY <3>1, <1>t DEF SoMarks, SoIn
      <3> QED BY <1>5, <2>2, <3>2 DEF SoMark
    <2> QED BY <1>s, <2>1, <2>2
  <1>6. ASSUME SoOutage PROVE SoNews'
    <2>1. UNCHANGED <<soAt, soRow, soPublishing>> /\ soRedis'.bus = <<>>
      BY <1>6 DEF SoOutage
    <2> QED BY <1>e, <2>1
  <1>7. ASSUME SoBack PROVE SoNews'
    <2>1. UNCHANGED <<soAt, soRow, soPublishing>> /\ soRedis'.bus = soRedis.bus
      BY <1>7 DEF SoBack, SoTyped, SoRedisType
    <2> QED BY <2>1 DEF SoNews, SoOnItsWay
  <1>8. ASSUME SoRestart PROVE SoNews'
    <2>1. UNCHANGED <<soAt, soRow>> /\ soPublishing' = 0 /\ soRedis'.bus = <<>>
      BY <1>8 DEF SoRestart, SoTyped, SoRedisType
    <2> QED BY <1>e, <2>1
  <1> QED BY <1>s, <1>1, <1>2, <1>3, <1>4, <1>5, <1>6, <1>7, <1>8
             DEF SoNext, soVars, SoTick, SoTake

\* An opening is told of once for its message and once for its row, and once more
\* for each mishap that leaves the row to be polled again.
LEMMA SoCountedStep ==
    ASSUME SoTyped, SoPolled, SoNews, SoCounted, SoTyped', [SoNext]_soVars
    PROVE  SoCounted'
  <1>n. SoOpens \in Nat /\ Openings = 1..SoOpens /\ 0 \notin Openings /\ soRedis.bus \in Seq(Openings)
        /\ soMain.batch \in Seq(Openings) /\ soMain.taken \in Seq(Openings)
        /\ SoIn(soRedis.bus) \subseteq Openings /\ SoIn(soMain.batch) \subseteq Openings
    <2>1. SoOpens \in Nat /\ Openings = 1..SoOpens /\ 0 \notin Openings
      BY SoAssumption DEF Openings
    <2>2. soRedis.bus \in Seq(Openings) /\ soMain.batch \in Seq(Openings) /\ soMain.taken \in Seq(Openings)
      BY DEF SoTyped, SoRedisType, SoMainType
    <2>3. \A q \in Seq(Openings) : SoIn(q) \subseteq Openings
      BY DEF SoIn
    <2> QED BY <2>1, <2>2, <2>3
  <1>t. /\ soMishaps.write \in Nat /\ soMishaps.restart \in Nat /\ soMishaps'.write \in Nat /\ soMishaps'.restart \in Nat
        /\ \A o \in Openings : soTold[o] \in Nat /\ soTold'[o] \in Nat
    BY DEF SoTyped
  <1>r. \A o : SoByMessage(o) \in 0..1 /\ SoByRow(o) \in 0..1 /\ SoByMessage(o)' \in 0..1 /\ SoByRow(o)' \in 0..1
    BY DEF SoByMessage, SoByRow
  <1>a. ASSUME UNCHANGED soTold,
               \A o \in Openings : SoByMessage(o)' >= SoByMessage(o),
               \/ /\ \A o \in Openings : SoByRow(o)' >= SoByRow(o)
                  /\ soMishaps'.write >= soMishaps.write /\ soMishaps'.restart >= soMishaps.restart
               \/ soMishaps'.write = soMishaps.write + 1 /\ soMishaps'.restart = soMishaps.restart
               \/ soMishaps'.restart = soMishaps.restart + 1 /\ soMishaps'.write = soMishaps.write
        PROVE  SoCounted'
    <2> SUFFICES ASSUME NEW o \in Openings
                 PROVE  soTold'[o] <= SoByMessage(o)' + SoByRow(o)' + soMishaps'.write + soMishaps'.restart
      BY DEF SoCounted
    <2>1. soTold[o] <= SoByMessage(o) + SoByRow(o) + soMishaps.write + soMishaps.restart
      BY DEF SoCounted
    <2>2. SoByMessage(o)' >= SoByMessage(o) /\ soTold'[o] = soTold[o]
      BY <1>a
    <2>3. /\ SoByMessage(o) \in Nat /\ SoByRow(o) \in 0..1 /\ SoByMessage(o)' \in Nat /\ SoByRow(o)' \in 0..1
      BY <1>r
    <2> QED BY <1>a, <1>t, <2>1, <2>2, <2>3
  <1>b. ASSUME NEW h \in Openings, SoHandle(h), UNCHANGED soMishaps,
               \A o \in Openings : SoByMessage(o)' >= SoByMessage(o) /\ SoByRow(o)' >= SoByRow(o),
               SoByMessage(h)' + SoByRow(h)' >= SoByMessage(h) + SoByRow(h) + 1
        PROVE  SoCounted'
    <2> SUFFICES ASSUME NEW o \in Openings
                 PROVE  soTold'[o] <= SoByMessage(o)' + SoByRow(o)' + soMishaps'.write + soMishaps'.restart
      BY DEF SoCounted
    <2>1. soTold[o] <= SoByMessage(o) + SoByRow(o) + soMishaps.write + soMishaps.restart
      BY DEF SoCounted
    <2>2. soTold'[o] <= soTold[o] + 1 /\ (o # h => soTold'[o] = soTold[o])
      BY <1>b, <1>t, SoHandled
    <2>3. /\ SoByMessage(o) \in Nat /\ SoByRow(o) \in 0..1 /\ SoByMessage(o)' \in Nat /\ SoByRow(o)' \in 0..1
      BY <1>r
    <2>4. CASE o = h
      BY <1>b, <1>t, <2>1, <2>2, <2>3, <2>4
    <2>5. CASE o # h
      BY <1>b, <1>t, <2>1, <2>2, <2>3, <2>5
    <2> QED BY <2>4, <2>5
  <1>c. ASSUME UNCHANGED <<soAt, soPublishing, soRedis>> PROVE \A o : SoByMessage(o)' = SoByMessage(o)
    BY <1>c DEF SoByMessage, SoOnItsWay
  <1>d. ASSUME UNCHANGED <<soRow, soMain>> PROVE \A o : SoByRow(o)' = SoByRow(o)
    BY <1>d DEF SoByRow, SoPut
  <1>e. ASSUME UNCHANGED soAt, soPublishing' \in {0, soPublishing}, soRedis'.bus = <<>>
        PROVE  \A o \in Openings : SoByMessage(o)' >= SoByMessage(o)
    BY <1>e, <1>n, SoEmpty DEF SoByMessage, SoOnItsWay
  <1>f. \A i, j \in 0..1 : i = j => i >= j
    OBVIOUS
  <1>g. ASSUME UNCHANGED soMishaps PROVE soMishaps'.write >= soMishaps.write /\ soMishaps'.restart >= soMishaps.restart
    BY <1>g, <1>t
  <1>1. ASSUME UNCHANGED <<soAt, soPublishing, soRow, soMain, soTold, soMishaps>>, soRedis'.bus = soRedis.bus
        PROVE  SoCounted'
    <2>1. \A o : SoByMessage(o)' = SoByMessage(o) /\ SoByRow(o)' = SoByRow(o)
      BY <1>1, <1>d DEF SoByMessage, SoOnItsWay
    <2> QED BY <1>1, <1>a, <1>g, <1>r, <2>1
  <1>2. ASSUME NEW p \in Openings, SoOpen(p) PROVE SoCounted'
    <2>1. /\ soAt[p] = 0 /\ soPublishing = 0 /\ soPublishing' = p /\ soRedis' = soRedis /\ soMain' = soMain
          /\ \A o \in Openings \ {p} : soAt'[o] = soAt[o] /\ soRow'[o] = soRow[o]
          /\ soRow[p] = "none" /\ soRow'[p] # "processed" /\ soTold' = soTold
      BY <1>2 DEF SoOpen, SoTyped, SoNews
    <2>2. \A o \in Openings : SoByMessage(o)' = SoByMessage(o)
      BY <1>n, <2>1 DEF SoByMessage, SoOnItsWay
    <2>3. \A o \in Openings : SoByRow(o)' = SoByRow(o)
      BY <2>1 DEF SoByRow, SoPut, SoPolled
    <2>4. soMishaps' = soMishaps \/ (soMishaps'.write = soMishaps.write + 1 /\ soMishaps'.restart = soMishaps.restart)
      BY <1>2, SoMishapped DEF SoOpen
    <2> QED BY <1>a, <1>g, <1>r, <2>1, <2>2, <2>3, <2>4
  <1>3. ASSUME SoPublish PROVE SoCounted'
    <2>1. soPublishing \in Openings /\ soPublishing' = 0 /\ UNCHANGED <<soAt, soRow, soMain, soTold, soMishaps>>
      BY <1>3, <1>n DEF SoPublish, SoTyped
    <2>2. SoIn(soRedis'.bus) \subseteq SoIn(soRedis.bus) \union {soPublishing}
      <3>1. soRedis'.bus = Append(soRedis.bus, soPublishing) \/ soRedis' = soRedis
        BY <1>3 DEF SoPublish, SoTyped, SoRedisType
      <3> QED BY <1>n, <2>1, <3>1, SoAppended
    <2>3. \A o \in Openings : SoByMessage(o)' >= SoByMessage(o)
      BY <1>n, <2>1, <2>2 DEF SoByMessage, SoOnItsWay
    <2> QED BY <1>a, <1>d, <1>g, <1>r, <2>1, <2>3
  <1>4. ASSUME SoListen PROVE SoCounted'
    <2>1. CASE soRedis.bus # <<>> /\ soRedis' = [soRedis EXCEPT !.bus = Tail(@)] /\ SoHandle(Head(soRedis.bus))
               /\ soMain' = soMain
      <3>a. PICK h : h = Head(soRedis.bus)
        OBVIOUS
      <3>1. /\ h \in Openings /\ h \in SoIn(soRedis.bus) /\ SoIn(soRedis.bus) = {h} \union SoIn(Tail(soRedis.bus))
            /\ h \notin SoIn(Tail(soRedis.bus))
        BY <1>n, <2>1, <3>a, SoTailOf DEF SoNews
      <3>2. UNCHANGED <<soAt, soRow, soPublishing, soMishaps>> /\ soRedis'.bus = Tail(soRedis.bus)
        BY <1>4, <2>1 DEF SoListen, SoTyped, SoRedisType
      <3>3. SoByMessage(h) = 0 /\ SoByMessage(h)' = 1
        <4>1. SoOnItsWay(h) /\ soAt[h] # 0 /\ h # soPublishing
          BY <3>1 DEF SoOnItsWay, SoNews
        <4>2. ~SoOnItsWay(h)' /\ soAt'[h] # 0
          BY <3>1, <3>2, <4>1 DEF SoOnItsWay
        <4> QED BY <4>1, <4>2 DEF SoByMessage
      <3>4. \A o \in Openings : o # h => SoByMessage(o)' = SoByMessage(o)
        BY <3>1, <3>2 DEF SoByMessage, SoOnItsWay
      <3>5. \A o : SoByRow(o)' = SoByRow(o)
        BY <1>d, <2>1, <3>2
      <3>6. \A o \in Openings : SoByMessage(o)' >= SoByMessage(o) /\ SoByRow(o)' >= SoByRow(o)
        BY <1>r, <3>3, <3>4, <3>5
      <3>7. SoByMessage(h)' + SoByRow(h)' >= SoByMessage(h) + SoByRow(h) + 1
        BY <1>r, <3>3, <3>5
      <3>8. SoHandle(h)
        BY <2>1, <3>a
      <3> QED BY <1>b, <3>1, <3>2, <3>6, <3>7, <3>8
    <2>2. CASE soMain' = [soMain EXCEPT !.at = "ping"] /\ UNCHANGED <<soRedis, soLast, soTold, soSkipped, soToldAt>>
      <3>1. UNCHANGED <<soAt, soRow, soPublishing, soMishaps>> /\ soMain.at = "listen" /\ soMain'.at = "ping"
        BY <1>4, <2>2 DEF SoListen, SoTyped, SoMainType
      <3>2. \A o : SoByRow(o)' = SoByRow(o)
        BY <3>1 DEF SoByRow, SoPut
      <3> QED BY <1>a, <1>c, <1>g, <1>r, <2>2, <3>1, <3>2
    <2> QED BY <1>4, <2>1, <2>2 DEF SoListen
  <1>5. ASSUME SoPing PROVE SoCounted'
    <2>1. UNCHANGED <<soAt, soRow, soPublishing, soTold, soMishaps>> /\ (soRedis' = soRedis \/ soRedis'.bus = <<>>)
          /\ soMain.at = "ping" /\ (soMain'.at # "poll" \/ soMain'.batch = soMain'.taken)
      <3>1. UNCHANGED <<soAt, soRow, soPublishing, soTold, soMishaps>> /\ soMain.at = "ping"
        BY <1>5 DEF SoPing
      <3>2. soRedis' = soRedis \/ soRedis' = [soRedis EXCEPT !.linked = TRUE, !.bus = <<>>]
        BY <1>5 DEF SoPing
      <3>3. soRedis \in SoRedisType
        BY DEF SoTyped
      <3>4. soRedis' = soRedis \/ soRedis'.bus = <<>>
        BY <3>2, <3>3 DEF SoRedisType
      <3>5. soMain'.at # "poll" \/ soMain'.batch = soMain'.taken
        BY <1>5 DEF SoPing, SoListening
      <3> QED BY <3>1, <3>4, <3>5
    <2>2. \A o : SoByRow(o)' = SoByRow(o)
      BY <2>1 DEF SoByRow, SoPut
    <2>3. \A o \in Openings : SoByMessage(o)' >= SoByMessage(o)
      BY <1>c, <1>e, <1>r, <2>1
    <2> QED BY <1>a, <1>g, <1>r, <2>1, <2>2, <2>3
  <1>6. ASSUME SoTake PROVE SoCounted'
    <2>a. PICK h : h = Head(soMain.batch)
      OBVIOUS
    <2>1. /\ soMain.at = "poll" /\ soMain.batch # <<>> /\ SoHandle(h)
          /\ soMain'.at = "poll" /\ soMain'.batch = Tail(soMain.batch) /\ soMain'.taken = soMain.taken
          /\ UNCHANGED <<soAt, soRow, soPublishing, soRedis, soMishaps>>
      BY <1>6, <2>a DEF SoTake, SoTyped, SoMainType
    <2>2. /\ h \in Openings /\ h \in SoIn(soMain.batch) /\ SoIn(soMain.batch) = {h} \union SoIn(Tail(soMain.batch))
          /\ h \notin SoIn(Tail(soMain.batch)) /\ h \in SoIn(soMain.taken) /\ soRow[h] = "pending"
      <3>1. /\ h \in Openings /\ h \in SoIn(soMain.batch) /\ SoIn(soMain.batch) = {h} \union SoIn(Tail(soMain.batch))
            /\ SoOnce(soMain.batch) => h \notin SoIn(Tail(soMain.batch))
        BY <1>n, <2>1, <2>a, SoTailOf
      <3> QED BY <2>1, <3>1 DEF SoPolled
    <2>3. SoByRow(h) = 0 /\ SoByRow(h)' = 1
      BY <2>1, <2>2 DEF SoByRow, SoPut
    <2>4. \A o \in Openings : o # h => SoByRow(o)' = SoByRow(o)
      BY <2>1, <2>2 DEF SoByRow, SoPut
    <2>5. \A o : SoByMessage(o)' = SoByMessage(o)
      BY <1>c, <2>1
    <2>6. \A o \in Openings : SoByMessage(o)' >= SoByMessage(o) /\ SoByRow(o)' >= SoByRow(o)
      BY <1>r, <2>3, <2>4, <2>5
    <2>7. SoByMessage(h)' + SoByRow(h)' >= SoByMessage(h) + SoByRow(h) + 1
      BY <1>r, <2>3, <2>5
    <2> QED BY <1>b, <2>1, <2>2, <2>6, <2>7
  <1>7. ASSUME SoMark PROVE SoCounted'
    <2>1. /\ soMain.at = "poll" /\ soMain.batch = <<>> /\ soMain'.at = "ping"
          /\ UNCHANGED <<soAt, soPublishing, soRedis, soTold>>
      BY <1>7 DEF SoMark, SoTyped, SoMainType
    <2>2. CASE soRow' = [o \in Openings |-> IF o \in SoMarks THEN "processed" ELSE soRow[o]] /\ UNCHANGED soMishaps
      <3>1. SoMarks = SoIn(soMain.taken)
        <4>1. DOMAIN soMain.taken = 1..Len(soMain.taken)
          BY <1>n
        <4> QED BY <4>1 DEF SoMarks, SoIn
      <3>2. \A o \in Openings : SoByRow(o) = 1 => SoByRow(o)' = 1
        BY <2>1, <2>2, <3>1 DEF SoByRow, SoPut
      <3> QED BY <1>a, <1>c, <1>g, <1>r, <2>1, <2>2, <3>2
    <2>3. CASE SoMishap("write")
      <3>1. soMishaps'.write = soMishaps.write + 1 /\ soMishaps'.restart = soMishaps.restart
        BY <2>3, SoMishapped
      <3> QED BY <1>a, <1>c, <1>r, <2>1, <3>1
    <2> QED BY <1>7, <2>2, <2>3 DEF SoMark
  <1>8. ASSUME SoOutage PROVE SoCounted'
    <2>1. UNCHANGED <<soAt, soRow, soPublishing, soMain, soTold>> /\ soRedis'.bus = <<>>
      BY <1>8 DEF SoOutage
    <2>2. soMishaps'.write = soMishaps.write /\ soMishaps'.restart = soMishaps.restart
      BY <1>8, SoMishapped DEF SoOutage
    <2> QED BY <1>a, <1>d, <1>e, <1>r, <1>t, <2>1, <2>2
  <1>9. ASSUME SoRestart PROVE SoCounted'
    <2>1. UNCHANGED <<soAt, soRow, soTold>> /\ soPublishing' = 0 /\ soRedis'.bus = <<>> /\ soMain'.at # "poll"
      BY <1>9 DEF SoRestart, SoTyped, SoRedisType, SoListening
    <2>2. \A o \in Openings : SoByMessage(o)' >= SoByMessage(o)
      BY <1>e, <2>1
    <2>3. CASE soMain.at # "down" /\ SoMishap("restart")
      <3>1. soMishaps'.restart = soMishaps.restart + 1 /\ soMishaps'.write = soMishaps.write
        BY <2>3, SoMishapped
      <3> QED BY <1>a, <2>1, <2>2, <3>1
    <2>4. CASE soMain.at = "down" /\ UNCHANGED soMishaps
      <3>1. \A o : SoByRow(o)' = SoByRow(o)
        BY <2>1, <2>4 DEF SoByRow, SoPut
      <3> QED BY <1>a, <1>g, <1>r, <2>1, <2>2, <2>4, <3>1
    <2> QED BY <1>9, <2>3, <2>4 DEF SoRestart
  <1>10. ASSUME SoTick \/ SoBack \/ UNCHANGED soVars PROVE SoCounted'
    <2>1. UNCHANGED <<soAt, soPublishing, soRow, soMain, soTold, soMishaps>> /\ soRedis'.bus = soRedis.bus
      BY <1>10 DEF SoTick, SoBack, soVars, SoTyped, SoRedisType
    <2> QED BY <1>1, <2>1
  <1> QED BY <1>2, <1>3, <1>4, <1>5, <1>6, <1>7, <1>8, <1>9, <1>10 DEF SoNext

\* Openings come a day apart.
LEMMA SoApartStep ==
    ASSUME SoTyped, SoApart, [SoNext]_soVars
    PROVE  SoApart'
  <1>n. SoOpens \in Nat /\ Openings = 1..SoOpens /\ SoDay \in Nat /\ SoDay > SoWindow /\ soClock \in Nat \ {0}
        /\ soAt \in [Openings -> Nat] /\ SoWindow \in Nat \ {0}
    BY SoAssumption DEF Openings, SoTyped
  <1>1. ASSUME NEW o \in Openings, SoOpen(o) PROVE SoApart'
    <2>1. /\ soAt[o] = 0 /\ soAt' = [soAt EXCEPT ![o] = soClock] /\ soClock' = soClock
          /\ \A q \in 1..(o - 1) : soAt[q] # 0 /\ soClock >= soAt[q] + SoDay
      BY <1>1 DEF SoOpen
    <2>2. soAt'[o] = soClock /\ \A p \in Openings \ {o} : soAt'[p] = soAt[p]
      BY <1>n, <2>1
    <2>3. ASSUME NEW p \in Openings, soAt'[p] # 0, NEW q \in Openings, q < p
          PROVE  soAt'[q] # 0 /\ soAt'[p] >= soAt'[q] + SoDay
      <3>1. CASE p = o
        <4>1. q \in 1..(o - 1) /\ q # o
          BY <1>n, <2>3, <3>1
        <4> QED BY <2>1, <2>2, <3>1, <4>1
      <3>2. CASE p # o
        <4>1. soAt[p] # 0 /\ soAt[q] # 0 /\ soAt[p] >= soAt[q] + SoDay
          BY <2>2, <2>3, <3>2 DEF SoApart
        <4>2. q # o
          BY <2>1, <4>1
        <4> QED BY <2>2, <3>2, <4>1, <4>2
      <3> QED BY <3>1, <3>2
    <2>4. \A p \in Openings : soAt'[p] <= soClock'
      BY <1>n, <2>1, <2>2 DEF SoApart
    <2> QED BY <2>3, <2>4 DEF SoApart
  <1>2. ASSUME soAt' = soAt, soClock' \in {soClock, soClock + 1} PROVE SoApart'
    BY <1>n, <1>2 DEF SoApart
  <1> QED BY <1>1, <1>2 DEF SoNext, soVars, SoTick, SoPublish, SoListen, SoPing, SoTake,
             SoMark, SoOutage, SoBack, SoRestart

\* In peace an opening is told of when it is heard, unless the host has just come up.
LEMMA SoInPeaceStep ==
    ASSUME SoTyped, SoNews, SoApart, SoInPeace, [SoNext]_soVars
    PROVE  SoInPeace'
  <1>n. SoOpens \in Nat /\ Openings = 1..SoOpens /\ 0 \notin Openings /\ SoDay \in Nat /\ SoDay > SoWindow
        /\ soClock \in Nat \ {0} /\ soAt \in [Openings -> Nat] /\ SoWindow \in Nat \ {0}
        /\ soRedis.bus \in Seq(Openings) /\ soTold \in [Openings -> Nat] /\ (soRedis.linked => soRedis.up)
        /\ soPublishing \in Nat /\ soLast \in Nat
    BY SoAssumption DEF Openings, SoTyped, SoRedisType
  <1>p. SoPeaceful' => SoPeaceful /\ ~SoOutage /\ ~(soMain.at # "down" /\ SoMishap("restart"))
    <2>1. /\ soMishaps.outage \in Nat /\ soMishaps.write \in Nat /\ soMishaps.restart \in Nat
      BY DEF SoTyped
    <2>2. ASSUME NEW kind \in {"outage", "write", "restart"}, SoMishap(kind), SoPeaceful'
          PROVE  SoPeaceful /\ kind = "write"
      BY <2>1, <2>2, SoMishapped DEF SoPeaceful
    <2>3. soMishaps' = soMishaps => (SoPeaceful' => SoPeaceful)
      BY DEF SoPeaceful
    <2> QED BY <2>2, <2>3 DEF SoNext, soVars, SoTick, SoOpen, SoPublish, SoListen, SoPing,
               SoTake, SoMark, SoOutage, SoBack,
              SoRestart
  <1> SUFFICES ASSUME SoPeaceful' PROVE SoInPeace'
    BY DEF SoInPeace
  <1>i. /\ soMain.at = "listen" /\ soRedis.linked
        /\ \A o \in Openings :
              /\ soTold[o] <= 1
              /\ soAt[o] = 0 \/ SoOnItsWay(o) => soTold[o] = 0
              /\ SoOnItsWay(o) => soAt[o] = soClock
              /\ soAt[o] >= SoWindow /\ ~SoOnItsWay(o) => soTold[o] = 1
        /\ soLast # 0 => \E q \in Openings : soAt[q] = soLast /\ soTold[q] = 1
    BY <1>p DEF SoInPeace
  <1>1. ASSUME SoTick PROVE SoInPeace'
    <2>1. soPublishing = 0 /\ soRedis.bus = <<>> /\ UNCHANGED <<soRedis, soPublishing, soMain, soLast, soAt, soTold>>
      BY <1>1, <1>i DEF SoTick
    <2>2. \A o \in Openings : ~SoOnItsWay(o) /\ ~SoOnItsWay(o)'
      BY <1>n, <2>1, SoEmpty DEF SoOnItsWay
    <2> QED BY <1>i, <2>1, <2>2 DEF SoInPeace
  <1>2. ASSUME NEW o \in Openings, SoOpen(o) PROVE SoInPeace'
    <2>1. /\ soAt[o] = 0 /\ soPublishing = 0 /\ soPublishing' = o
          /\ UNCHANGED <<soRedis, soMain, soLast, soTold, soClock>>
          /\ soAt' = [soAt EXCEPT ![o] = soClock]
      BY <1>2 DEF SoOpen
    <2>2. soAt'[o] = soClock /\ \A p \in Openings \ {o} : soAt'[p] = soAt[p]
      BY <1>n, <2>1
    <2>3. SoOnItsWay(o)' /\ \A p \in Openings \ {o} : SoOnItsWay(p)' = SoOnItsWay(p)
      BY <1>n, <2>1 DEF SoOnItsWay
    <2>4. soLast' # 0 => \E q \in Openings : soAt'[q] = soLast' /\ soTold'[q] = 1
      BY <1>i, <2>1, <2>2
    <2>5. \A p \in Openings :
              /\ soTold'[p] <= 1
              /\ soAt'[p] = 0 \/ SoOnItsWay(p)' => soTold'[p] = 0
              /\ SoOnItsWay(p)' => soAt'[p] = soClock'
              /\ soAt'[p] >= SoWindow /\ ~SoOnItsWay(p)' => soTold'[p] = 1
      BY <1>i, <2>1, <2>2, <2>3
    <2> QED BY <1>i, <2>1, <2>4, <2>5 DEF SoInPeace
  <1>3. ASSUME SoPublish PROVE SoInPeace'
    <2>1. /\ soPublishing \in Openings /\ soPublishing' = 0 /\ UNCHANGED <<soAt, soMain, soLast, soTold, soClock>>
          /\ soRedis' = [soRedis EXCEPT !.bus = Append(@, soPublishing)]
      BY <1>3, <1>i, <1>n DEF SoPublish, SoTyped
    <2>2. soRedis'.linked /\ SoIn(soRedis'.bus) = SoIn(soRedis.bus) \union {soPublishing}
      <3>1. soRedis'.linked = soRedis.linked /\ soRedis'.bus = Append(soRedis.bus, soPublishing)
        BY <2>1 DEF SoTyped, SoRedisType
      <3> QED BY <1>i, <1>n, <2>1, <3>1, SoAppended
    <2>3. \A p \in Openings : SoOnItsWay(p)' = SoOnItsWay(p)
      BY <1>n, <2>1, <2>2 DEF SoOnItsWay
    <2> QED BY <1>i, <2>1, <2>2, <2>3 DEF SoInPeace
  <1>4. ASSUME SoListen PROVE SoInPeace'
    <2>a. PICK h : h = Head(soRedis.bus)
      OBVIOUS
    <2>1. /\ soRedis.bus # <<>> /\ soRedis' = [soRedis EXCEPT !.bus = Tail(@)] /\ SoHandle(h) /\ soMain' = soMain
          /\ UNCHANGED <<soClock, soAt, soPublishing>>
      BY <1>4, <1>i, <2>a DEF SoListen
    <2>2. /\ h \in Openings /\ h \in SoIn(soRedis.bus) /\ SoIn(soRedis.bus) = {h} \union SoIn(Tail(soRedis.bus))
          /\ h \notin SoIn(Tail(soRedis.bus))
      BY <1>n, <2>1, <2>a, SoTailOf DEF SoNews
    <2>3. soRedis'.bus = Tail(soRedis.bus) /\ soRedis'.linked
      BY <1>i, <2>1 DEF SoTyped, SoRedisType
    <2>4. SoOnItsWay(h) /\ ~SoOnItsWay(h)' /\ \A p \in Openings \ {h} : SoOnItsWay(p)' = SoOnItsWay(p)
      BY <2>1, <2>2, <2>3 DEF SoOnItsWay, SoNews
    <2>5. soTold[h] = 0 /\ soAt[h] = soClock
      BY <1>i, <2>2, <2>4
    <2>6. CASE soClock - soLast < SoWindow
      <3>1. soTold' = soTold /\ soLast' = soLast
        BY <2>1, <2>6 DEF SoHandle, SoLastStays
      <3>2. soAt[h] < SoWindow
        <4>1. CASE soLast = 0
          BY <1>n, <2>5, <2>6, <4>1
        <4>2. CASE soLast # 0
          <5>1. PICK q \in Openings : soAt[q] = soLast /\ soTold[q] = 1
            BY <1>i, <4>2
          <5>2. q # h /\ soAt[q] <= soClock /\ q \in Nat /\ h \in Nat
            BY <1>n, <2>2, <2>5, <5>1 DEF SoApart
          <5>3. CASE q < h
            <6>1. soAt[h] >= soAt[q] + SoDay
              BY <1>n, <2>2, <2>5, <5>3 DEF SoApart
            <6> QED BY <1>n, <2>5, <2>6, <5>1, <6>1
          <5>4. CASE h < q
            <6>1. soAt[q] >= soAt[h] + SoDay
              BY <2>2, <4>2, <5>1, <5>4 DEF SoApart
            <6> QED BY <1>n, <2>5, <5>1, <5>2, <6>1
          <5> QED BY <5>2, <5>3, <5>4
        <4> QED BY <4>1, <4>2
      <3>3. \A p \in Openings :
              /\ soTold'[p] <= 1
              /\ soAt'[p] = 0 \/ SoOnItsWay(p)' => soTold'[p] = 0
              /\ SoOnItsWay(p)' => soAt'[p] = soClock'
              /\ soAt'[p] >= SoWindow /\ ~SoOnItsWay(p)' => soTold'[p] = 1
        BY <1>i, <1>n, <2>1, <2>4, <2>5, <3>1, <3>2
      <3>4. soLast' # 0 => \E q \in Openings : soAt'[q] = soLast' /\ soTold'[q] = 1
        BY <1>i, <2>1, <3>1
      <3> QED BY <1>i, <2>1, <2>3, <3>3, <3>4 DEF SoInPeace
    <2>7. CASE ~(soClock - soLast < SoWindow)
      <3>1. soTold' = [soTold EXCEPT ![h] = @ + 1] /\ soLast' = soClock
        BY <2>1, <2>7 DEF SoHandle
      <3>2. soTold'[h] = 1 /\ \A p \in Openings \ {h} : soTold'[p] = soTold[p]
        BY <1>n, <2>2, <2>5, <3>1
      <3>3. \A p \in Openings :
              /\ soTold'[p] <= 1
              /\ soAt'[p] = 0 \/ SoOnItsWay(p)' => soTold'[p] = 0
              /\ SoOnItsWay(p)' => soAt'[p] = soClock'
              /\ soAt'[p] >= SoWindow /\ ~SoOnItsWay(p)' => soTold'[p] = 1
        BY <1>i, <1>n, <2>1, <2>4, <2>5, <3>2
      <3>4. \E q \in Openings : soAt'[q] = soLast' /\ soTold'[q] = 1
        BY <2>1, <2>2, <2>5, <3>1, <3>2
      <3> QED BY <1>i, <2>1, <2>3, <3>3, <3>4 DEF SoInPeace
    <2> QED BY <2>6, <2>7
  <1>5. ASSUME UNCHANGED soVars PROVE SoInPeace'
    BY <1>5, <1>i DEF soVars, SoInPeace, SoOnItsWay
  <1> QED BY <1>p, <1>i, <1>n, <1>1, <1>2, <1>3, <1>4, <1>5
             DEF SoNext, SoPing, SoTake, SoMark, SoBack, SoRestart

\* Nothing has opened yet.
LEMMA SoAtFirst == SoInit => SoInductive
  <1> SUFFICES ASSUME SoInit PROVE SoInductive
    OBVIOUS
  <1>n. SoOpens \in Nat /\ Openings = 1..SoOpens /\ 0 \notin Openings /\ SoEnd \in Nat \ {0}
    BY SoAssumption DEF Openings
  <1>1. SoTyped
    BY <1>n, SoEmpty DEF SoInit, SoTyped, SoListening, SoMainType, SoPlaces, SoRedisType, SoSkip
  <1>2. SoPolled /\ SoApart /\ SoMarkedWasHeard /\ SoToldLately
    BY <1>n DEF SoInit, SoListening, SoPolled, SoApart, SoMarkedWasHeard, SoToldLately
  <1>3. \A o \in Openings : ~SoOnItsWay(o)
    BY <1>n, SoEmpty DEF SoInit, SoOnItsWay
  <1>4. SoNews
    BY <1>3, SoEmpty DEF SoInit, SoNews
  <1>5. SoCounted
    BY DEF SoInit, SoCounted, SoByMessage, SoByRow
  <1>6. SoInPeace
    BY <1>3, SoAssumption DEF SoInit, SoInPeace, SoListening
  <1> QED BY <1>1, <1>2, <1>4, <1>5, <1>6 DEF SoInductive

\* What the sessions are told of the markets' openings.
LEMMA SoInvariant == SoInit /\ [][SoNext]_soVars => []SoInv
  <1>1. SoInductive /\ [SoNext]_soVars => SoInductive'
    BY SoTypedStep, SoPolledStep, SoNewsStep, SoCountedStep, SoApartStep, SoInPeaceStep,
       SoHears DEF SoInductive
  <1>2. SoInductive => SoInv
    <2> SUFFICES ASSUME SoInductive PROVE SoInv
      OBVIOUS
    <2> USE DEF SoInductive
    <2>n. SoOpens \in Nat /\ Openings = 1..SoOpens /\ SoWindow \in Nat \ {0} /\ SoEnd \in Nat \ {0}
      BY SoAssumption DEF Openings
    <2>1. SoTypeOK
      BY <2>n DEF SoTyped, SoTypeOK, SoMainType, SoPlaces
    <2>2. SoTwiceAtMost
      <3> SUFFICES ASSUME NEW o \in Openings PROVE soTold[o] <= 2 + soMishaps.write + soMishaps.restart
        BY DEF SoTwiceAtMost
      <3>1. SoByMessage(o) \in 0..1 /\ SoByRow(o) \in 0..1
        BY DEF SoByMessage, SoByRow
      <3>2. soMishaps.write \in Nat /\ soMishaps.restart \in Nat /\ soTold[o] \in Nat
        BY DEF SoTyped
      <3>3. soTold[o] <= SoByMessage(o) + SoByRow(o) + soMishaps.write + soMishaps.restart
        BY DEF SoCounted
      <3> QED BY <3>1, <3>2, <3>3
    <2>3. SoOnceInPeace
      BY <2>n, SoEmpty DEF SoOnceInPeace, SoInPeace, SoPeaceful, SoOnItsWay
    <2> QED BY <2>1, <2>2, <2>3 DEF SoInv
  <1> QED BY <1>1, <1>2, SoAtFirst, PTL

-----------------------------------------------------------------------------
(* A call through the KIS adapter.                                            *)

KcPlacesAt == {"idle", "look", "judge", "reset", "gate", "ask", "send", "fail", "trip", "done"}
KcAnswers == {"none", "submitted", "rejected", "closed", "unknown", "raised", "true", "false", "found", "absent"}
KcCallType ==
    [at : KcPlacesAt,
     kind : KcKinds \cup {"none"}, try : 1..KcTries, page : 1..KcMaxPages,
     order : {"none", "live", "twice", "cancelled", "filled"}, listed : 0..(KcMaxPages + 1),
     of : 1..(KcMaxPages + 1), sent : BOOLEAN, res : KcAnswers]
KcBreakerType == [failures : 0..KcThreshold, tripped : {"no", "within", "past"}]

\* What a call has done so far, and what its caller is to be told.
KcPlaces(c) ==
    c.kind = "place" =>
        /\ c.order \in {"none", "live"}
        /\ c.at \notin {"fail", "trip", "done"} => c.order = "none"
        /\ c.at \in {"fail", "trip", "done"} =>
              /\ c.order = "live" => c.res \in {"submitted", "unknown"}
              /\ c.res = "submitted" => c.order = "live"
KcCancels(c) ==
    c.kind = "cancel" =>
        /\ c.order \in {"live", "cancelled", "filled"}
        /\ c.at = "done" /\ c.res = "true" => c.order = "cancelled"
KcInquires(c) ==
    c.kind = "status" =>
        /\ c.listed <= c.of
        /\ c.at \in {"ask", "send"} => c.listed = 0 \/ c.page <= c.listed
        /\ c.at = "done" /\ c.res = "absent" => c.listed = 0
        /\ c.at = "done" /\ c.res = "found" => c.listed # 0
KcSane(c) ==
    /\ c \in KcCallType /\ KcPlaces(c) /\ KcCancels(c) /\ KcInquires(c)
    /\ c.kind \in {"none", "status", "price"} => c.order = "none"
    /\ c.at # "idle" => c.kind \in KcKinds
    /\ c.at \in {"look", "judge", "reset", "gate", "fail", "trip"} => c.kind \in KcMetered

\* Who was held back has sent nothing, and the breaker that holds it is tripped.
KcHolds ==
    /\ kcBreaker \in KcBreakerType /\ kcHeld \subseteq KcThreads
    /\ kcHeld # {} => kcBreaker.tripped # "no"
    /\ \A t \in kcHeld : kcCall[t].at \in {"look", "judge", "reset", "done"} /\ ~kcCall[t].sent

KcCalls == kcCall \in [KcThreads -> KcCallType] /\ \A t \in KcThreads : KcSane(kcCall[t])

\* A thread begins with nothing.
LEMMA KcNoneIsSane == ASSUME KcAssumption PROVE KcSane(KcNone)
  <1>1. KcTries \in Nat \ {0} /\ KcMaxPages \in Nat \ {0}
    BY DEF KcAssumption
  <1>2. KcNone \in KcCallType
    BY <1>1 DEF KcNone, KcCallType, KcPlacesAt, KcAnswers
  <1> QED BY <1>2 DEF KcSane, KcPlaces, KcCancels, KcInquires, KcNone

\* An error is told, whatever has been asked for.
LEMMA KcErrsSane ==
    ASSUME KcAssumption, NEW c \in KcCallType, NEW t, NEW answer \in {"error", "refused", "silence"},
           c.kind \in KcKinds, c.order # "twice", KcInquires(c), KcCancels(c),
           c.kind = "place" => c.order = "none" \/ (c.order = "live" /\ answer # "refused"),
           c.kind \in {"status", "price"} => c.order = "none",
           NEW d, d = [c EXCEPT !.at = IF c.kind \in KcMetered THEN "fail" ELSE "done",
                                !.res = CASE c.kind = "place" -> KcVerdict(answer)
                                          [] c.kind = "cancel" -> "false"
                                          [] OTHER -> "raised"]
    PROVE  KcSane(d) /\ d.sent = c.sent
  <1>1. PICK r \in {"rejected", "unknown", "false", "raised"} :
            /\ r = CASE c.kind = "place" -> KcVerdict(answer) [] c.kind = "cancel" -> "false" [] OTHER -> "raised"
            /\ c.kind = "place" => r = KcVerdict(answer)
            /\ c.kind # "place" => r \in {"false", "raised"}
    BY DEF KcVerdict
  <1>2. PICK a \in {"fail", "done"} : a = IF c.kind \in KcMetered THEN "fail" ELSE "done"
    OBVIOUS
  <1>3. d = [c EXCEPT !.at = a, !.res = r]
    BY <1>1, <1>2
  <1>4. d \in KcCallType
    BY <1>3 DEF KcCallType, KcPlacesAt, KcAnswers
  <1>5. /\ d.at = a /\ d.res = r /\ d.kind = c.kind /\ d.order = c.order /\ d.listed = c.listed /\ d.of = c.of
        /\ d.sent = c.sent /\ d.page = c.page
    BY <1>3 DEF KcCallType
  <1>6. KcPlaces(d)
    BY <1>1, <1>5 DEF KcPlaces, KcVerdict
  <1>7. KcCancels(d) /\ KcInquires(d)
    BY <1>1, <1>2, <1>5 DEF KcCancels, KcInquires
  <1> QED BY <1>4, <1>5, <1>6, <1>7 DEF KcSane, KcKinds

\* A call that is of a kind holds numbers within their bounds.
LEMMA KcFields ==
    ASSUME KcAssumption, NEW c \in KcCallType
    PROVE  /\ c.try \in Nat /\ 1 <= c.try /\ c.try <= KcTries /\ c.page \in Nat /\ 1 <= c.page /\ c.page <= KcMaxPages
           /\ c.listed \in Nat /\ c.listed <= KcMaxPages + 1 /\ c.of \in Nat /\ 1 <= c.of /\ c.of <= KcMaxPages + 1
           /\ c.sent \in BOOLEAN /\ KcTries \in Nat /\ KcMaxPages \in Nat /\ KcThreshold \in Nat \ {0} /\ KcTries >= 1
  <1>1. KcTries \in Nat \ {0} /\ KcMaxPages \in Nat \ {0} /\ KcThreshold \in Nat \ {0}
    BY DEF KcAssumption
  <1> QED BY <1>1 DEF KcCallType

\* One thread's step: its call stays sane, and it sends nothing while it is held.
KcStays(t) ==
    /\ \E d : KcSane(d) /\ kcCall' = [kcCall EXCEPT ![t] = d]
    /\ KcHolds'

\* A step that only changes where a thread is, or what it tells.
LEMMA KcMoved ==
    ASSUME NEW c \in KcCallType, NEW at \in KcPlacesAt, NEW res \in KcAnswers
    PROVE  /\ [c EXCEPT !.at = at] \in KcCallType /\ [c EXCEPT !.at = at, !.res = res] \in KcCallType
           /\ [c EXCEPT !.at = at] = [c EXCEPT !.at = at, !.res = c.res]
           /\ [c EXCEPT !.at = at, !.res = res].at = at /\ [c EXCEPT !.at = at, !.res = res].res = res
           /\ [c EXCEPT !.at = at, !.res = res].kind = c.kind /\ [c EXCEPT !.at = at, !.res = res].order = c.order
           /\ [c EXCEPT !.at = at, !.res = res].listed = c.listed /\ [c EXCEPT !.at = at, !.res = res].of = c.of
           /\ [c EXCEPT !.at = at, !.res = res].page = c.page /\ [c EXCEPT !.at = at, !.res = res].sent = c.sent
           /\ c.res \in KcAnswers
  BY DEF KcCallType

\* A call begins.
LEMMA KcBeginStep ==
    ASSUME KcAssumption, KcCalls, KcHolds, NEW t \in KcThreads, KcBegin(t) PROVE KcStays(t)
  <1>1. PICK kind \in KcKinds, of \in 1..(KcMaxPages + 1), listed \in 0..(KcMaxPages + 1) :
            /\ listed <= of
            /\ kind # "status" => of = 1 /\ listed = 0
            /\ kcCall' = [kcCall EXCEPT ![t] =
                   [KcNone EXCEPT !.at = IF kind \in KcMetered THEN "look" ELSE "ask",
                                  !.kind = kind, !.of = of, !.listed = listed,
                                  !.order = IF kind = "cancel" THEN "live" ELSE "none"]]
            /\ kcHeld' = IF kind \in KcMetered /\ kcBreaker.tripped # "no" THEN kcHeld \cup {t} ELSE kcHeld
            /\ kcBreaker' = kcBreaker /\ kcCall[t].at = "idle"
    <2>1. KcMaxPages \in Nat
      BY DEF KcAssumption
    <2>2. PICK kind \in KcKinds, of \in 1..(KcMaxPages + 1) : \E listed \in 0..of :
            /\ kind # "status" => of = 1 /\ listed = 0
            /\ kcCall' = [kcCall EXCEPT ![t] =
                   [KcNone EXCEPT !.at = IF kind \in KcMetered THEN "look" ELSE "ask",
                                  !.kind = kind, !.of = of, !.listed = listed,
                                  !.order = IF kind = "cancel" THEN "live" ELSE "none"]]
            /\ kcHeld' = IF kind \in KcMetered /\ kcBreaker.tripped # "no" THEN kcHeld \cup {t} ELSE kcHeld
      BY DEF KcBegin
    <2>3. \A listed \in 0..of : listed \in 0..(KcMaxPages + 1) /\ listed <= of
      BY <2>1
    <2>4. kcBreaker' = kcBreaker /\ kcCall[t].at = "idle"
      BY DEF KcBegin, KcAt
    <2> QED BY <2>2, <2>3, <2>4
  <1>2. PICK a \in {"look", "ask"}, order \in {"live", "none"} :
            /\ a = IF kind \in KcMetered THEN "look" ELSE "ask"
            /\ order = IF kind = "cancel" THEN "live" ELSE "none"
    OBVIOUS
  <1>3. PICK d : d = [KcNone EXCEPT !.at = a, !.kind = kind, !.of = of, !.listed = listed, !.order = order]
    OBVIOUS
  <1>4. KcMaxPages \in Nat \ {0} /\ KcTries \in Nat \ {0}
    BY DEF KcAssumption
  <1>5. d \in KcCallType
    <2>1. d = [at |-> a, kind |-> kind, try |-> 1, page |-> 1, order |-> order, listed |-> listed, of |-> of,
               sent |-> FALSE, res |-> "none"]
      BY <1>3 DEF KcNone
    <2>2. 1 \in 1..KcTries /\ 1 \in 1..KcMaxPages
      BY <1>4
    <2> QED BY <2>1, <2>2 DEF KcCallType, KcPlacesAt, KcAnswers
  <1>6. /\ d.at = a /\ d.kind = kind /\ d.of = of /\ d.listed = listed /\ d.order = order /\ d.page = 1
        /\ d.sent = FALSE /\ d.res = "none"
    BY <1>3 DEF KcNone
  <1>7. KcSane(d)
    <2>1. KcPlaces(d) /\ KcCancels(d)
      BY <1>2, <1>6 DEF KcPlaces, KcCancels
    <2>2. KcInquires(d)
      BY <1>1, <1>2, <1>4, <1>6 DEF KcInquires
    <2> QED BY <1>2, <1>5, <1>6, <2>1, <2>2 DEF KcSane
  <1>8. kcCall' = [kcCall EXCEPT ![t] = d]
    BY <1>1, <1>2, <1>3
  <1>9. kcCall'[t] = d /\ \A u \in KcThreads \ {t} : kcCall'[u] = kcCall[u]
    BY <1>8 DEF KcCalls
  <1>10. KcHolds'
    <2>1. kind \in KcMetered => a = "look"
      BY <1>2
    <2> QED BY <1>1, <1>6, <1>9, <2>1 DEF KcHolds
  <1> QED BY <1>7, <1>8, <1>10 DEF KcStays


\* A metered call goes on, before it has asked.
LEMMA KcGoesOn ==
    ASSUME NEW c \in KcCallType, KcSane(c), c.at \in {"look", "judge", "reset", "gate"},
           NEW at \in {"judge", "reset", "gate", "ask"}, NEW d, d = [c EXCEPT !.at = at]
    PROVE  KcSane(d) /\ d.at = at /\ d.sent = c.sent
  <1>1. /\ d \in KcCallType /\ d.at = at /\ d.kind = c.kind /\ d.order = c.order /\ d.sent = c.sent
    BY DEF KcPlacesAt, KcCallType
  <1>2. c.kind \in KcMetered /\ (c.kind = "place" => c.order = "none") /\ (c.kind = "price" => c.order = "none")
    BY DEF KcSane, KcPlaces
  <1>3. KcPlaces(d) /\ KcCancels(d) /\ KcInquires(d)
    BY <1>1, <1>2 DEF KcPlaces, KcCancels, KcInquires, KcMetered
  <1> QED BY <1>1, <1>2, <1>3 DEF KcSane, KcMetered, KcKinds

\* Or ends there.
LEMMA KcEndsThere ==
    ASSUME NEW c \in KcCallType, KcSane(c), c.at \in {"look", "judge", "reset", "gate"}
    PROVE  \A res \in {"raised", "rejected", "closed"} :
              /\ KcSane([c EXCEPT !.at = "done", !.res = res]) /\ [c EXCEPT !.at = "done", !.res = res].at = "done"
              /\ [c EXCEPT !.at = "done", !.res = res].sent = c.sent
  <1>1. SUFFICES ASSUME NEW res \in {"raised", "rejected", "closed"}, NEW d, d = [c EXCEPT !.at = "done", !.res = res]
                 PROVE  KcSane(d) /\ d.at = "done" /\ d.sent = c.sent
    OBVIOUS
  <1>2. /\ d \in KcCallType /\ d.at = "done" /\ d.res = res /\ d.kind = c.kind /\ d.order = c.order /\ d.sent = c.sent
    BY <1>1 DEF KcPlacesAt, KcAnswers, KcCallType
  <1>3. c.kind \in KcMetered /\ (c.kind = "place" => c.order = "none") /\ (c.kind = "price" => c.order = "none")
    BY DEF KcSane, KcPlaces
  <1>4. KcPlaces(d) /\ KcCancels(d) /\ KcInquires(d)
    BY <1>1, <1>2, <1>3 DEF KcPlaces, KcCancels, KcInquires, KcMetered
  <1> QED BY <1>2, <1>3, <1>4 DEF KcSane, KcMetered, KcKinds

\* A failure is counted before the call ends.
LEMMA KcCounts ==
    ASSUME NEW c \in KcCallType, KcSane(c), c.at \in {"fail", "trip"}, NEW at \in {"trip", "done"},
           NEW d, d = [c EXCEPT !.at = at]
    PROVE  KcSane(d)
  <1>1. /\ d \in KcCallType /\ d.at = at /\ d.kind = c.kind /\ d.order = c.order /\ d.sent = c.sent /\ d.res = c.res
    BY DEF KcPlacesAt, KcCallType
  <1>2. c.kind \in KcMetered
    BY DEF KcSane
  <1>3. KcPlaces(d) /\ KcCancels(d) /\ KcInquires(d)
    BY <1>1, <1>2 DEF KcPlaces, KcCancels, KcInquires, KcMetered, KcSane
  <1> QED BY <1>1, <1>2, <1>3 DEF KcSane, KcMetered, KcKinds

\* What stays of the breaker and of those it holds, when one thread moves.
LEMMA KcHoldsOn ==
    ASSUME KcCalls, KcHolds, NEW t \in KcThreads, NEW d, kcCall' = [kcCall EXCEPT ![t] = d],
           UNCHANGED <<kcBreaker, kcHeld>>,
           t \in kcHeld => d.at \in {"look", "judge", "reset", "done"} /\ ~d.sent
    PROVE  KcHolds'
  BY DEF KcCalls, KcHolds

\* The breaker closes.
LEMMA KcHoldsNone == ASSUME KcAssumption, KcClosed PROVE KcHolds'
  <1>1. KcThreshold \in Nat
    BY DEF KcAssumption
  <1> QED BY <1>1 DEF KcClosed, KcHolds, KcBreakerType

\* The steps of the breaker.
LEMMA KcBreakerStep ==
    ASSUME KcAssumption, KcCalls, KcHolds, NEW t \in KcThreads,
           KcLook(t) \/ KcJudge(t) \/ KcReset(t) \/ KcFail(t) \/ KcTrip(t) \/ KcGate(t)
    PROVE  KcStays(t)
  <1>1. PICK c \in KcCallType : c = kcCall[t] /\ KcSane(c) /\ c.res \in KcAnswers /\ c.at \in KcPlacesAt
    BY DEF KcCalls, KcCallType, KcAnswers, KcPlacesAt
  <1>2. c.kind \in KcMetered /\ c.at \in {"look", "judge", "reset", "gate", "fail", "trip"}
    BY <1>1 DEF KcLook, KcJudge, KcReset, KcFail, KcTrip, KcGate, KcAt, KcSane
  <1>3. ASSUME NEW at, KcGo(t, at) PROVE kcCall' = [kcCall EXCEPT ![t] = [c EXCEPT !.at = at]]
    BY <1>1, <1>3 DEF KcGo, KcCalls
  <1>4. ASSUME NEW res, KcEnd(t, res) PROVE kcCall' = [kcCall EXCEPT ![t] = [c EXCEPT !.at = "done", !.res = res]]
    BY <1>1, <1>4 DEF KcEnd, KcCalls
  <1>5. CASE KcLook(t)
    <2>1. PICK at \in {"judge", "gate"} : at = (IF KcSees(kcBreaker) THEN "judge" ELSE "gate") /\ KcGo(t, at) /\ c.at = "look"
      BY <1>1, <1>5 DEF KcLook, KcAt
    <2>2. PICK d : d = [c EXCEPT !.at = at]
      OBVIOUS
    <2>3. KcSane(d) /\ d.at = at /\ d.sent = c.sent /\ kcCall' = [kcCall EXCEPT ![t] = d]
      BY <1>1, <1>2, <1>3, <2>1, <2>2, KcGoesOn
    <2>4. t \in kcHeld => at = "judge" /\ ~c.sent
      BY <1>1, <2>1 DEF KcHolds, KcSees
    <2> QED BY <1>5, <2>1, <2>3, <2>4, KcHoldsOn DEF KcStays, KcLook
  <1>6. CASE KcJudge(t)
    <2>1. c.at = "judge" /\ UNCHANGED <<kcBreaker, kcHeld>>
      BY <1>1, <1>6 DEF KcJudge, KcAt
    <2>2. CASE kcBreaker.tripped = "past"
      <3>1. KcGo(t, "reset")
        BY <1>6, <2>2 DEF KcJudge
      <3>2. PICK d : d = [c EXCEPT !.at = "reset"]
        OBVIOUS
      <3>3. KcSane(d) /\ d.at = "reset" /\ d.sent = c.sent /\ kcCall' = [kcCall EXCEPT ![t] = d]
        BY <1>1, <1>2, <1>3, <2>1, <3>1, <3>2, KcGoesOn
      <3>4. t \in kcHeld => ~c.sent
        BY <1>1 DEF KcHolds
      <3> QED BY <2>1, <3>3, <3>4, KcHoldsOn DEF KcStays
    <2>3. CASE kcBreaker.tripped # "past"
      <3>1. PICK res \in {"raised", "rejected"} : KcEnd(t, res)
        BY <1>6, <2>3 DEF KcJudge
      <3>2. PICK d : d = [c EXCEPT !.at = "done", !.res = res]
        OBVIOUS
      <3>3. KcSane(d) /\ d.at = "done" /\ d.sent = c.sent /\ kcCall' = [kcCall EXCEPT ![t] = d]
        <4>1. kcCall' = [kcCall EXCEPT ![t] = d]
          BY <1>4, <3>1, <3>2
        <4>2. res \in {"raised", "rejected", "closed"} /\ c.at \in {"look", "judge", "reset", "gate"}
          BY <2>1, <3>1
        <4>3. KcSane(d) /\ d.at = "done" /\ d.sent = c.sent
          BY <1>1, <3>2, <4>2, KcEndsThere
        <4> QED BY <4>1, <4>3
      <3>4. t \in kcHeld => ~c.sent
        BY <1>1 DEF KcHolds
      <3> QED BY <2>1, <3>3, <3>4, KcHoldsOn DEF KcStays
    <2> QED BY <2>2, <2>3
  <1>7. CASE KcReset(t)
    <2>1. c.at = "reset" /\ KcGo(t, "gate") /\ KcClosed
      BY <1>1, <1>7 DEF KcReset, KcAt
    <2>2. PICK d : d = [c EXCEPT !.at = "gate"]
      OBVIOUS
    <2>3. KcSane(d) /\ kcCall' = [kcCall EXCEPT ![t] = d]
      BY <1>1, <1>2, <1>3, <2>1, <2>2, KcGoesOn
    <2> QED BY <2>1, <2>3, KcHoldsNone DEF KcStays
  <1>8. CASE KcFail(t)
    <2>1. c.at = "fail" /\ kcHeld' = kcHeld /\ t \notin kcHeld
      BY <1>1, <1>8 DEF KcFail, KcAt, KcHolds
    <2>2. PICK at \in {"trip", "done"} : KcGo(t, at)
      BY <1>8 DEF KcFail
    <2>3. PICK d : d = [c EXCEPT !.at = at]
      OBVIOUS
    <2>4. KcSane(d) /\ kcCall' = [kcCall EXCEPT ![t] = d]
      BY <1>1, <1>2, <1>3, <2>1, <2>2, <2>3, KcCounts
    <2>5. kcBreaker' \in KcBreakerType /\ kcBreaker'.tripped = kcBreaker.tripped
      <3>1. PICK b \in KcBreakerType : b = kcBreaker
        BY DEF KcHolds
      <3>2. b.failures \in Nat /\ b.failures <= KcThreshold /\ KcThreshold \in Nat
        BY DEF KcBreakerType, KcAssumption
      <3>3. PICK n \in 0..KcThreshold : n = IF b.failures + 1 > KcThreshold THEN b.failures ELSE b.failures + 1
        BY <3>2
      <3>4. kcBreaker' = [b EXCEPT !.failures = n]
        BY <1>8, <3>1, <3>3 DEF KcFail
      <3> QED BY <3>1, <3>4 DEF KcBreakerType
    <2>6. KcHolds'
      BY <2>1, <2>4, <2>5 DEF KcHolds, KcCalls
    <2> QED BY <2>4, <2>6 DEF KcStays
  <1>9. CASE KcTrip(t)
    <2>1. c.at = "trip" /\ kcHeld' = kcHeld /\ t \notin kcHeld /\ KcGo(t, "done")
      BY <1>1, <1>9 DEF KcTrip, KcAt, KcHolds
    <2>2. PICK d : d = [c EXCEPT !.at = "done"]
      OBVIOUS
    <2>3. KcSane(d) /\ kcCall' = [kcCall EXCEPT ![t] = d]
      BY <1>1, <1>2, <1>3, <2>1, <2>2, KcCounts
    <2>4. kcBreaker' \in KcBreakerType /\ kcBreaker'.tripped = "within"
      BY <1>9 DEF KcTrip, KcBreakerType, KcHolds
    <2>5. KcHolds'
      BY <2>1, <2>3, <2>4 DEF KcHolds, KcCalls
    <2> QED BY <2>3, <2>5 DEF KcStays
  <1>10. CASE KcGate(t)
    <2>1. c.at = "gate" /\ UNCHANGED <<kcBreaker, kcHeld>> /\ t \notin kcHeld
      BY <1>1, <1>10 DEF KcGate, KcAt, KcHolds
    <2>2. CASE KcGo(t, "ask")
      <3>1. PICK d : d = [c EXCEPT !.at = "ask"]
        OBVIOUS
      <3>2. KcSane(d) /\ kcCall' = [kcCall EXCEPT ![t] = d]
        BY <1>1, <1>2, <1>3, <2>1, <2>2, <3>1, KcGoesOn
      <3> QED BY <2>1, <3>2, KcHoldsOn DEF KcStays
    <2>3. CASE KcEnd(t, "closed")
      <3>1. PICK d : d = [c EXCEPT !.at = "done", !.res = "closed"]
        OBVIOUS
      <3>2. KcSane(d) /\ kcCall' = [kcCall EXCEPT ![t] = d]
        BY <1>1, <1>2, <1>4, <2>1, <2>3, <3>1, KcEndsThere
      <3> QED BY <2>1, <3>2, KcHoldsOn DEF KcStays
    <2> QED BY <1>10, <2>2, <2>3 DEF KcGate
  <1> QED BY <1>5, <1>6, <1>7, <1>8, <1>9, <1>10

\* An error on the way, as the whole step of a thread.
LEMMA KcErrsStep ==
    ASSUME KcAssumption, KcCalls, KcHolds, NEW t \in KcThreads, t \notin kcHeld, UNCHANGED <<kcBreaker, kcHeld>>,
           NEW c \in KcCallType, NEW answer \in {"error", "refused", "silence"}, KcErrs(t, c, answer),
           c.kind \in KcKinds, c.order # "twice", KcInquires(c), KcCancels(c),
           c.kind = "place" => c.order = "none" \/ (c.order = "live" /\ answer # "refused"),
           c.kind \in {"status", "price"} => c.order = "none"
    PROVE  KcStays(t)
  <1>1. PICK d : d = [c EXCEPT !.at = IF c.kind \in KcMetered THEN "fail" ELSE "done",
                               !.res = CASE c.kind = "place" -> KcVerdict(answer)
                                         [] c.kind = "cancel" -> "false"
                                         [] OTHER -> "raised"]
    OBVIOUS
  <1>2. KcSane(d)
    BY <1>1, KcErrsSane
  <1>3. kcCall' = [kcCall EXCEPT ![t] = d]
    BY <1>1 DEF KcErrs
  <1> QED BY <1>2, <1>3, KcHoldsOn DEF KcStays

\* What is known of a call on its way.
LEMMA KcOnTheWay ==
    ASSUME KcAssumption, KcCalls, KcHolds, NEW t \in KcThreads, kcCall[t].at \in {"ask", "send"}
    PROVE  \E c \in KcCallType :
              /\ c = kcCall[t] /\ KcSane(c) /\ c.at \in {"ask", "send"} /\ c.kind \in KcKinds /\ c.order # "twice" /\ t \notin kcHeld
              /\ KcInquires(c) /\ KcCancels(c) /\ (c.kind \in {"place", "status", "price"} => c.order = "none")
  <1>1. PICK c \in KcCallType : c = kcCall[t] /\ KcSane(c) /\ c.at \in {"ask", "send"}
    BY DEF KcCalls
  <1>2. t \notin kcHeld /\ c.kind \in KcKinds /\ KcInquires(c) /\ KcCancels(c) /\ KcPlaces(c)
    BY <1>1 DEF KcHolds, KcSane
  <1>3. (c.kind \in {"place", "status", "price"} => c.order = "none") /\ c.order # "twice"
    BY <1>1, <1>2 DEF KcSane, KcPlaces, KcCancels, KcKinds
  <1> QED BY <1>1, <1>2, <1>3

\* Hash key and token.
LEMMA KcAskStep == ASSUME KcAssumption, KcCalls, KcHolds, NEW t \in KcThreads, KcAsk(t) PROVE KcStays(t)
  <1>1. kcCall[t].at = "ask" /\ UNCHANGED <<kcBreaker, kcHeld>>
    BY DEF KcAsk, KcAt
  <1>2. PICK c \in KcCallType :
              /\ c = kcCall[t] /\ KcSane(c) /\ c.kind \in KcKinds /\ c.order # "twice" /\ t \notin kcHeld
              /\ KcInquires(c) /\ KcCancels(c) /\ (c.kind \in {"place", "status", "price"} => c.order = "none")
    BY <1>1, KcOnTheWay
  <1>3. CASE KcGo(t, "send")
    <2>1. PICK d : d = [c EXCEPT !.at = "send"]
      OBVIOUS
    <2>2. /\ d \in KcCallType /\ d.at = "send" /\ d.kind = c.kind /\ d.order = c.order /\ d.listed = c.listed /\ d.of = c.of
          /\ d.page = c.page
      BY <2>1 DEF KcCallType, KcPlacesAt
    <2>3. KcPlaces(d) /\ KcCancels(d) /\ KcInquires(d)
      BY <1>1, <1>2, <2>2 DEF KcPlaces, KcCancels, KcInquires
    <2>4. KcSane(d)
      BY <1>2, <2>2, <2>3 DEF KcSane
    <2>5. kcCall' = [kcCall EXCEPT ![t] = d]
      BY <1>2, <1>3, <2>1 DEF KcGo, KcCalls
    <2> QED BY <1>1, <1>2, <2>4, <2>5, KcHoldsOn DEF KcStays
  <1>4. CASE KcErrs(t, kcCall[t], "error")
    BY <1>1, <1>2, <1>4, KcErrsStep
  <1> QED BY <1>3, <1>4 DEF KcAsk

\* A call that ends with an answer.
LEMMA KcAnsweredStep ==
    ASSUME KcAssumption, KcCalls, KcHolds, NEW t \in KcThreads, t \notin kcHeld, KcUnmetered \/ KcClosed,
           NEW c \in KcCallType, NEW res \in KcAnswers, KcAnswered(t, c, res), c.kind \in KcKinds,
           c.kind = "place" => (c.order = "live" /\ res = "submitted") \/ (c.order = "none" /\ res # "submitted"),
           c.kind = "cancel" => c.order \in {"live", "cancelled", "filled"} /\ (res = "true" => c.order = "cancelled"),
           c.kind = "status" => c.listed <= c.of /\ (res = "absent" => c.listed = 0) /\ (res = "found" => c.listed # 0),
           c.kind \in {"status", "price"} => c.order = "none"
    PROVE  KcStays(t)
  <1>1. PICK d : d = [c EXCEPT !.at = "done", !.res = res]
    OBVIOUS
  <1>2. /\ d \in KcCallType /\ d.at = "done" /\ d.res = res /\ d.kind = c.kind /\ d.order = c.order /\ d.listed = c.listed
        /\ d.of = c.of
    BY <1>1 DEF KcPlacesAt, KcCallType
  <1>3. KcPlaces(d) /\ KcCancels(d) /\ KcInquires(d)
    BY <1>2 DEF KcPlaces, KcCancels, KcInquires
  <1>4. KcSane(d)
    BY <1>2, <1>3 DEF KcSane, KcKinds
  <1>5. kcCall' = [kcCall EXCEPT ![t] = d]
    BY <1>1 DEF KcAnswered
  <1>6. KcHolds'
    BY <1>5, KcHoldsOn, KcHoldsNone DEF KcUnmetered
  <1> QED BY <1>4, <1>5, <1>6 DEF KcStays

\* One more try, of a call that may be tried again.
LEMMA KcRetryStep ==
    ASSUME KcAssumption, KcCalls, KcHolds, NEW t \in KcThreads, t \notin kcHeld, KcUnmetered,
           NEW c \in KcCallType, KcRetry(t, c), c.try < KcTriesOf(c.kind), c.at = "send", c.kind \in KcKinds,
           c.kind = "cancel" => c.order \in {"live", "cancelled", "filled"}, KcInquires(c),
           c.kind \in {"status", "price"} => c.order = "none"
    PROVE  KcStays(t)
  <1>1. PICK d : d = [c EXCEPT !.try = c.try + 1]
    OBVIOUS
  <1>2. c.kind # "place" /\ c.try + 1 \in 1..KcTries
    BY KcFields DEF KcTriesOf
  <1>3. /\ d \in KcCallType /\ d.at = c.at /\ d.kind = c.kind /\ d.order = c.order /\ d.listed = c.listed
        /\ d.of = c.of /\ d.page = c.page
    BY <1>1, <1>2 DEF KcCallType
  <1>4. KcPlaces(d) /\ KcCancels(d) /\ KcInquires(d)
    BY <1>2, <1>3 DEF KcPlaces, KcCancels, KcInquires
  <1>5. KcSane(d)
    BY <1>2, <1>3, <1>4 DEF KcSane, KcKinds
  <1>6. kcCall' = [kcCall EXCEPT ![t] = d]
    BY <1>1 DEF KcRetry
  <1> QED BY <1>5, <1>6, KcHoldsOn DEF KcStays, KcUnmetered

\* A request that is sent.
LEMMA KcSent ==
    ASSUME NEW c \in KcCallType, NEW d, d = [c EXCEPT !.sent = TRUE]
    PROVE  /\ d \in KcCallType /\ d.at = c.at /\ d.kind = c.kind /\ d.order = c.order /\ d.listed = c.listed
           /\ d.of = c.of /\ d.page = c.page /\ d.try = c.try /\ (KcInquires(c) => KcInquires(d)) /\ (KcCancels(c) => KcCancels(d))
  BY DEF KcCallType, KcInquires, KcCancels

\* A post.
LEMMA KcPostStep == ASSUME KcAssumption, KcCalls, KcHolds, NEW t \in KcThreads, KcPost(t) PROVE KcStays(t)
  <1>1. kcCall[t].at = "send" /\ kcCall[t].kind \in {"place", "cancel"}
    BY DEF KcPost, KcAt
  <1>2. PICK b \in KcCallType :
              /\ b = kcCall[t] /\ KcSane(b) /\ b.kind \in KcKinds /\ b.order # "twice" /\ t \notin kcHeld
              /\ KcInquires(b) /\ KcCancels(b) /\ (b.kind \in {"place", "status", "price"} => b.order = "none")
    BY <1>1, KcOnTheWay
  <1>3. PICK c : c = [b EXCEPT !.sent = TRUE]
    OBVIOUS
  <1>4. /\ c \in KcCallType /\ c.at = "send" /\ c.kind \in {"place", "cancel"} /\ KcInquires(c) /\ KcCancels(c)
        /\ (c.kind = "place" => c.order = "none") /\ c.order # "twice"
    BY <1>1, <1>2, <1>3, KcSent
  <1>5. (c.kind = "cancel" => c.order \in {"live", "cancelled", "filled"}) /\ c.kind \in KcKinds
    BY <1>4 DEF KcCancels, KcKinds
  <1>6. PICK x : x = [c EXCEPT !.order = KcEffect(c)]
    OBVIOUS
  <1>7. /\ x \in KcCallType /\ x.kind = c.kind /\ x.try = c.try /\ x.at = "send" /\ x.order = KcEffect(c)
        /\ x.order # "twice" /\ (c.kind = "place" => x.order = "live") /\ (c.kind = "cancel" => x.order \in {"cancelled", "filled"})
        /\ (c.order = "live" => x.order = "cancelled")
        /\ KcInquires(x) /\ KcCancels(x)
    <2>1. KcEffect(c) \in {"live", "cancelled", "filled"}
      BY <1>4, <1>5 DEF KcEffect
    <2>2. x \in KcCallType /\ x.kind = c.kind /\ x.try = c.try /\ x.at = "send" /\ x.order = KcEffect(c)
      BY <1>4, <1>6, <2>1 DEF KcCallType
    <2> QED BY <1>4, <1>5, <2>1, <2>2 DEF KcEffect, KcInquires, KcCancels
  <1>8. CASE KcPlaced(t, c)
    <2>1. CASE KcAnswered(t, x, "submitted") /\ KcClosed
      BY <1>2, <1>4, <1>5, <1>7, <1>8, <2>1, KcAnsweredStep DEF KcPlaced, KcAnswers
    <2>2. CASE KcAnswered(t, c, "closed") /\ KcUnmetered
      BY <1>2, <1>4, <1>5, <1>8, <2>2, KcAnsweredStep DEF KcPlaced, KcAnswers
    <2>3. CASE KcErrs(t, c, "refused") /\ KcUnmetered
      BY <1>2, <1>4, <1>5, <2>3, KcErrsStep DEF KcUnmetered
    <2> QED BY <1>6, <1>8, <2>1, <2>2, <2>3 DEF KcPlaced
  <1>9. CASE KcCancelled(t, c)
    <2>1. CASE c.order = "live" /\ KcAnswered(t, x, "true")
      BY <1>2, <1>4, <1>5, <1>7, <1>9, <2>1, KcAnsweredStep DEF KcCancelled, KcAnswers
    <2>2. CASE KcErrs(t, c, "refused")
      BY <1>2, <1>4, <1>5, <1>9, <2>2, KcErrsStep DEF KcUnmetered, KcCancelled
    <2> QED BY <1>6, <1>9, <2>1, <2>2 DEF KcCancelled
  <1>10. CASE KcErrs(t, c, "error") /\ KcUnmetered
    BY <1>2, <1>4, <1>5, <1>10, KcErrsStep DEF KcUnmetered
  <1>11. ASSUME KcUnmetered, NEW y \in {c, x}, IF c.try < KcTriesOf(c.kind) THEN KcRetry(t, y) ELSE KcErrs(t, y, "silence")
         PROVE  KcStays(t)
    <2>1. /\ y \in KcCallType /\ y.kind = c.kind /\ y.try = c.try /\ y.at = "send" /\ KcInquires(y) /\ KcCancels(y)
          /\ y.order # "twice" /\ (y.kind = "place" => y.order \in {"none", "live"})
          /\ (y.kind = "cancel" => y.order \in {"live", "cancelled", "filled"})
      BY <1>4, <1>5, <1>7
    <2>2. CASE c.try < KcTriesOf(c.kind)
      BY <1>2, <1>4, <1>5, <1>11, <2>1, <2>2, KcRetryStep
    <2>3. CASE ~(c.try < KcTriesOf(c.kind))
      BY <1>2, <1>4, <1>5, <1>11, <2>1, <2>3, KcErrsStep DEF KcUnmetered
    <2> QED BY <2>2, <2>3
  <1> QED BY <1>2, <1>3, <1>6, <1>8, <1>9, <1>10, <1>11 DEF KcPost

\* A read.
LEMMA KcGetStep == ASSUME KcAssumption, KcCalls, KcHolds, NEW t \in KcThreads, KcGet(t) PROVE KcStays(t)
  <1>1. kcCall[t].at = "send" /\ kcCall[t].kind \in {"status", "price"}
    BY DEF KcGet, KcAt
  <1>2. PICK b \in KcCallType :
              /\ b = kcCall[t] /\ KcSane(b) /\ b.kind \in KcKinds /\ b.order # "twice" /\ t \notin kcHeld
              /\ KcInquires(b) /\ KcCancels(b) /\ (b.kind \in {"place", "status", "price"} => b.order = "none")
    BY <1>1, KcOnTheWay
  <1>3. PICK c : c = [b EXCEPT !.sent = TRUE]
    OBVIOUS
  <1>4. /\ c \in KcCallType /\ c.at = "send" /\ c.kind \in {"status", "price"} /\ KcInquires(c) /\ KcCancels(c)
        /\ c.order = "none" /\ c.kind \in KcKinds
    BY <1>1, <1>2, <1>3, KcSent
  <1>5. CASE c.kind = "price" /\ KcAnswered(t, c, "true") /\ KcClosed
    BY <1>2, <1>4, <1>5, KcAnsweredStep DEF KcAnswers
  <1>6. CASE c.kind = "status" /\ KcPage(t, c) /\ KcUnmetered
    <2>1. /\ c.listed <= c.of /\ (c.listed = 0 \/ c.page <= c.listed) /\ c.page \in Nat /\ 1 <= c.page /\ c.page <= KcMaxPages
          /\ c.listed \in Nat /\ c.of \in Nat /\ KcMaxPages \in Nat
      BY <1>4, <1>6, KcFields DEF KcInquires
    <2>2. CASE c.page = c.listed /\ KcAnswered(t, c, "found")
      BY <1>2, <1>4, <1>6, <2>1, <2>2, KcAnsweredStep DEF KcAnswers
    <2>3. CASE c.page # c.listed /\ KcNoMore(c) /\ KcAnswered(t, c, "absent")
      <3>1. c.listed = 0
        BY <2>1, <2>3 DEF KcNoMore
      <3> QED BY <1>2, <1>4, <1>6, <2>1, <2>3, <3>1, KcAnsweredStep DEF KcAnswers
    <2>4. CASE c.page # c.listed /\ KcAnswered(t, c, "raised")
      BY <1>2, <1>4, <1>6, <2>1, <2>4, KcAnsweredStep DEF KcAnswers
    <2>5. CASE /\ c.page # c.listed /\ c.page < KcMaxPages
               /\ kcCall' = [kcCall EXCEPT ![t] = [c EXCEPT !.at = "ask", !.page = @ + 1, !.try = 1]]
      <3>1. PICK d : d = [c EXCEPT !.at = "ask", !.page = c.page + 1, !.try = 1]
        OBVIOUS
      <3>2. c.page + 1 \in 1..KcMaxPages /\ 1 \in 1..KcTries
        BY <1>4, <2>1, <2>5, KcFields
      <3>3. /\ d \in KcCallType /\ d.at = "ask" /\ d.kind = c.kind /\ d.order = c.order /\ d.listed = c.listed /\ d.of = c.of
            /\ d.page = c.page + 1
        BY <1>4, <3>1, <3>2 DEF KcCallType, KcPlacesAt
      <3>4. KcPlaces(d) /\ KcCancels(d) /\ KcInquires(d)
        BY <1>6, <2>1, <2>5, <3>3 DEF KcPlaces, KcCancels, KcInquires
      <3>5. KcSane(d)
        BY <1>4, <3>3, <3>4 DEF KcSane
      <3>6. kcCall' = [kcCall EXCEPT ![t] = d]
        BY <2>5, <3>1
      <3> QED BY <1>2, <1>6, <3>5, <3>6, KcHoldsOn DEF KcStays, KcUnmetered
    <2> QED BY <1>6, <2>2, <2>3, <2>4, <2>5 DEF KcPage
  <1>7. CASE KcErrs(t, c, "error") /\ KcUnmetered
    BY <1>2, <1>4, <1>7, KcErrsStep DEF KcUnmetered
  <1>8. CASE KcUnmetered /\ IF c.try < KcTriesOf(c.kind) THEN KcRetry(t, c) ELSE KcErrs(t, c, "silence")
    <2>1. CASE c.try < KcTriesOf(c.kind)
      BY <1>2, <1>4, <1>8, <2>1, KcRetryStep
    <2>2. CASE ~(c.try < KcTriesOf(c.kind))
      BY <1>2, <1>4, <1>8, <2>2, KcErrsStep DEF KcUnmetered
    <2> QED BY <2>1, <2>2
  <1> QED BY <1>2, <1>3, <1>5, <1>6, <1>7, <1>8 DEF KcGet

\* The order of a cancel fills; the call returns.
LEMMA KcFillsStep == ASSUME KcAssumption, KcCalls, KcHolds, NEW t \in KcThreads, KcFills(t) PROVE KcStays(t)
  <1>1. PICK c \in KcCallType : c = kcCall[t] /\ KcSane(c) /\ c.kind = "cancel" /\ c.order = "live"
    BY DEF KcCalls, KcFills
  <1>2. PICK d : d = [c EXCEPT !.order = "filled"]
    OBVIOUS
  <1>3. /\ d \in KcCallType /\ d.at = c.at /\ d.kind = c.kind /\ d.order = "filled" /\ d.sent = c.sent /\ d.res = c.res
    BY <1>2 DEF KcCallType
  <1>4. KcSane(d)
    BY <1>1, <1>3 DEF KcSane, KcPlaces, KcCancels, KcInquires, KcMetered, KcKinds, KcNone
  <1>5. kcCall' = [kcCall EXCEPT ![t] = d] /\ UNCHANGED <<kcBreaker, kcHeld>>
    BY <1>1, <1>2 DEF KcFills, KcCalls
  <1>6. t \in kcHeld => d.at \in {"look", "judge", "reset", "done"} /\ ~d.sent
    BY <1>1, <1>3 DEF KcHolds
  <1> QED BY <1>4, <1>5, <1>6, KcHoldsOn DEF KcStays
\* The caller takes its answer.
LEMMA KcReturnStep == ASSUME KcAssumption, KcCalls, KcHolds, NEW t \in KcThreads, KcReturn(t) PROVE KcStays(t)
  <1>1. kcCall' = [kcCall EXCEPT ![t] = KcNone] /\ kcHeld' = kcHeld \ {t} /\ kcBreaker' = kcBreaker
    BY DEF KcReturn
  <1>2. KcHolds'
    BY <1>1 DEF KcHolds, KcCalls
  <1> QED BY <1>1, <1>2, KcNoneIsSane DEF KcStays

\* Every step keeps it.
LEMMA KcEveryStep == ASSUME KcAssumption, KcCalls, KcHolds, [KcNext]_kcVars PROVE KcCalls' /\ KcHolds'
  <1>1. ASSUME NEW t \in KcThreads, KcStays(t) PROVE KcCalls' /\ KcHolds'
    <2>1. PICK d : KcSane(d) /\ kcCall' = [kcCall EXCEPT ![t] = d]
      BY <1>1 DEF KcStays
    <2>2. d \in KcCallType
      BY <2>1 DEF KcSane
    <2> QED BY <1>1, <2>1, <2>2 DEF KcCalls, KcStays
  <1>2. CASE KcCools
    BY <1>2 DEF KcCools, KcCalls, KcHolds, KcBreakerType
  <1>3. CASE UNCHANGED kcVars
    BY <1>3 DEF kcVars, KcCalls, KcHolds
  <1>4. ASSUME NEW t \in KcThreads,
               \/ KcBegin(t) \/ KcLook(t) \/ KcJudge(t) \/ KcReset(t) \/ KcFail(t) \/ KcTrip(t)
               \/ KcGate(t) \/ KcAsk(t) \/ KcPost(t) \/ KcGet(t) \/ KcFills(t) \/ KcReturn(t)
        PROVE  KcStays(t)
    BY <1>4, KcBeginStep, KcBreakerStep, KcAskStep, KcPostStep, KcGetStep, KcFillsStep,
       KcReturnStep
  <1> QED BY <1>1, <1>2, <1>3, <1>4 DEF KcNext

\* What a caller is told is what the broker has done.
LEMMA KcInvariant == KcInit /\ [][KcNext]_kcVars => []KcInv
  <1>1. KcInit => KcCalls /\ KcHolds
    <2>1. SUFFICES ASSUME KcInit PROVE KcCalls /\ KcHolds
      OBVIOUS
    <2>2. KcCalls
      BY <2>1, KcAssumption, KcNoneIsSane DEF KcInit, KcCalls, KcSane
    <2>3. KcHolds
      BY <2>1, KcAssumption DEF KcInit, KcHolds, KcBreakerType, KcAssumption
    <2> QED BY <2>2, <2>3
  <1>2. (KcCalls /\ KcHolds) /\ [KcNext]_kcVars => (KcCalls /\ KcHolds)'
    BY KcAssumption, KcEveryStep
  <1>3. KcCalls /\ KcHolds => KcInv
    <2>1. SUFFICES ASSUME KcCalls, KcHolds PROVE KcInv
      OBVIOUS
    <2>2. KcTypeOK
      BY <2>1 DEF KcCalls, KcHolds, KcTypeOK, KcCallType, KcBreakerType, KcPlacesAt, KcAnswers
    <2>3. KcPlacedOnce
      <3>1. SUFFICES ASSUME NEW t \in KcThreads
                     PROVE  /\ kcCall[t].order # "twice"
                            /\ KcDone(t, "place") =>
                                  /\ kcCall[t].order = "live" => kcCall[t].res \in {"submitted", "unknown"}
                                  /\ kcCall[t].res = "submitted" => kcCall[t].order = "live"
        BY DEF KcPlacedOnce
      <3>2. KcSane(kcCall[t]) /\ kcCall[t].kind \in KcKinds \cup {"none"}
        BY <2>1 DEF KcCalls, KcCallType
      <3> QED BY <3>2 DEF KcSane, KcPlaces, KcCancels, KcDone, KcAt, KcKinds
    <2>4. KcCancelTold /\ KcAbsent
      BY <2>1 DEF KcCalls, KcSane, KcCancels, KcInquires, KcCancelTold, KcAbsent, KcDone, KcAt
    <2>5. KcQuiet
      BY <2>1 DEF KcHolds, KcQuiet
    <2> QED BY <2>2, <2>3, <2>4, <2>5 DEF KcInv
  <1> QED BY <1>1, <1>2, <1>3, PTL

-----------------------------------------------------------------------------
(* The access token.                                                          *)

TkEntry == [tok : 0..TkMax, exp : 0..TkMax]
TkSteps == {"idle", "expiry", "keep", "memory", "wait", "check", "issue", "new", "store", "store2", "drop", "revoke",
            "delete"}
TkRevokes == {"drop", "revoke", "delete"}
TkCallType == [at : TkSteps, tok : 0..TkMax, exp : 0..TkMax]
TkWorldType == [made : 0..TkMax, aged : 0..TkMax, dead : SUBSET (1..TkMax), ours : Nat, quiet : BOOLEAN]

TkTyped ==
    /\ tkRedis \in [up : BOOLEAN, has : TkEntry] /\ tkMem \in TkEntry /\ tkLock \subseteq ShThreads
    /\ tkCall \in [ShThreads -> TkCallType] /\ tkWorld \in TkWorldType
    /\ tkWorld.ours <= tkWorld.made /\ tkWorld.aged <= tkWorld.made

\* The lock is of the one thread that is behind it.
TkLocked ==
    /\ tkLock = {} \/ \E t \in ShThreads : tkLock = {t}
    /\ \A t \in ShThreads : tkCall[t].at \in {"check", "issue", "new", "store", "store2"} => tkLock = {t}

\* A token issued is in memory, or on its way there; nobody asks for another.
TkCounted ==
    /\ tkWorld.ours \in {0, 1}
    /\ tkWorld.ours = 1 => TkValid(tkMem) \/ \E t \in ShThreads : tkCall[t].at = "new"
    /\ \A t \in ShThreads : tkCall[t].at = "issue" => tkWorld.ours = 0
    /\ \A t \in ShThreads : tkCall[t].at = "new" /\ tkWorld.ours = 1 => tkCall[t].exp > tkWorld.aged

\* What is on its way is a token that was issued, and one thread revokes.
TkIssued ==
    /\ tkRedis.has.tok <= tkWorld.made /\ tkMem.tok <= tkWorld.made /\ tkWorld.dead \subseteq 1..tkWorld.made
    /\ \A t \in ShThreads :
          /\ tkCall[t].tok <= tkWorld.made
          /\ tkCall[t].at \in {"idle", "memory", "wait", "check", "issue"} => tkCall[t].tok = 0
          /\ tkCall[t].at \in {"revoke", "delete"} => tkCall[t].tok # 0
    /\ \A t, u \in ShThreads : tkCall[t].at \in TkRevokes /\ tkCall[u].at \in TkRevokes => t = u

\* While a revoke that all went well with goes on, nobody else is about, and the
\* token it revokes is in Redis at most; after it no revoked token is anywhere.
TkGone ==
    tkWorld.quiet =>
        /\ \A r \in ShThreads : tkCall[r].at \in TkRevokes =>
              /\ tkRedis.up /\ (\A u \in ShThreads \ {r} : tkCall[u].at = "idle")
              /\ tkRedis.has.tok \notin tkWorld.dead \/ tkRedis.has.tok = tkCall[r].tok
              /\ tkCall[r].at # "drop" => tkMem.tok = 0
        /\ (\A r \in ShThreads : tkCall[r].at \notin TkRevokes) =>
              /\ tkRedis.has.tok \notin tkWorld.dead /\ tkMem.tok \notin tkWorld.dead
              /\ \A t \in ShThreads : tkCall[t].tok \notin tkWorld.dead

TkSame(t) == \A u \in ShThreads \ {t} : tkCall'[u] = tkCall[u]
TkWorldStays == UNCHANGED <<tkWorld>>
TkCountsSame == tkWorld'.made = tkWorld.made /\ tkWorld'.aged = tkWorld.aged /\ tkWorld'.dead = tkWorld.dead

\* The values a state holds.
LEMMA TkValues ==
    ASSUME ShAssumption, TkTyped
    PROVE  /\ TkMax \in Nat /\ tkWorld.made \in Nat /\ tkWorld.made <= TkMax /\ tkWorld.aged \in Nat /\ tkWorld.ours \in Nat
           /\ tkMem.tok \in Nat /\ tkMem.exp \in Nat /\ tkRedis.has.tok \in Nat /\ tkRedis.has.exp \in Nat
           /\ tkRedis.up \in BOOLEAN /\ tkWorld.quiet \in BOOLEAN
           /\ \A t \in ShThreads : tkCall[t].tok \in Nat /\ tkCall[t].exp \in Nat /\ tkCall[t].at \in TkSteps
  <1>1. TkMax \in Nat
    BY DEF ShAssumption
  <1>2. /\ tkWorld.made \in 0..TkMax /\ tkWorld.aged \in 0..TkMax /\ tkWorld.ours \in Nat /\ tkWorld.quiet \in BOOLEAN
    BY DEF TkTyped, TkWorldType
  <1>3. tkMem.tok \in 0..TkMax /\ tkMem.exp \in 0..TkMax /\ tkRedis.up \in BOOLEAN
    BY DEF TkTyped, TkEntry
  <1>4. tkRedis.has.tok \in 0..TkMax /\ tkRedis.has.exp \in 0..TkMax
    BY DEF TkTyped, TkEntry
  <1>5. \A t \in ShThreads : tkCall[t].tok \in 0..TkMax /\ tkCall[t].exp \in 0..TkMax /\ tkCall[t].at \in TkSteps
    BY DEF TkTyped, TkCallType
  <1> QED BY <1>1, <1>2, <1>3, <1>4, <1>5

\* What each step does.
LEMMA TkGoIs ==
    ASSUME TkTyped, NEW t \in ShThreads, NEW at \in TkSteps, TkGo(t, at)
    PROVE  /\ TkSame(t) /\ tkCall'[t].at = at /\ tkCall'[t].tok = tkCall[t].tok /\ tkCall'[t].exp = tkCall[t].exp
           /\ tkCall' \in [ShThreads -> TkCallType]
  <1>1. PICK c \in TkCallType : c = tkCall[t]
    BY DEF TkTyped
  <1>2. tkCall'[t] = [c EXCEPT !.at = at] /\ TkSame(t)
    BY <1>1 DEF TkGo, TkTyped, TkSame
  <1>3. [c EXCEPT !.at = at] \in TkCallType
    BY DEF TkCallType
  <1>4. tkCall' \in [ShThreads -> TkCallType]
    BY <1>1, <1>3 DEF TkGo, TkTyped
  <1> QED BY <1>1, <1>2, <1>4 DEF TkCallType
\* A call on the token that ends.
LEMMA TkDoneIs ==
    ASSUME ShAssumption, TkTyped, NEW t \in ShThreads, TkDone(t)
    PROVE  /\ TkSame(t) /\ tkCall'[t].at = "idle" /\ tkCall'[t].tok = 0 /\ tkCall'[t].exp = 0
           /\ tkCall' \in [ShThreads -> TkCallType]
  <1>1. TkIdle \in TkCallType
    BY DEF ShAssumption, TkIdle, TkCallType, TkSteps
  <1> QED BY <1>1 DEF TkDone, TkTyped, TkSame, TkIdle

\* What else a step does to what was issued.
LEMMA TkWorldIs ==
    ASSUME TkTyped
    PROVE  /\ \A n \in Nat : LET w == [tkWorld EXCEPT !.ours = n] IN
                  /\ w \in TkWorldType /\ w.made = tkWorld.made /\ w.aged = tkWorld.aged /\ w.dead = tkWorld.dead
                  /\ w.quiet = tkWorld.quiet /\ w.ours = n
           /\ \A q \in BOOLEAN : LET w == [tkWorld EXCEPT !.quiet = q] IN
                  /\ w \in TkWorldType /\ w.made = tkWorld.made /\ w.aged = tkWorld.aged /\ w.dead = tkWorld.dead
                  /\ w.quiet = q /\ w.ours = tkWorld.ours
  <1>1. PICK x \in TkWorldType : x = tkWorld
    BY DEF TkTyped
  <1> QED BY <1>1 DEF TkWorldType

\* A step that takes neither lock nor token: where a thread of its own goes on.
TkAll == TkTyped /\ TkLocked /\ TkCounted /\ TkIssued /\ TkGone

\* The steps of get_token up to the lock.
LEMMA TkReadStep ==
    ASSUME ShAssumption, TkAll, NEW t \in ShThreads, TkBegin(t) \/ TkExpiry(t) \/ TkMemory(t) PROVE TkAll'
  <1> USE DEF TkAll
  <1>0. UNCHANGED <<tkRedis, tkMem, tkLock>> /\ tkCall[t].at \in {"idle", "expiry", "memory"}
    BY DEF TkBegin, TkExpiry, TkMemory, TkAt
  <1>1. /\ tkWorld' \in TkWorldType /\ TkCountsSame /\ tkWorld'.ours = tkWorld.ours
        /\ tkWorld'.quiet => tkWorld.quiet /\ (tkCall[t].at = "idle" => ~TkRevoking)
    <2>1. CASE TkBegin(t)
      <3>1. PICK q \in BOOLEAN : q = (tkWorld.quiet /\ ~TkRevoking) /\ tkWorld' = [tkWorld EXCEPT !.quiet = q]
        BY <2>1, TkValues DEF TkBegin
      <3> QED BY <3>1, TkWorldIs DEF TkCountsSame
    <2>2. CASE TkExpiry(t) \/ TkMemory(t)
      BY <2>2 DEF TkExpiry, TkMemory, TkCountsSame, TkTyped, TkAt
    <2> QED BY <2>1, <2>2
  <1>2. /\ tkCall' \in [ShThreads -> TkCallType] /\ TkSame(t)
        /\ tkCall'[t].at \in {"idle", "expiry", "keep", "memory", "wait"}
        /\ \/ tkCall'[t].tok = 0
           \/ tkCall'[t].at \in {"expiry", "keep"} /\ tkCall'[t].tok \in {tkRedis.has.tok, tkCall[t].tok}
    <2>1. tkCall[t].at \in {"idle", "memory"} => tkCall[t].tok = 0
      BY DEF TkIssued
    <2>2. CASE TkBegin(t)
      <3>1. CASE tkRedis.up /\ tkRedis.has.tok # 0
        <4>1. PICK d : d = [at |-> "expiry", tok |-> tkRedis.has.tok, exp |-> 0]
          OBVIOUS
        <4>2. d \in TkCallType
          <5>1. tkRedis.has.tok \in 0..TkMax /\ 0 \in 0..TkMax
            BY TkValues DEF TkTyped, TkEntry, ShAssumption
          <5> QED BY <4>1, <5>1 DEF TkCallType, TkSteps
        <4>3. tkCall' = [tkCall EXCEPT ![t] = d]
          BY <2>2, <3>1, <4>1 DEF TkBegin
        <4>4. d.at = "expiry" /\ d.tok = tkRedis.has.tok
          BY <4>1
        <4> QED BY <4>2, <4>3, <4>4 DEF TkTyped, TkSame
      <3>2. CASE TkGo(t, "memory")
        BY <2>1, <2>2, <3>2, TkGoIs DEF TkSteps, TkBegin, TkAt
      <3> QED BY <2>2, <3>1, <3>2 DEF TkBegin
    <2>3. CASE TkExpiry(t)
      <3>1. PICK c \in TkCallType : c = tkCall[t]
        BY DEF TkTyped
      <3>2. PICK d : d = IF tkRedis.up /\ TkValid(tkRedis.has) THEN [c EXCEPT !.at = "keep", !.exp = tkRedis.has.exp]
                         ELSE [TkIdle EXCEPT !.at = "memory"]
        OBVIOUS
      <3>3. d \in TkCallType /\ ((d.at = "keep" /\ d.tok = c.tok) \/ (d.at = "memory" /\ d.tok = 0))
        <4>1. tkRedis.has.exp \in 0..TkMax /\ 0 \in 0..TkMax
          BY TkValues DEF TkTyped, TkEntry, ShAssumption
        <4>2. CASE d = [c EXCEPT !.at = "keep", !.exp = tkRedis.has.exp]
          <5>1. PICK e \in 0..TkMax : d = [c EXCEPT !.at = "keep", !.exp = e]
            BY <4>1, <4>2
          <5>2. d \in TkCallType
            BY <5>1 DEF TkCallType, TkSteps
          <5>3. d.at = "keep" /\ d.tok = c.tok
            BY <5>1 DEF TkCallType
          <5> QED
            <6>1. (d.at = "keep" /\ d.tok = c.tok) \/ (d.at = "memory" /\ d.tok = 0)
              BY <5>3
            <6> QED BY <5>2, <6>1
        <4>3. CASE d = [TkIdle EXCEPT !.at = "memory"]
          BY <4>1, <4>3 DEF TkCallType, TkSteps, TkIdle
        <4> QED BY <3>2, <4>2, <4>3
      <3>4. tkCall' = [tkCall EXCEPT ![t] = d]
        BY <2>3, <3>1, <3>2 DEF TkExpiry, TkTyped
      <3> QED BY <3>1, <3>3, <3>4 DEF TkTyped, TkSame
    <2>4. CASE TkMemory(t)
      <3>1. CASE TkDone(t)
        BY <3>1, TkDoneIs
      <3>2. CASE TkGo(t, "wait")
        BY <2>1, <2>4, <3>2, TkGoIs DEF TkSteps, TkMemory, TkAt
      <3> QED BY <2>4, <3>1, <3>2 DEF TkMemory
    <2> QED BY <2>2, <2>3, <2>4
  <1>3. TkTyped'
    BY <1>0, <1>1, <1>2 DEF TkTyped, TkCountsSame
  <1>4. TkLocked'
    BY <1>0, <1>2 DEF TkLocked, TkSame
  <1>5. TkCounted'
    BY <1>0, <1>1, <1>2 DEF TkCounted, TkSame, TkValid, TkCountsSame
  <1>6. TkIssued'
    BY <1>0, <1>1, <1>2, TkValues DEF TkIssued, TkSame, TkCountsSame, TkRevokes
  <1>7. TkGone'
    <2>1. tkWorld.dead \subseteq 1..tkWorld.made /\ 0 \notin tkWorld.dead
      BY DEF TkIssued
    <2>2. SUFFICES ASSUME tkWorld'.quiet PROVE TkGone'
      BY DEF TkGone
    <2>3. tkWorld.quiet /\ \A r \in ShThreads : tkCall[r].at \notin TkRevokes
      BY <1>0, <1>1, <2>2 DEF TkGone, TkRevoking, TkRevokes
    <2>4. \A r \in ShThreads : tkCall'[r].at \notin TkRevokes
      BY <1>2, <2>3 DEF TkSame, TkRevokes
    <2> QED BY <1>0, <1>1, <1>2, <2>1, <2>3, <2>4 DEF TkGone, TkSame, TkCountsSame
  <1> QED BY <1>3, <1>4, <1>5, <1>6, <1>7

\* What Redis had is kept.
LEMMA TkKeepStep == ASSUME ShAssumption, TkAll, NEW t \in ShThreads, TkKeep(t) PROVE TkAll'
  <1> USE DEF TkAll
  <1>0. /\ tkCall[t].at = "keep" /\ UNCHANGED <<tkRedis, tkLock>>
        /\ tkCall' \in [ShThreads -> TkCallType] /\ TkSame(t) /\ tkCall'[t].at = "idle" /\ tkCall'[t].tok = 0
    BY TkDoneIs DEF TkKeep, TkAt
  <1>1. PICK d : d = [tok |-> tkCall[t].tok, exp |-> tkCall[t].exp] /\ d = tkMem'
    BY DEF TkKeep
  <1>2. d \in TkEntry /\ d.tok = tkCall[t].tok
    <2>1. tkCall[t].tok \in 0..TkMax /\ tkCall[t].exp \in 0..TkMax
      BY DEF TkTyped, TkCallType
    <2> QED BY <1>1, <2>1 DEF TkEntry
  <1>3. /\ tkWorld' \in TkWorldType /\ TkCountsSame /\ tkWorld'.quiet = tkWorld.quiet
        /\ tkWorld'.ours = (IF TkValid(tkMem)' THEN tkWorld.ours ELSE 0)
    <2>1. PICK n \in Nat : n = IF TkValid(tkMem') THEN tkWorld.ours ELSE 0
      BY TkValues
    <2>2. tkWorld' = [tkWorld EXCEPT !.ours = n]
      BY <2>1 DEF TkKeep
    <2>3. tkWorld'.aged = tkWorld.aged /\ tkWorld'.ours = n /\ tkWorld' \in TkWorldType /\ TkCountsSame /\ tkWorld'.quiet = tkWorld.quiet
      BY <2>2, TkWorldIs DEF TkCountsSame
    <2> QED BY <2>1, <2>3 DEF TkValid
  <1>4. TkTyped'
    BY <1>0, <1>1, <1>2, <1>3, TkValues DEF TkTyped, TkCountsSame
  <1>5. TkLocked'
    BY <1>0 DEF TkLocked, TkSame
  <1>6. TkCounted'
    BY <1>0, <1>3 DEF TkCounted, TkSame, TkCountsSame
  <1>7. TkIssued'
    BY <1>0, <1>1, <1>2, <1>3, TkValues DEF TkIssued, TkSame, TkCountsSame, TkRevokes
  <1>8. TkGone'
    <2>1. SUFFICES ASSUME tkWorld.quiet PROVE TkGone'
      BY <1>3 DEF TkGone
    <2>2. \A r \in ShThreads : tkCall[r].at \notin TkRevokes
      BY <1>0, <2>1 DEF TkGone, TkRevokes
    <2>3. \A r \in ShThreads : tkCall'[r].at \notin TkRevokes
      BY <1>0, <2>2 DEF TkSame, TkRevokes
    <2>4. 0 \notin tkWorld.dead
      BY TkValues DEF TkIssued
    <2> QED BY <1>0, <1>1, <1>2, <1>3, <2>1, <2>2, <2>3, <2>4 DEF TkGone, TkSame, TkCountsSame
  <1> QED BY <1>4, <1>5, <1>6, <1>7, <1>8

\* The lock, and the look at memory behind it.
LEMMA TkLockStep ==
    ASSUME ShAssumption, TkAll, NEW t \in ShThreads, TkLocks(t) \/ TkCheck(t) PROVE TkAll'
  <1> USE DEF TkAll
  <1>0. UNCHANGED <<tkRedis, tkMem, tkWorld>> /\ tkCall[t].at \in {"wait", "check"} /\ tkCall[t].tok = 0
    BY DEF TkLocks, TkCheck, TkAt, TkIssued
  <1>1. /\ tkCall' \in [ShThreads -> TkCallType] /\ TkSame(t) /\ tkCall'[t].at \in {"check", "issue", "idle"} /\ tkCall'[t].tok = 0
        /\ tkCall'[t].at = "check" => tkLock = {} /\ tkLock' = {t}
        /\ tkCall'[t].at = "issue" => tkCall[t].at = "check" /\ tkLock' = tkLock /\ ~TkValid(tkMem)
        /\ tkCall'[t].at = "idle" => tkCall[t].at = "check" /\ tkLock' = {}
    <2>1. CASE TkLocks(t)
      BY <1>0, <2>1, TkGoIs DEF TkLocks, TkSteps
    <2>2. CASE TkCheck(t) /\ TkValid(tkMem)
      BY <1>0, <2>2, TkDoneIs DEF TkCheck, TkAgain, TkAt
    <2>3. CASE TkCheck(t) /\ ~TkValid(tkMem)
      BY <1>0, <2>3, TkGoIs DEF TkCheck, TkAgain, TkAt, TkSteps
    <2> QED BY <2>1, <2>2, <2>3
  <1>2. TkTyped'
    BY <1>0, <1>1 DEF TkTyped
  <1>3. TkLocked'
    BY <1>0, <1>1 DEF TkLocked, TkSame
  <1>4. TkCounted'
    <2>1. tkCall'[t].at = "issue" => tkWorld.ours = 0
      <3>1. SUFFICES ASSUME tkCall'[t].at = "issue" PROVE tkWorld.ours = 0
        OBVIOUS
      <3>2. tkLock = {t} /\ \A u \in ShThreads : tkCall[u].at # "new"
        BY <1>1, <3>1 DEF TkLocked
      <3> QED BY <1>1, <3>1, <3>2 DEF TkCounted
    <2>2. TkValid(tkMem)' = TkValid(tkMem) /\ tkWorld' = tkWorld
      BY <1>0 DEF TkValid
    <2>3. \A u \in ShThreads : tkCall'[u].at = "new" => u # t /\ tkCall'[u] = tkCall[u]
      BY <1>1 DEF TkSame
    <2>4. \A u \in ShThreads : tkCall[u].at = "new" => u # t /\ tkCall'[u] = tkCall[u]
      BY <1>0, <1>1 DEF TkSame
    <2>5. \A u \in ShThreads : tkCall'[u].at = "issue" => tkWorld.ours = 0
      BY <1>1, <2>1 DEF TkSame, TkCounted
    <2> QED BY <2>2, <2>3, <2>4, <2>5 DEF TkCounted
  <1>5. TkIssued'
    BY <1>0, <1>1, TkValues DEF TkIssued, TkSame, TkRevokes
  <1>6. TkGone'
    <2>1. SUFFICES ASSUME tkWorld.quiet PROVE TkGone'
      BY <1>0 DEF TkGone
    <2>2. \A r \in ShThreads : tkCall[r].at \notin TkRevokes
      BY <1>0, <2>1 DEF TkGone, TkRevokes
    <2>3. \A r \in ShThreads : tkCall'[r].at \notin TkRevokes
      BY <1>1, <2>2 DEF TkSame, TkRevokes
    <2>4. 0 \notin tkWorld.dead
      BY TkValues DEF TkIssued
    <2> QED BY <1>0, <1>1, <2>1, <2>2, <2>3, <2>4 DEF TkGone, TkSame
  <1> QED BY <1>2, <1>3, <1>4, <1>5, <1>6

\* A token is issued, or is not.
LEMMA TkIssueStep == ASSUME ShAssumption, TkAll, NEW t \in ShThreads, TkIssue(t) PROVE TkAll'
  <1> USE DEF TkAll
  <1>0. UNCHANGED <<tkRedis, tkMem>> /\ tkCall[t].at = "issue" /\ tkCall[t].tok = 0 /\ tkWorld.ours = 0 /\ tkLock = {t}
    BY DEF TkIssue, TkAt, TkIssued, TkCounted, TkLocked
  <1>1. \A u \in ShThreads : tkCall[u].at \in {"check", "issue", "new", "store", "store2"} => u = t
    BY <1>0 DEF TkLocked
  <1>2. 0 \notin tkWorld.dead /\ tkWorld.made + 1 \notin tkWorld.dead
    BY TkValues DEF TkIssued
  <1>3. CASE TkDone(t) /\ tkLock' = {} /\ UNCHANGED tkWorld
    <2>1. /\ tkCall' \in [ShThreads -> TkCallType] /\ TkSame(t) /\ tkCall'[t].at = "idle" /\ tkCall'[t].tok = 0
      BY <1>3, TkDoneIs
    <2>2. TkTyped' /\ TkLocked'
      BY <1>0, <1>1, <1>3, <2>1 DEF TkTyped, TkLocked, TkSame
    <2>3. TkCounted'
      BY <1>0, <1>3, <2>1 DEF TkCounted, TkSame
    <2>4. TkIssued'
      BY <1>0, <1>3, <2>1, TkValues DEF TkIssued, TkSame, TkRevokes
    <2>5. TkGone'
      <3>1. SUFFICES ASSUME tkWorld.quiet PROVE TkGone'
        BY <1>3 DEF TkGone
      <3>2. \A r \in ShThreads : tkCall[r].at \notin TkRevokes
        BY <1>0, <3>1 DEF TkGone, TkRevokes
      <3>3. \A r \in ShThreads : tkCall'[r].at \notin TkRevokes
        BY <2>1, <3>2 DEF TkSame, TkRevokes
      <3> QED BY <1>0, <1>2, <1>3, <2>1, <3>1, <3>2, <3>3 DEF TkGone, TkSame
    <2> QED BY <2>2, <2>3, <2>4, <2>5
  <1>4. CASE /\ tkWorld.made < TkMax /\ UNCHANGED tkLock
             /\ tkWorld' = [tkWorld EXCEPT !.made = @ + 1, !.ours = @ + 1]
             /\ tkCall' = [tkCall EXCEPT ![t] = [at |-> "new", tok |-> tkWorld.made + 1, exp |-> tkWorld.made + 1]]
    <2>1. PICK n \in 1..TkMax : n = tkWorld.made + 1
      BY <1>4, TkValues
    <2>2. PICK d : d = [at |-> "new", tok |-> n, exp |-> n]
      OBVIOUS
    <2>3. d \in TkCallType /\ d.at = "new" /\ d.tok = n /\ d.exp = n
      <3>1. n \in 0..TkMax
        BY <2>1, TkValues
      <3> QED BY <2>2, <3>1 DEF TkCallType, TkSteps
    <2>4. tkCall' \in [ShThreads -> TkCallType] /\ TkSame(t) /\ tkCall'[t] = d
      BY <1>4, <2>1, <2>2, <2>3 DEF TkTyped, TkSame
    <2>5. /\ tkWorld' \in TkWorldType /\ tkWorld'.made = n /\ tkWorld'.ours = 1 /\ tkWorld'.aged = tkWorld.aged
          /\ tkWorld'.dead = tkWorld.dead /\ tkWorld'.quiet = tkWorld.quiet
      <3>1. PICK w \in TkWorldType : w = tkWorld
        BY DEF TkTyped
      <3>2. tkWorld' = [w EXCEPT !.made = n, !.ours = 1] /\ n \in 0..TkMax
        BY <1>0, <1>4, <2>1, <3>1, TkValues
      <3> QED BY <3>1, <3>2 DEF TkWorldType
    <2>6. tkWorld.aged <= tkWorld.made
      BY DEF TkTyped
    <2>7. TkTyped'
      <3>1. tkWorld'.ours <= tkWorld'.made /\ tkWorld'.aged <= tkWorld'.made
        BY <2>1, <2>5, <2>6, TkValues
      <3>2. tkLock' \subseteq ShThreads /\ tkMem' \in TkEntry /\ tkRedis' \in [up : BOOLEAN, has : TkEntry]
        BY <1>0, <1>4 DEF TkTyped
      <3> QED BY <2>4, <2>5, <3>1, <3>2 DEF TkTyped
    <2>8. TkLocked'
      BY <1>0, <1>4, <2>4 DEF TkLocked, TkSame
    <2>9. TkCounted'
      <3>1. \A u \in ShThreads : tkCall'[u].at \in {"issue", "new"} => u = t
        BY <1>1, <2>4 DEF TkSame
      <3>2. n > tkWorld.aged
        BY <2>1, <2>6, TkValues
      <3> QED BY <2>3, <2>4, <2>5, <3>1, <3>2 DEF TkCounted
    <2>10. TkIssued'
      <3>1. tkWorld.made <= n /\ tkWorld.made \in Nat /\ n \in Nat /\ n # 0
        BY <2>1, TkValues
      <3>2. tkWorld'.dead \subseteq 1..tkWorld'.made
        BY <2>5, <3>1 DEF TkIssued
      <3>3. \A u \in ShThreads : tkCall'[u].at \in TkRevokes => tkCall[u].at \in TkRevokes
        BY <2>3, <2>4 DEF TkSame, TkRevokes
      <3>4. \A u \in ShThreads : tkCall'[u].tok <= n
        BY <2>3, <2>4, <3>1, TkValues DEF TkSame, TkIssued
      <3>5. \A u \in ShThreads : /\ tkCall'[u].at \in {"idle", "memory", "wait", "check", "issue"} => tkCall'[u].tok = 0
                                 /\ tkCall'[u].at \in {"revoke", "delete"} => tkCall'[u].tok # 0
        BY <2>3, <2>4 DEF TkSame, TkIssued
      <3>6. tkRedis.has.tok <= n /\ tkMem.tok <= n
        BY <3>1, TkValues DEF TkIssued
      <3> QED BY <1>0, <2>5, <3>2, <3>3, <3>4, <3>5, <3>6 DEF TkIssued
    <2>11. TkGone'
      <3>1. SUFFICES ASSUME tkWorld.quiet PROVE TkGone'
        BY <2>5 DEF TkGone
      <3>2. \A r \in ShThreads : tkCall[r].at \notin TkRevokes
        BY <1>0, <3>1 DEF TkGone, TkRevokes
      <3>3. \A r \in ShThreads : tkCall'[r].at \notin TkRevokes
        BY <2>3, <2>4, <3>2 DEF TkSame, TkRevokes
      <3> QED BY <1>0, <1>2, <2>1, <2>3, <2>4, <2>5, <3>1, <3>2, <3>3 DEF TkGone, TkSame
    <2> QED BY <2>7, <2>8, <2>9, <2>10, <2>11
  <1> QED BY <1>3, <1>4 DEF TkIssue

\* What was issued is kept, in memory and in Redis.
LEMMA TkStoreStep ==
    ASSUME ShAssumption, TkAll, NEW t \in ShThreads, TkNew(t) \/ TkStore(t) \/ TkStoreExpiry(t) PROVE TkAll'
  <1> USE DEF TkAll
  <1>0. tkWorld' = tkWorld /\ tkCall[t].at \in {"new", "store", "store2"} /\ tkLock = {t}
    BY DEF TkNew, TkStore, TkStoreExpiry, TkAt, TkLocked
  <1>1. \A u \in ShThreads : tkCall[u].at \in {"check", "issue", "new", "store", "store2"} => u = t
    BY <1>0 DEF TkLocked
  <1>2. /\ tkCall' \in [ShThreads -> TkCallType] /\ TkSame(t) /\ tkCall'[t].at \in {"store", "store2", "idle"}
        /\ tkCall'[t].tok = (IF tkCall'[t].at = "idle" THEN 0 ELSE tkCall[t].tok)
        /\ tkLock' = (IF tkCall'[t].at = "idle" THEN {} ELSE tkLock)
    <2>1. CASE TkNew(t)
      BY <2>1, TkGoIs DEF TkNew, TkSteps
    <2>2. CASE TkStore(t) /\ tkRedis.up
      BY <2>2, TkGoIs DEF TkStore, TkSteps
    <2>3. CASE TkStore(t) /\ ~tkRedis.up
      BY <2>3, TkDoneIs DEF TkStore
    <2>4. CASE TkStoreExpiry(t)
      BY <2>4, TkDoneIs DEF TkStoreExpiry
    <2> QED BY <2>1, <2>2, <2>3, <2>4
  <1>3. PICK d \in TkEntry : d.tok = tkCall[t].tok /\ d.exp = tkCall[t].exp
                             /\ d = [tok |-> tkCall[t].tok, exp |-> tkCall[t].exp]
    <2>1. tkCall[t].tok \in 0..TkMax /\ tkCall[t].exp \in 0..TkMax
      BY DEF TkTyped, TkCallType
    <2> QED BY <2>1 DEF TkEntry
  <1>4. /\ tkMem' \in TkEntry /\ tkMem' \in {tkMem, d} /\ (tkCall[t].at = "new" => tkMem' = d)
        /\ (tkCall[t].at # "new" => tkMem' = tkMem)
    BY <1>3 DEF TkNew, TkStore, TkStoreExpiry, TkAt, TkTyped
  <1>5. /\ tkRedis' \in [up : BOOLEAN, has : TkEntry] /\ tkRedis'.up = tkRedis.up
        /\ tkRedis'.has.tok \in {tkRedis.has.tok, tkCall[t].tok}
    <2>1. PICK x \in [up : BOOLEAN, has : TkEntry] : x = tkRedis
      BY DEF TkTyped
    <2>2. CASE tkRedis' = tkRedis
      BY <2>2 DEF TkTyped
    <2>3. CASE tkRedis' = [tkRedis EXCEPT !.has.tok = tkCall[t].tok]
      <3>1. PICK n \in 0..TkMax : n = tkCall[t].tok
        BY DEF TkTyped, TkCallType
      <3> QED BY <2>1, <2>3, <3>1 DEF TkEntry
    <2>4. CASE tkRedis' = [tkRedis EXCEPT !.has.exp = tkCall[t].exp]
      <3>1. PICK n \in 0..TkMax : n = tkCall[t].exp
        BY DEF TkTyped, TkCallType
      <3> QED BY <2>1, <2>4, <3>1 DEF TkEntry
    <2> QED BY <2>2, <2>3, <2>4 DEF TkNew, TkStore, TkStoreExpiry
  <1>6. TkTyped'
    BY <1>0, <1>2, <1>4, <1>5 DEF TkTyped
  <1>7. TkLocked'
    BY <1>0, <1>1, <1>2 DEF TkLocked, TkSame
  <1>8. TkCounted'
    <2>1. \A u \in ShThreads : tkCall'[u].at \notin {"issue", "new"}
      BY <1>1, <1>2 DEF TkSame
    <2>2. tkWorld.ours = 1 => TkValid(tkMem)'
      <3>1. CASE tkCall[t].at = "new"
        BY <1>0, <1>3, <1>4, <3>1 DEF TkCounted, TkValid
      <3>2. CASE tkCall[t].at # "new"
        BY <1>0, <1>1, <1>4, <3>2 DEF TkCounted, TkValid
      <3> QED BY <3>1, <3>2
    <2> QED BY <1>0, <2>1, <2>2 DEF TkCounted
  <1>9. TkIssued'
    BY <1>0, <1>2, <1>3, <1>4, <1>5, TkValues DEF TkIssued, TkSame, TkRevokes
  <1>10. TkGone'
    <2>1. SUFFICES ASSUME tkWorld.quiet PROVE TkGone'
      BY <1>0 DEF TkGone
    <2>2. \A r \in ShThreads : tkCall[r].at \notin TkRevokes
      BY <1>0, <2>1 DEF TkGone, TkRevokes
    <2>3. \A r \in ShThreads : tkCall'[r].at \notin TkRevokes
      BY <1>2, <2>2 DEF TkSame, TkRevokes
    <2>4. 0 \notin tkWorld.dead
      BY TkValues DEF TkIssued
    <2> QED BY <1>0, <1>2, <1>3, <1>4, <1>5, <2>1, <2>2, <2>3, <2>4 DEF TkGone, TkSame
  <1> QED BY <1>6, <1>7, <1>8, <1>9, <1>10

\* A revoke begins: it is alone with Redis, or is not quiet.
LEMMA TkRevokeStep == ASSUME ShAssumption, TkAll, NEW t \in ShThreads, TkRevoke(t) PROVE TkAll'
  <1> USE DEF TkAll
  <1>0. UNCHANGED <<tkRedis, tkMem, tkLock>> /\ tkCall[t].at = "idle" /\ \A u \in ShThreads : tkCall[u].at \notin TkRevokes
    BY DEF TkRevoke, TkAt, TkRevoking, TkRevokes
  <1>1. PICK n \in 0..TkMax : n = (IF tkRedis.up THEN tkRedis.has.tok ELSE 0)
    BY TkValues DEF TkTyped, TkEntry
  <1>2. PICK d : d = [TkIdle EXCEPT !.at = "drop", !.tok = n]
    OBVIOUS
  <1>3. d \in TkCallType /\ d.at = "drop" /\ d.tok = n
    <2>1. 0 \in 0..TkMax
      BY DEF ShAssumption
    <2> QED BY <1>1, <1>2, <2>1 DEF TkIdle, TkCallType, TkSteps
  <1>4. tkCall' \in [ShThreads -> TkCallType] /\ TkSame(t) /\ tkCall'[t] = d
    <2>1. tkCall' = [tkCall EXCEPT ![t] = d]
      BY <1>1, <1>2 DEF TkRevoke
    <2> QED BY <1>3, <2>1 DEF TkTyped, TkSame
  <1>5. /\ tkWorld' \in TkWorldType /\ TkCountsSame /\ tkWorld'.ours = tkWorld.ours
        /\ tkWorld'.quiet = (tkRedis.up /\ ~TkGetting)
    <2>1. PICK q \in BOOLEAN : q = (tkRedis.up /\ ~TkGetting)
      BY TkValues
    <2>2. tkWorld' = [tkWorld EXCEPT !.quiet = q]
      BY <2>1 DEF TkRevoke
    <2>3. tkWorld' \in TkWorldType /\ TkCountsSame /\ tkWorld'.ours = tkWorld.ours /\ tkWorld'.quiet = q
      BY <2>2, TkWorldIs DEF TkCountsSame
    <2> QED BY <2>1, <2>3
  <1>6. TkTyped'
    BY <1>0, <1>4, <1>5 DEF TkTyped, TkCountsSame
  <1>7. TkLocked'
    BY <1>0, <1>3, <1>4 DEF TkLocked, TkSame
  <1>8. TkCounted'
    BY <1>0, <1>3, <1>4, <1>5 DEF TkCounted, TkSame, TkCountsSame, TkValid
  <1>9. TkIssued'
    <2>1. n <= tkWorld.made
      BY <1>1, TkValues DEF TkIssued
    <2>2. \A u \in ShThreads : tkCall'[u].at \in TkRevokes => u = t
      BY <1>0, <1>4 DEF TkSame
    <2>3. \A u \in ShThreads : /\ tkCall'[u].tok <= tkWorld.made
                               /\ tkCall'[u].at \in {"idle", "memory", "wait", "check", "issue"} => tkCall'[u].tok = 0
                               /\ tkCall'[u].at \in {"revoke", "delete"} => tkCall'[u].tok # 0
      BY <1>3, <1>4, <2>1 DEF TkSame, TkIssued
    <2> QED BY <1>0, <1>5, <2>2, <2>3 DEF TkIssued, TkCountsSame
  <1>10. TkGone'
    <2>1. SUFFICES ASSUME tkRedis.up, ~TkGetting PROVE TkGone'
      BY <1>5 DEF TkGone
    <2>2. \A u \in ShThreads \ {t} : tkCall'[u].at = "idle"
      BY <1>0, <1>4, <2>1 DEF TkSame, TkGetting, TkRevokes
    <2>3. \A r \in ShThreads : tkCall'[r].at \in TkRevokes => r = t
      BY <2>2 DEF TkRevokes
    <2> QED BY <1>0, <1>1, <1>3, <1>4, <2>1, <2>2, <2>3 DEF TkGone, TkRevokes
  <1> QED BY <1>6, <1>7, <1>8, <1>9, <1>10

\* It forgets what memory holds.
LEMMA TkDropStep == ASSUME ShAssumption, TkAll, NEW t \in ShThreads, TkDrop(t) PROVE TkAll'
  <1> USE DEF TkAll
  <1>0. UNCHANGED <<tkRedis, tkLock>> /\ tkCall[t].at = "drop" /\ tkMem' = TkEmpty
    BY DEF TkDrop, TkAt, TkForgets
  <1>1. TkEmpty \in TkEntry /\ TkEmpty.tok = 0
    BY TkValues DEF TkEmpty, TkEntry
  <1>2. /\ tkCall' \in [ShThreads -> TkCallType] /\ TkSame(t) /\ tkCall'[t].tok = tkCall[t].tok
        /\ tkCall'[t].at = (IF tkCall[t].tok = 0 THEN "idle" ELSE "revoke")
    <2>1. CASE tkCall[t].tok = 0
      BY <2>1, TkDoneIs DEF TkDrop
    <2>2. CASE tkCall[t].tok # 0
      BY <2>2, TkGoIs DEF TkDrop, TkSteps
    <2> QED BY <2>1, <2>2
  <1>3. tkWorld' \in TkWorldType /\ TkCountsSame /\ tkWorld'.ours = 0 /\ tkWorld'.quiet = tkWorld.quiet
    BY TkWorldIs DEF TkDrop, TkCountsSame
  <1>4. TkTyped'
    BY <1>0, <1>1, <1>2, <1>3, TkValues DEF TkTyped, TkCountsSame
  <1>5. TkLocked'
    BY <1>0, <1>2 DEF TkLocked, TkSame
  <1>6. TkCounted'
    BY <1>0, <1>2, <1>3 DEF TkCounted, TkSame, TkCountsSame
  <1>7. TkIssued'
    BY <1>0, <1>1, <1>2, <1>3, TkValues DEF TkIssued, TkSame, TkCountsSame, TkRevokes
  <1>8. TkGone'
    <2>1. SUFFICES ASSUME tkWorld.quiet PROVE TkGone'
      BY <1>3 DEF TkGone
    <2>2. /\ tkRedis.up /\ \A u \in ShThreads \ {t} : tkCall[u].at = "idle"
          /\ tkRedis.has.tok \notin tkWorld.dead \/ tkRedis.has.tok = tkCall[t].tok
      BY <1>0, <2>1 DEF TkGone, TkRevokes
    <2>3. 0 \notin tkWorld.dead
      BY TkValues DEF TkIssued
    <2>4. \A u \in ShThreads \ {t} : tkCall'[u].at = "idle" /\ tkCall'[u].tok = 0
      BY <1>2, <2>2 DEF TkSame, TkIssued
    <2>5. \A r \in ShThreads : tkCall'[r].at \in TkRevokes => r = t
      BY <2>4 DEF TkRevokes
    <2>6. (\A r \in ShThreads : tkCall'[r].at \notin TkRevokes) => tkCall[t].tok = 0
      BY <1>2 DEF TkRevokes
    <2>7. \A t2 \in ShThreads : tkCall[t].tok = 0 => tkCall'[t2].tok = 0
      BY <1>2, <2>4
    <2> QED BY <1>0, <1>1, <1>2, <1>3, <2>2, <2>3, <2>4, <2>5, <2>6, <2>7 DEF TkGone, TkCountsSame
  <1> QED BY <1>4, <1>5, <1>6, <1>7, <1>8

\* It tells the broker.
LEMMA TkTellStep == ASSUME ShAssumption, TkAll, NEW t \in ShThreads, TkTell(t) PROVE TkAll'
  <1> USE DEF TkAll
  <1>0. UNCHANGED <<tkRedis, tkMem, tkLock>> /\ tkCall[t].at = "revoke" /\ tkCall[t].tok # 0 /\ tkCall[t].tok <= tkWorld.made
    BY DEF TkTell, TkAt, TkIssued
  <1>1. tkCall[t].tok \in 1..tkWorld.made /\ tkCall[t].tok \in 1..TkMax
    BY <1>0, TkValues
  <1>2. /\ tkCall' \in [ShThreads -> TkCallType] /\ TkSame(t) /\ tkCall'[t].at \in {"delete", "idle"}
        /\ tkCall'[t].tok = (IF tkCall'[t].at = "idle" THEN 0 ELSE tkCall[t].tok)
        /\ tkWorld' \in TkWorldType /\ tkWorld'.made = tkWorld.made /\ tkWorld'.aged = tkWorld.aged
        /\ tkWorld'.ours = tkWorld.ours /\ tkWorld'.dead \subseteq tkWorld.dead \cup {tkCall[t].tok}
        /\ tkWorld'.quiet => tkWorld.quiet /\ tkCall'[t].at = "delete"
    <2>1. PICK w \in TkWorldType : w = tkWorld
      BY DEF TkTyped
    <2>2. CASE TkGo(t, "delete") /\ tkWorld' = [tkWorld EXCEPT !.dead = @ \cup {tkCall[t].tok}]
      <3>1. PICK s \in SUBSET (1..TkMax) : s = w.dead \cup {tkCall[t].tok}
        BY <1>1, <2>1 DEF TkWorldType
      <3>2. tkWorld' = [w EXCEPT !.dead = s]
        BY <2>1, <2>2, <3>1
      <3>3. /\ tkWorld' \in TkWorldType /\ tkWorld'.made = w.made /\ tkWorld'.aged = w.aged /\ tkWorld'.ours = w.ours
            /\ tkWorld'.dead = s /\ tkWorld'.quiet = w.quiet
        BY <3>2 DEF TkWorldType
      <3> QED BY <2>1, <2>2, <3>1, <3>3, TkGoIs DEF TkSteps
    <2>3. CASE TkDone(t) /\ \E dead \in {{}, {tkCall[t].tok}} : tkWorld' = [tkWorld EXCEPT !.dead = @ \cup dead, !.quiet = FALSE]
      <3>1. PICK s \in SUBSET (1..TkMax) : /\ s \subseteq w.dead \cup {tkCall[t].tok}
                                           /\ tkWorld' = [w EXCEPT !.dead = s, !.quiet = FALSE]
        <4>1. PICK dead \in {{}, {tkCall[t].tok}} : tkWorld' = [tkWorld EXCEPT !.dead = @ \cup dead, !.quiet = FALSE]
          BY <2>3
        <4>2. tkWorld' = [w EXCEPT !.dead = w.dead \cup dead, !.quiet = FALSE] /\ w.dead \cup dead \subseteq w.dead \cup {tkCall[t].tok}
          BY <2>1, <4>1
        <4>3. w.dead \cup dead \in SUBSET (1..TkMax)
          BY <1>1, <4>1 DEF TkWorldType
        <4> QED BY <4>2, <4>3
      <3>2. /\ tkWorld' \in TkWorldType /\ tkWorld'.made = w.made /\ tkWorld'.aged = w.aged /\ tkWorld'.ours = w.ours
            /\ tkWorld'.dead = s /\ tkWorld'.quiet = FALSE
        BY <3>1 DEF TkWorldType
      <3> QED BY <2>1, <2>3, <3>1, <3>2, TkDoneIs
    <2> QED BY <2>2, <2>3 DEF TkTell
  <1>3. TkTyped'
    BY <1>0, <1>2 DEF TkTyped
  <1>4. TkLocked'
    BY <1>0, <1>2 DEF TkLocked, TkSame
  <1>5. TkCounted'
    BY <1>0, <1>2 DEF TkCounted, TkSame, TkValid
  <1>6. TkIssued'
    <2>1. tkWorld'.dead \subseteq 1..tkWorld'.made
      BY <1>1, <1>2 DEF TkIssued
    <2>2. \A u \in ShThreads : tkCall'[u].at \in TkRevokes => tkCall[u].at \in TkRevokes
      BY <1>0, <1>2 DEF TkSame, TkRevokes
    <2>3. \A u \in ShThreads : /\ tkCall'[u].tok <= tkWorld.made
                               /\ tkCall'[u].at \in {"idle", "memory", "wait", "check", "issue"} => tkCall'[u].tok = 0
                               /\ tkCall'[u].at \in {"revoke", "delete"} => tkCall'[u].tok # 0
      BY <1>0, <1>2, TkValues DEF TkSame, TkIssued
    <2> QED BY <1>0, <1>2, <2>1, <2>2, <2>3 DEF TkIssued
  <1>7. TkGone'
    <2>1. SUFFICES ASSUME tkWorld.quiet, tkCall'[t].at = "delete" PROVE TkGone'
      BY <1>2 DEF TkGone
    <2>2. /\ tkRedis.up /\ \A u \in ShThreads \ {t} : tkCall[u].at = "idle"
          /\ tkRedis.has.tok \notin tkWorld.dead \/ tkRedis.has.tok = tkCall[t].tok
          /\ tkMem.tok = 0
      BY <1>0, <2>1 DEF TkGone, TkRevokes
    <2>3. \A u \in ShThreads \ {t} : tkCall'[u].at = "idle"
      BY <1>2, <2>2 DEF TkSame
    <2>4. tkCall'[t].tok = tkCall[t].tok /\ \A r \in ShThreads : tkCall'[r].at \in TkRevokes => r = t
      BY <1>2, <2>1, <2>3 DEF TkRevokes
    <2>5. tkRedis'.has.tok \notin tkWorld'.dead \/ tkRedis'.has.tok = tkCall'[t].tok
      BY <1>0, <1>2, <2>2, <2>4
    <2> QED BY <1>0, <2>1, <2>2, <2>3, <2>4, <2>5 DEF TkGone, TkRevokes
  <1> QED BY <1>3, <1>4, <1>5, <1>6, <1>7

\* It deletes what Redis has.
LEMMA TkDeleteStep == ASSUME ShAssumption, TkAll, NEW t \in ShThreads, TkDelete(t) PROVE TkAll'
  <1> USE DEF TkAll
  <1>0. UNCHANGED <<tkMem, tkLock, tkWorld>> /\ tkCall[t].at = "delete"
    BY DEF TkDelete, TkAt
  <1>1. /\ tkCall' \in [ShThreads -> TkCallType] /\ TkSame(t) /\ tkCall'[t].at = "idle" /\ tkCall'[t].tok = 0
    BY TkDoneIs DEF TkDelete
  <1>2. /\ tkRedis' \in [up : BOOLEAN, has : TkEntry] /\ tkRedis'.up = tkRedis.up
        /\ tkRedis'.has.tok = (IF tkRedis.up THEN 0 ELSE tkRedis.has.tok)
    <2>1. PICK x \in [up : BOOLEAN, has : TkEntry] : x = tkRedis
      BY DEF TkTyped
    <2>2. PICK e \in TkEntry : e = TkEmpty /\ e.tok = 0
      <3>1. TkEmpty \in TkEntry /\ TkEmpty.tok = 0
        BY DEF ShAssumption, TkEmpty, TkEntry
      <3> QED BY <3>1
    <2>3. tkRedis' = IF x.up THEN [x EXCEPT !.has = e] ELSE x
      BY <2>1, <2>2 DEF TkDelete
    <2> QED BY <2>1, <2>2, <2>3
  <1>3. TkTyped'
    BY <1>0, <1>1, <1>2 DEF TkTyped
  <1>4. TkLocked'
    BY <1>0, <1>1 DEF TkLocked, TkSame
  <1>5. TkCounted'
    BY <1>0, <1>1 DEF TkCounted, TkSame, TkValid
  <1>6. TkIssued'
    BY <1>0, <1>1, <1>2, TkValues DEF TkIssued, TkSame, TkRevokes
  <1>7. TkGone'
    <2>1. SUFFICES ASSUME tkWorld.quiet PROVE TkGone'
      BY <1>0 DEF TkGone
    <2>2. tkRedis.up /\ (\A u \in ShThreads \ {t} : tkCall[u].at = "idle") /\ tkMem.tok = 0
      BY <1>0, <2>1 DEF TkGone, TkRevokes
    <2>3. 0 \notin tkWorld.dead
      BY TkValues DEF TkIssued
    <2>4. \A u \in ShThreads : tkCall'[u].at = "idle" /\ tkCall'[u].tok = 0
      BY <1>1, <2>2 DEF TkSame, TkIssued
    <2> QED BY <1>0, <1>2, <2>2, <2>3, <2>4 DEF TkGone, TkRevokes
  <1> QED BY <1>3, <1>4, <1>5, <1>6, <1>7

\* What goes on outside the process: another one's token, time, Redis.
LEMMA TkOutsideStep == ASSUME ShAssumption, TkAll, TkForeign \/ TkAge \/ TkTurn PROVE TkAll'
  <1> USE DEF TkAll
  <1>0. UNCHANGED <<tkMem, tkLock, tkCall>>
    BY DEF TkForeign, TkAge, TkTurn
  <1>1. PICK w \in TkWorldType : w = tkWorld
    BY DEF TkTyped
  <1>2. PICK x \in [up : BOOLEAN, has : TkEntry] : x = tkRedis
    BY DEF TkTyped
  <1>3. 0 \notin tkWorld.dead /\ tkWorld.made + 1 \notin tkWorld.dead
    BY TkValues DEF TkIssued
  <1>4. CASE TkForeign
    <2>1. PICK n \in 1..TkMax : n = tkWorld.made + 1 /\ n \in 0..TkMax
      BY <1>4, TkValues DEF TkForeign
    <2>2. PICK e : e = [tok |-> n, exp |-> n]
      OBVIOUS
    <2>e. e \in TkEntry /\ e.tok = n
      BY <2>1, <2>2 DEF TkEntry
    <2>3. tkRedis' = [x EXCEPT !.has = e] /\ tkWorld' = [w EXCEPT !.made = n] /\ tkRedis.up
      BY <1>1, <1>2, <1>4, <2>1, <2>2 DEF TkForeign
    <2>4. /\ tkRedis' \in [up : BOOLEAN, has : TkEntry] /\ tkRedis'.up = tkRedis.up /\ tkRedis'.has.tok = n
      BY <1>2, <2>e, <2>3
    <2>5. /\ tkWorld' \in TkWorldType /\ tkWorld'.made = n /\ tkWorld'.aged = w.aged /\ tkWorld'.ours = w.ours
          /\ tkWorld'.dead = w.dead /\ tkWorld'.quiet = w.quiet
      BY <2>1, <2>3 DEF TkWorldType
    <2>6. TkTyped'
      <3>1. w.ours <= n /\ w.aged <= n
        BY <1>1, <2>1, TkValues DEF TkTyped
      <3> QED BY <1>0, <2>4, <2>5, <3>1 DEF TkTyped
    <2>7. TkLocked' /\ TkCounted'
      BY <1>0, <1>1, <2>5 DEF TkLocked, TkCounted, TkValid
    <2>8. TkIssued'
      <3>1. tkWorld.made <= n /\ tkWorld.made \in Nat /\ n \in Nat
        BY <2>1, TkValues
      <3>2. w.dead \subseteq 1..n
        BY <1>1, <3>1 DEF TkIssued
      <3>3. \A u \in ShThreads : tkCall[u].tok <= n
        BY <3>1, TkValues DEF TkIssued
      <3>4. tkMem.tok <= n
        BY <3>1, TkValues DEF TkIssued
      <3> QED BY <1>0, <2>4, <2>5, <3>1, <3>2, <3>3, <3>4 DEF TkIssued
    <2>9. TkGone'
      BY <1>0, <1>1, <1>3, <2>1, <2>4, <2>5 DEF TkGone
    <2> QED BY <2>6, <2>7, <2>8, <2>9
  <1>5. CASE TkAge
    <2>1. PICK n \in 0..TkMax : n = tkWorld.aged + 1 /\ n <= tkWorld.made
      BY <1>5, TkValues DEF TkAge
    <2>2. tkRedis' = tkRedis /\ tkWorld' = [w EXCEPT !.aged = n, !.ours = 0]
      BY <1>1, <1>5, <2>1 DEF TkAge
    <2>3. /\ tkWorld' \in TkWorldType /\ tkWorld'.made = w.made /\ tkWorld'.aged = n /\ tkWorld'.ours = 0
          /\ tkWorld'.dead = w.dead /\ tkWorld'.quiet = w.quiet
      BY <2>2 DEF TkWorldType
    <2>4. TkTyped'
      BY <1>0, <1>1, <2>1, <2>2, <2>3, TkValues DEF TkTyped
    <2>5. TkLocked' /\ TkCounted' /\ TkIssued' /\ TkGone'
      BY <1>0, <1>1, <2>2, <2>3 DEF TkLocked, TkCounted, TkIssued, TkGone
    <2> QED BY <2>4, <2>5
  <1>6. CASE TkTurn
    <2>1. /\ tkRedis' \in [up : BOOLEAN, has : TkEntry] /\ tkRedis'.has = tkRedis.has
      BY <1>2, <1>6 DEF TkTurn
    <2>2. PICK q \in BOOLEAN : q = (tkWorld.quiet /\ ~TkRevoking)
      BY TkValues
    <2>3. tkWorld' = [tkWorld EXCEPT !.quiet = q]
      BY <1>6, <2>2 DEF TkTurn
    <2>4. tkWorld' \in TkWorldType /\ TkCountsSame /\ tkWorld'.ours = tkWorld.ours /\ tkWorld'.quiet = q
      BY <2>3, TkWorldIs DEF TkCountsSame
    <2>5. TkTyped' /\ TkLocked' /\ TkCounted' /\ TkIssued'
      BY <1>0, <2>1, <2>4 DEF TkTyped, TkLocked, TkCounted, TkIssued, TkValid, TkCountsSame
    <2>6. TkGone'
      BY <1>0, <2>1, <2>2, <2>4 DEF TkGone, TkCountsSame, TkRevoking, TkRevokes
    <2> QED BY <2>5, <2>6
  <1> QED BY <1>4, <1>5, <1>6

\* No token has been asked for.
LEMMA TkStart == ASSUME ShAssumption, TkInit PROVE TkAll
  <1>1. TkEmpty \in TkEntry /\ TkEmpty.tok = 0 /\ TkIdle \in TkCallType /\ TkIdle.at = "idle" /\ TkIdle.tok = 0
    BY DEF ShAssumption, TkEmpty, TkEntry, TkIdle, TkCallType, TkSteps
  <1>2. /\ tkRedis \in [up : BOOLEAN, has : TkEntry] /\ tkRedis.has.tok = 0 /\ tkMem \in TkEntry /\ tkMem.tok = 0 /\ tkLock = {}
    BY <1>1 DEF TkInit
  <1>3. tkCall \in [ShThreads -> TkCallType] /\ \A t \in ShThreads : tkCall[t].at = "idle" /\ tkCall[t].tok = 0
    BY <1>1 DEF TkInit
  <1>4. tkWorld \in TkWorldType /\ tkWorld.made = 0 /\ tkWorld.aged = 0 /\ tkWorld.dead = {} /\ tkWorld.ours = 0
    BY DEF TkInit, TkWorldType, ShAssumption
  <1>5. TkTyped
    BY <1>2, <1>3, <1>4 DEF TkTyped
  <1>6. TkLocked /\ TkCounted /\ TkIssued /\ TkGone
    BY <1>2, <1>3, <1>4 DEF TkLocked, TkCounted, TkIssued, TkGone, TkRevokes
  <1> QED BY <1>5, <1>6 DEF TkAll

\* Whatever a thread or the broker does about the token.
LEMMA TkStep == ASSUME ShAssumption, TkAll, [TkNext]_tkVars PROVE TkAll'
  <1>1. CASE UNCHANGED tkVars
    BY <1>1 DEF tkVars, TkAll, TkTyped, TkLocked, TkCounted, TkIssued, TkGone, TkValid
  <1>2. CASE TkForeign \/ TkAge \/ TkTurn
    BY <1>2, TkOutsideStep
  <1>3. CASE \E t \in ShThreads :
                \/ TkBegin(t) \/ TkExpiry(t) \/ TkKeep(t) \/ TkMemory(t) \/ TkLocks(t) \/ TkCheck(t)
                \/ TkIssue(t) \/ TkNew(t) \/ TkStore(t) \/ TkStoreExpiry(t)
                \/ TkRevoke(t) \/ TkDrop(t) \/ TkTell(t) \/ TkDelete(t)
    BY <1>3, TkReadStep, TkKeepStep, TkLockStep, TkIssueStep, TkStoreStep, TkRevokeStep,
       TkDropStep, TkTellStep, TkDeleteStep
  <1> QED BY <1>1, <1>2, <1>3 DEF TkNext

\* What the run asks of it.
LEMMA TkMeans ==
    ASSUME ShAssumption, TkAll
    PROVE  /\ TkOneIssued /\ TkRevokedOut
           /\ tkRedis.up \in BOOLEAN /\ {tkRedis.has, tkMem} \subseteq TkEntry
           /\ tkLock \subseteq ShThreads /\ Cardinality(tkLock) <= 1
           /\ tkCall \in [ShThreads -> TkCallType]
           /\ tkWorld \in [made : 0..TkMax, aged : 0..TkMax, dead : SUBSET (1..TkMax), ours : 0..TkMax, quiet : BOOLEAN]
  <1> USE DEF TkAll
  <1>1. TkOneIssued
    BY DEF TkOneIssued, TkCounted
  <1>2. TkRevokedOut
    BY DEF TkRevokedOut, TkGone, TkRevoking, TkRevokes
  <1>3. Cardinality(tkLock) <= 1
    <2>1. CASE tkLock = {}
      BY <2>1, FS_EmptySet
    <2>2. CASE \E t \in ShThreads : tkLock = {t}
      <3>1. PICK t \in ShThreads : tkLock = {t}
        BY <2>2
      <3>2. Cardinality({t}) = 1
        BY FS_Singleton
      <3> QED BY <3>1, <3>2
    <2> QED BY <2>1, <2>2 DEF TkLocked
  <1>4. tkWorld \in [made : 0..TkMax, aged : 0..TkMax, dead : SUBSET (1..TkMax), ours : 0..TkMax, quiet : BOOLEAN]
    <2>1. tkWorld.ours \in 0..TkMax
      BY TkValues DEF TkTyped
    <2> QED BY <2>1 DEF TkTyped, TkWorldType
  <1> QED BY <1>1, <1>2, <1>3, <1>4 DEF TkTyped

-----------------------------------------------------------------------------
(* The pace.                                                                  *)

\* Every slot claimed from now to the last one is of one thread that waits for it.
LmAll ==
    /\ lmLead \in Int /\ lmLead >= -1 /\ lmWait \in [ShThreads -> Int]
    /\ \A t \in ShThreads : lmWait[t] >= -1 /\ lmWait[t] <= lmLead
    /\ \A t, u \in ShThreads : lmWait[t] = lmWait[u] /\ lmWait[t] >= 0 => t = u
    /\ \A k \in 1..lmLead : \E t \in ShThreads : lmWait[t] = k

\* A slot claimed is the first that nobody has.
LEMMA LmStep == ASSUME LmAll, [LmNext]_lmVars PROVE LmAll'
  <1> USE DEF LmAll
  <1>1. CASE UNCHANGED lmVars
    BY <1>1 DEF lmVars
  <1>2. CASE LmTick
    <2>1. /\ lmLead' = (IF lmLead < 0 THEN -1 ELSE lmLead - 1)
          /\ lmWait' \in [ShThreads -> Int]
          /\ \A t \in ShThreads : lmWait'[t] = (IF lmWait[t] < 0 THEN -1 ELSE lmWait[t] - 1)
      BY <1>2 DEF LmTick
    <2>2. lmLead' \in Int /\ lmLead' >= -1 /\ \A t \in ShThreads : lmWait'[t] >= -1 /\ lmWait'[t] <= lmLead'
      BY <2>1
    <2>3. \A t, u \in ShThreads : lmWait'[t] = lmWait'[u] /\ lmWait'[t] >= 0 => t = u
      BY <2>1
    <2>4. \A k \in 1..lmLead' : \E t \in ShThreads : lmWait'[t] = k
      <3>1. SUFFICES ASSUME NEW k \in 1..lmLead' PROVE \E t \in ShThreads : lmWait'[t] = k
        OBVIOUS
      <3>2. k + 1 \in 1..lmLead
        BY <2>1, <3>1
      <3>3. PICK t \in ShThreads : lmWait[t] = k + 1
        BY <3>2
      <3>4. lmWait'[t] = k
        BY <2>1, <3>1, <3>3
      <3> QED BY <3>4
    <2> QED BY <2>1, <2>2, <2>3, <2>4
  <1>3. ASSUME NEW t \in ShThreads, LmClaim(t) PROVE LmAll'
    <2>1. /\ lmWait[t] <= 0 /\ lmLead' = (IF lmLead < 0 THEN 0 ELSE lmLead + 1)
          /\ lmWait' \in [ShThreads -> Int] /\ lmWait'[t] = lmLead'
          /\ \A u \in ShThreads \ {t} : lmWait'[u] = lmWait[u]
      BY <1>3 DEF LmClaim, LmSlot
    <2>2. lmLead' \in Int /\ lmLead' >= -1 /\ \A u \in ShThreads : lmWait'[u] >= -1 /\ lmWait'[u] <= lmLead'
      BY <2>1
    <2>3. \A u \in ShThreads \ {t} : lmWait'[u] < lmLead'
      BY <2>1
    <2>4. \A u, v \in ShThreads : lmWait'[u] = lmWait'[v] /\ lmWait'[u] >= 0 => u = v
      BY <2>1, <2>3
    <2>5. \A k \in 1..lmLead' : \E u \in ShThreads : lmWait'[u] = k
      <3>1. SUFFICES ASSUME NEW k \in 1..lmLead' PROVE \E u \in ShThreads : lmWait'[u] = k
        OBVIOUS
      <3>2. CASE k = lmLead'
        BY <2>1, <3>2
      <3>3. CASE k # lmLead'
        <4>1. k \in 1..lmLead
          BY <2>1, <3>1, <3>3
        <4>2. PICK u \in ShThreads : lmWait[u] = k
          BY <4>1
        <4>3. u # t
          BY <2>1, <4>1, <4>2
        <4> QED BY <2>1, <4>2, <4>3
      <3> QED BY <3>2, <3>3
    <2> QED BY <2>1, <2>2, <2>4, <2>5
  <1> QED BY <1>1, <1>2, <1>3 DEF LmNext

\* As many slots are taken as there are threads, at most.
LEMMA LmMeans == ASSUME ShAssumption, LmAll PROVE LmPaced
  <1> USE DEF LmAll
  <1>1. IsFiniteSet(ShThreads) /\ Cardinality(ShThreads) \in Nat
    BY FS_CardinalityType DEF ShAssumption
  <1>2. lmLead <= Cardinality(ShThreads)
    <2>1. CASE lmLead <= 0
      BY <1>1, <2>1
    <2>2. CASE lmLead > 0
      <3> DEFINE holder == [k \in 1..lmLead |-> CHOOSE t \in ShThreads : lmWait[t] = k]
      <3>1. \A k \in 1..lmLead : holder[k] \in ShThreads /\ lmWait[holder[k]] = k
        OBVIOUS
      <3>2. holder \in Injection(1..lmLead, ShThreads)
        <4>1. holder \in [1..lmLead -> ShThreads]
          BY <3>1
        <4>2. \A k, m \in 1..lmLead : holder[k] = holder[m] => k = m
          BY <3>1
        <4> HIDE DEF holder
        <4> QED BY <4>1, <4>2 DEF Injection, IsInjective
      <3>3. Cardinality(1..lmLead) <= Cardinality(ShThreads)
        <4> HIDE DEF holder
        <4> QED BY <1>1, <3>2, FS_Injection
      <3>4. Cardinality(1..lmLead) = lmLead
        BY <2>2, FS_Interval
      <3> QED BY <3>3, <3>4
    <2> QED BY <2>1, <2>2
  <1>3. \A t \in ShThreads : lmWait[t] <= Cardinality(ShThreads)
    BY <1>1, <1>2
  <1>4. \A t, u \in ShThreads : t # u /\ lmWait[t] = lmWait[u] => lmWait[t] = -1
    OBVIOUS
  <1> QED BY <1>3, <1>4 DEF LmPaced

-----------------------------------------------------------------------------
(* The exchange rate.                                                         *)

FxRateType == [seen : BOOLEAN, set : 0..FxSizing, tried : 0..FxRetry]
FxCallType == [at : {"idle", "claim", "fetch", "read", "done"}, sizes : BOOLEAN, since : 0..FxRetry,
               res : {"none", "refused", "fetched", "default"}]
FxEarly(t) == fxCall[t].at = "fetch" /\ fxCall[t].since < FxRetry
FxTold(c) == c.at = "done" => (c.sizes => c.res # "default") /\ (~c.sizes => c.res # "refused")

\* The last attempt is no older than any that is still out.
FxAll ==
    /\ fxRate \in FxRateType /\ fxCall \in [ShThreads -> FxCallType]
    /\ \A t \in ShThreads : fxCall[t].at = "fetch" => fxCall[t].since >= fxRate.tried
    /\ \A t, u \in ShThreads : FxEarly(t) /\ FxEarly(u) => t = u
    /\ \A t \in ShThreads : FxTold(fxCall[t])

\* A step of one call that asks for nothing.
LEMMA FxCallStep ==
    ASSUME FxAll, NEW t \in ShThreads, NEW c \in FxCallType, fxCall' = [fxCall EXCEPT ![t] = c], c.at # "fetch", FxTold(c),
           fxRate' \in FxRateType, fxRate'.tried = fxRate.tried
    PROVE  FxAll'
  <1>1. fxCall' \in [ShThreads -> FxCallType] /\ fxCall'[t] = c /\ \A u \in ShThreads \ {t} : fxCall'[u] = fxCall[u]
    BY DEF FxAll
  <1>2. \A u \in ShThreads : FxTold(fxCall'[u])
    BY <1>1 DEF FxAll
  <1>3. \A u \in ShThreads : fxCall'[u].at = "fetch" => fxCall'[u] = fxCall[u]
    BY <1>1
  <1> QED BY <1>1, <1>2, <1>3 DEF FxAll, FxEarly

\* Whatever a thread does about the exchange rate.
LEMMA FxStep == ASSUME ShAssumption, FxAll, [FxNext]_fxVars PROVE FxAll'
  <1>0. FxRetry \in Nat /\ FxRetry > 0 /\ FxSizing \in Nat /\ FxTtl \in Nat
    BY DEF ShAssumption
  <1>1. PICK r \in FxRateType : r = fxRate
    BY DEF FxAll
  <1>2. CASE UNCHANGED fxVars
    BY <1>2 DEF fxVars, FxAll, FxEarly
  <1>3. CASE FxTick
    <2>1. PICK a \in 0..FxSizing, b \in 0..FxRetry :
              /\ a = (IF r.set < FxSizing THEN r.set + 1 ELSE r.set)
              /\ b = (IF r.tried < FxRetry THEN r.tried + 1 ELSE r.tried)
      BY <1>0 DEF FxRateType
    <2>2. fxRate' = [r EXCEPT !.set = a, !.tried = b]
      BY <1>1, <1>3, <2>1 DEF FxTick
    <2>3. fxRate' \in FxRateType /\ fxRate'.tried = b
      BY <2>2 DEF FxRateType
    <2>4. ASSUME NEW t \in ShThreads
          PROVE  /\ fxCall'[t] \in FxCallType /\ fxCall'[t].at = fxCall[t].at /\ FxTold(fxCall'[t])
                 /\ fxCall'[t].at = "fetch" => /\ fxCall'[t].since >= fxCall[t].since
                                               /\ fxCall'[t].since = (IF fxCall[t].since < FxRetry THEN fxCall[t].since + 1 ELSE fxCall[t].since)
      <3>1. PICK c \in FxCallType : c = fxCall[t] /\ FxTold(c)
        BY DEF FxAll
      <3>2. CASE c.at = "fetch" /\ c.since < FxRetry
        <4>1. PICK n \in 0..FxRetry : n = c.since + 1
          BY <1>0, <3>2 DEF FxCallType
        <4>2. fxCall'[t] = [c EXCEPT !.since = n]
          BY <1>3, <3>1, <3>2, <4>1 DEF FxTick
        <4>3. fxCall'[t] \in FxCallType /\ fxCall'[t].at = c.at /\ fxCall'[t].since = n
          BY <4>2 DEF FxCallType
        <4>4. c.since \in 0..FxRetry
          BY DEF FxCallType
        <4> QED BY <1>0, <3>1, <3>2, <4>1, <4>3, <4>4 DEF FxTold
      <3>3. CASE ~(c.at = "fetch" /\ c.since < FxRetry)
        <4>1. fxCall'[t] = c
          BY <1>3, <3>1, <3>3 DEF FxTick
        <4>2. c.since \in 0..FxRetry
          BY DEF FxCallType
        <4> QED BY <1>0, <3>1, <3>3, <4>1, <4>2
      <3> QED BY <3>2, <3>3
    <2>5. fxCall' \in [ShThreads -> FxCallType]
      BY <1>3, <2>4 DEF FxTick
    <2>6. \A t \in ShThreads : fxCall[t].since \in 0..FxRetry /\ r.tried \in 0..FxRetry
      BY DEF FxAll, FxCallType, FxRateType
    <2>7. \A t \in ShThreads : fxCall'[t].at = "fetch" => fxCall'[t].since >= fxRate'.tried
      BY <1>0, <1>1, <2>1, <2>3, <2>4, <2>6 DEF FxAll
    <2>8. \A t \in ShThreads : FxEarly(t)' => FxEarly(t)
      BY <1>0, <2>4, <2>6 DEF FxEarly
    <2> QED BY <2>3, <2>4, <2>5, <2>7, <2>8 DEF FxAll
  <1>4. ASSUME NEW t \in ShThreads, FxBegin(t) \/ FxClaim(t) \/ FxFetch(t) \/ FxRead(t) \/ FxReturn(t) PROVE FxAll'
    <2>1. PICK c \in FxCallType : c = fxCall[t]
      BY DEF FxAll
    <2>2. FxIdle \in FxCallType /\ FxIdle.at = "idle"
      BY <1>0 DEF FxIdle, FxCallType
    <2>3. CASE FxBegin(t)
      <3>1. PICK z \in BOOLEAN, at \in {"read", "claim"} : fxCall' = [fxCall EXCEPT ![t] = [FxIdle EXCEPT !.sizes = z, !.at = at]]
        BY <2>3 DEF FxBegin
      <3>2. PICK d : d = [FxIdle EXCEPT !.sizes = z, !.at = at]
        OBVIOUS
      <3>3. d \in FxCallType /\ d.at = at
        BY <2>2, <3>2 DEF FxCallType
      <3>4. fxRate' = r /\ fxCall' = [fxCall EXCEPT ![t] = d]
        BY <1>1, <2>3, <3>1, <3>2 DEF FxBegin
      <3> QED BY <1>1, <3>3, <3>4, FxCallStep DEF FxTold
    <2>4. CASE FxClaim(t) /\ fxRate.tried < FxRetry
      <3>1. PICK d : d = [c EXCEPT !.at = "read"]
        OBVIOUS
      <3>2. d \in FxCallType /\ d.at = "read"
        BY <3>1 DEF FxCallType
      <3>3. fxRate' = r /\ fxCall' = [fxCall EXCEPT ![t] = d]
        BY <1>1, <2>1, <2>4, <3>1 DEF FxClaim, FxGo
      <3> QED BY <1>1, <3>2, <3>3, FxCallStep DEF FxTold
    <2>5. CASE FxClaim(t) /\ ~(fxRate.tried < FxRetry)
      <3>1. PICK d : d = [c EXCEPT !.at = "fetch", !.since = 0]
        OBVIOUS
      <3>2. d \in FxCallType /\ d.at = "fetch" /\ d.since = 0
        <4>1. 0 \in 0..FxRetry
          BY <1>0
        <4> QED BY <3>1, <4>1 DEF FxCallType
      <3>3. fxRate' = [r EXCEPT !.tried = 0] /\ fxCall' = [fxCall EXCEPT ![t] = d]
        BY <1>1, <2>1, <2>5, <3>1 DEF FxClaim, FxClaims
      <3>4. fxRate' \in FxRateType /\ fxRate'.tried = 0
        BY <1>0, <3>3 DEF FxRateType
      <3>5. fxCall' \in [ShThreads -> FxCallType] /\ fxCall'[t] = d /\ \A u \in ShThreads \ {t} : fxCall'[u] = fxCall[u]
        BY <3>2, <3>3 DEF FxAll
      <3>6. \A u \in ShThreads : fxCall[u].since \in 0..FxRetry /\ fxCall'[u].since \in 0..FxRetry /\ r.tried \in 0..FxRetry
        BY <3>5 DEF FxAll, FxCallType, FxRateType
      <3>7. \A u \in ShThreads : ~FxEarly(u)
        BY <1>0, <1>1, <2>5, <3>6 DEF FxAll, FxEarly
      <3>8. \A u \in ShThreads : FxEarly(u)' => u = t
        BY <3>5, <3>7 DEF FxEarly
      <3>9. \A u \in ShThreads : FxTold(fxCall'[u])
        BY <3>2, <3>5 DEF FxAll, FxTold
      <3> QED BY <3>4, <3>5, <3>6, <3>8, <3>9 DEF FxAll
    <2>6. CASE FxFetch(t)
      <3>1. PICK d : d = [c EXCEPT !.at = "read", !.since = 0]
        OBVIOUS
      <3>2. d \in FxCallType /\ d.at = "read"
        <4>1. 0 \in 0..FxRetry
          BY <1>0
        <4> QED BY <3>1, <4>1 DEF FxCallType
      <3>3. fxCall' = [fxCall EXCEPT ![t] = d] /\ (fxRate' = [r EXCEPT !.seen = TRUE, !.set = 0] \/ fxRate' = r)
        BY <1>1, <2>1, <2>6, <3>1 DEF FxFetch
      <3>4. fxRate' \in FxRateType /\ fxRate'.tried = fxRate.tried
        <4>1. 0 \in 0..FxSizing
          BY <1>0
        <4>2. CASE fxRate' = [r EXCEPT !.seen = TRUE, !.set = 0]
          BY <1>1, <4>1, <4>2 DEF FxRateType
        <4> QED BY <1>1, <3>3, <4>2
      <3> QED BY <3>2, <3>3, <3>4, FxCallStep DEF FxTold
    <2>7. CASE FxRead(t)
      <3>1. PICK res \in {"refused", "fetched", "default"} :
                res = (IF ~FxMayUse(c.sizes) THEN "refused" ELSE IF fxRate.seen THEN "fetched" ELSE "default")
        OBVIOUS
      <3>2. PICK d : d = [c EXCEPT !.at = "done", !.res = res]
        OBVIOUS
      <3>3. d \in FxCallType /\ d.at = "done" /\ d.res = res /\ d.sizes = c.sizes
        BY <3>1, <3>2 DEF FxCallType
      <3>4. fxRate' = r /\ fxCall' = [fxCall EXCEPT ![t] = d]
        BY <1>1, <2>1, <2>7, <3>1, <3>2 DEF FxRead, FxEnds
      <3>5. (c.sizes => res # "default") /\ (~c.sizes => res # "refused")
        BY <3>1 DEF FxMayUse, FxFresh
      <3>6. FxTold(d)
        BY <3>3, <3>5 DEF FxTold
      <3> QED BY <1>1, <3>3, <3>4, <3>6, FxCallStep
    <2>8. CASE FxReturn(t)
      BY <1>1, <2>2, <2>8, FxCallStep DEF FxReturn, FxTold
    <2> QED BY <1>4, <2>3, <2>4, <2>5, <2>6, <2>7, <2>8
  <1> QED BY <1>2, <1>3, <1>4 DEF FxNext

\* The source is asked by one.
LEMMA FxMeans == ASSUME FxAll PROVE FxGentle
  <1> DEFINE S == {t \in ShThreads : fxCall[t].at = "fetch" /\ fxCall[t].since < FxRetry}
  <1>1. Cardinality(S) <= 1
    <2>1. CASE S = {}
      BY <2>1, FS_EmptySet
    <2>2. CASE S # {}
      <3>1. PICK t \in S : S = {t}
        BY <2>2 DEF FxAll, FxEarly
      <3>2. Cardinality({t}) = 1
        BY FS_Singleton
      <3> QED BY <3>1, <3>2
    <2> QED BY <2>1, <2>2
  <1> QED BY <1>1 DEF FxGentle, FxAll, FxTold

\* Nothing has been sent and no rate asked for.
LEMMA LmFxStart == ASSUME ShAssumption, LmInit, FxInit PROVE LmAll /\ FxAll
  <1>1. LmAll
    BY DEF LmInit, LmAll
  <1>2. FxIdle \in FxCallType /\ FxIdle.at = "idle"
    BY DEF ShAssumption, FxIdle, FxCallType
  <1>3. fxRate \in FxRateType
    BY DEF ShAssumption, FxInit, FxRateType
  <1>4. fxCall \in [ShThreads -> FxCallType] /\ \A t \in ShThreads : fxCall[t].at = "idle"
    BY <1>2 DEF FxInit
  <1> QED BY <1>1, <1>3, <1>4 DEF FxAll, FxEarly, FxTold

\* The three at once.
ShAll == TkAll /\ LmAll /\ FxAll

\* What is kept of the three says what the run checks.
LEMMA ShMeans == ASSUME ShAssumption, ShAll PROVE ShInv
  <1>1. ShTypeOK
    BY TkMeans DEF ShTypeOK, ShAll, LmAll, FxAll, TkEntry, TkCallType, TkSteps, FxRateType,
       FxCallType
  <1> QED BY <1>1, TkMeans, LmMeans, FxMeans DEF ShInv, ShAll

-----------------------------------------------------------------------------
(* The paper broker.                                                          *)

PbStatuses == PbTerminal \union {"SUBMITTED", "PARTIAL_FILLED"}
PbAnyPlan == PbPlans \union {PbReject, PbDefault}
PbStepType == [filled : 0..PbQty, status : PbStatuses, price : {1, 2}]
PbOrderType == [side : PbSides, status : PbStatuses, plan : PbAnyPlan, cursor : 1..3, filled : 0..PbQty,
                revealed : 0..PbQty, price : {1, 2}, mixed : BOOLEAN]
PbGraveType == [status : PbDead \union {"none"}, filled : 0..PbQty]
PbShare(o) == PbSign(o.side) * o.revealed
PbCost(o) == PbShare(o) * o.price
PbSane(o) == o.filled <= o.revealed /\ o.cursor <= Len(o.plan) + 1
PbBuried(o, c) == c.status # "none" => c = [status |-> o.status, filled |-> o.revealed]

PbTyped ==
    /\ pbOrders \in Seq(PbOrderType) /\ pbClosed \in Seq(PbGraveType) /\ Len(pbClosed) = Len(pbOrders)
    /\ pbQueue \in [PbSides -> Seq(PbPlans \union {PbReject})]
    /\ pbHeld \in Nat /\ pbCash \in Int /\ pbMoved \in Int /\ pbFail \subseteq {"status", "order"}
PbSums ==
    /\ pbHeld = pbMoved + SumFunctionOnSet([i \in DOMAIN pbOrders |-> PbShare(pbOrders[i])], 1..Len(pbOrders))
    /\ (\A i \in DOMAIN pbOrders : ~pbOrders[i].mixed) =>
           pbCash = -SumFunctionOnSet([i \in DOMAIN pbOrders |-> PbCost(pbOrders[i])], 1..Len(pbOrders))
PbAll == PbTyped /\ PbSums /\ \A i \in 1..Len(pbOrders) : PbSane(pbOrders[i]) /\ PbBuried(pbOrders[i], pbClosed[i])

\* The plans' steps.
LEMMA PbPlanIs ==
    ASSUME PbAssumption, NEW plan \in PbAnyPlan
    PROVE  /\ plan \in Seq(PbStepType) /\ Len(plan) \in {1, 2}
  <1>1. 0 \in 0..PbQty /\ 1 \in 0..PbQty /\ PbQty \in 0..PbQty
    BY DEF PbAssumption
  <1>2. \A n \in 0..PbQty, s \in PbStatuses, p \in {1, 2} : PbStep(n, s, p) \in PbStepType
    BY DEF PbStep, PbStepType
  <1>3. \A a, b \in PbStepType : <<a, b>> \in Seq(PbStepType) /\ Len(<<a, b>>) = 2 /\ <<a>> \in Seq(PbStepType) /\ Len(<<a>>) = 1
    OBVIOUS
  <1>4. /\ PbStep(1, "PARTIAL_FILLED", 1) \in PbStepType /\ PbStep(PbQty, "FILLED", 1) \in PbStepType
        /\ PbStep(PbQty, "FILLED", 2) \in PbStepType /\ PbStep(0, "SUBMITTED", 1) \in PbStepType
        /\ PbStep(1, "PARTIAL_FILLED", 2) \in PbStepType /\ PbStep(1, "EXPIRED", 2) \in PbStepType
        /\ PbStep(0, "REJECTED", 1) \in PbStepType
    BY <1>1, <1>2 DEF PbStatuses, PbTerminal, PbDead
  <1> QED BY <1>3, <1>4 DEF PbAnyPlan, PbPlans, PbReject, PbDefault

\* What an order has brought and cost.
LEMMA PbShareIs ==
    ASSUME PbAssumption, NEW o \in PbOrderType
    PROVE  /\ PbShare(o) \in Int /\ PbCost(o) \in Int /\ PbSign(o.side) \in {1, -1}
           /\ PbShare(o) = (IF o.side = "buy" THEN o.revealed ELSE -o.revealed)
           /\ PbCost(o) = (IF o.price = 1 THEN PbShare(o) ELSE PbShare(o) + PbShare(o))
           /\ o.price \in {1, 2} /\ o.revealed \in 0..PbQty /\ o.revealed \in Nat /\ o.filled \in 0..PbQty /\ PbQty \in Nat
  <1>1. /\ o.revealed \in Nat /\ o.price \in {1, 2} /\ o.side \in {"buy", "sell"} /\ PbQty \in Nat
        /\ o.revealed \in 0..PbQty /\ o.filled \in 0..PbQty
    BY DEF PbAssumption, PbOrderType, PbSides
  <1>2. PbSign(o.side) \in {1, -1} /\ PbShare(o) = (IF o.side = "buy" THEN o.revealed ELSE -o.revealed)
    BY <1>1 DEF PbSign, PbShare
  <1>3. PbShare(o) \in Int
    BY <1>1, <1>2
  <1>4. PbCost(o) = (IF o.price = 1 THEN PbShare(o) ELSE PbShare(o) + PbShare(o))
    <2>1. CASE o.price = 1
      BY <1>3, <2>1 DEF PbCost
    <2>2. CASE o.price = 2
      BY <1>3, <2>2 DEF PbCost
    <2> QED BY <1>1, <2>1, <2>2
  <1> QED BY <1>1, <1>2, <1>3, <1>4

\* One order changes.
LEMMA PbOneStep ==
    ASSUME PbAssumption, PbAll, NEW i \in DOMAIN pbOrders, NEW p \in PbOrderType, pbOrders' = [pbOrders EXCEPT ![i] = p],
           p.side = pbOrders[i].side, pbOrders[i].status \notin PbDead, PbSane(p), PbBury(i),
           pbHeld' \in Nat, pbMoved' \in Int, pbCash' \in Int, UNCHANGED <<pbQueue, pbFail>>,
           (pbHeld' - pbMoved') - (pbHeld - pbMoved) = PbShare(p) - PbShare(pbOrders[i]),
           ~p.mixed => ~pbOrders[i].mixed /\ pbCash' - pbCash = PbCost(pbOrders[i]) - PbCost(p)
    PROVE  PbAll'
  <1> DEFINE n == Len(pbOrders)
             o == pbOrders[i]
  <1>1. n \in Nat /\ DOMAIN pbOrders = 1..n /\ i \in 1..n /\ \A j \in 1..n : pbOrders[j] \in PbOrderType
    BY LenProperties, ElementOfSeq DEF PbAll, PbTyped
  <1>2. /\ pbOrders' \in Seq(PbOrderType) /\ Len(pbOrders') = n
        /\ \A j \in 1..n : pbOrders'[j] = IF j = i THEN p ELSE pbOrders[j]
    BY <1>1, ExceptSeq DEF PbAll, PbTyped
  <1>3. DOMAIN pbOrders' = 1..n
    BY <1>2, LenProperties
  <1>4. pbClosed \in Seq(PbGraveType) /\ Len(pbClosed) = n /\ i \in 1..Len(pbClosed)
    BY <1>1 DEF PbAll, PbTyped
  <1>5. pbClosed[i].status = "none" /\ pbClosed[i] \in PbGraveType
    <2>1. pbClosed[i] \in PbGraveType /\ PbBuried(o, pbClosed[i])
      BY <1>1, <1>4, ElementOfSeq DEF PbAll
    <2> QED BY <2>1 DEF PbBuried, PbGraveType
  <1>6. /\ pbClosed' \in Seq(PbGraveType) /\ Len(pbClosed') = n
        /\ \A j \in 1..n : j # i => pbClosed'[j] = pbClosed[j]
        /\ pbClosed'[i].status # "none" => pbClosed'[i] = [status |-> p.status, filled |-> p.revealed]
    <2>1. CASE p.status \in PbDead
      <3>1. PICK c : c = [status |-> p.status, filled |-> p.revealed]
        OBVIOUS
      <3>2. c \in PbGraveType
        BY <2>1, <3>1 DEF PbGraveType, PbOrderType
      <3>3. pbClosed' = [pbClosed EXCEPT ![i] = c]
        BY <1>1, <1>2, <1>5, <2>1, <3>1 DEF PbBury
      <3> QED BY <1>4, <3>1, <3>2, <3>3, ExceptSeq
    <2>2. CASE p.status \notin PbDead
      <3>1. pbClosed' = pbClosed
        BY <1>1, <1>2, <1>5, <2>2 DEF PbBury
      <3> QED BY <1>4, <1>5, <3>1
    <2> QED BY <2>1, <2>2
  <1>7. PbTyped'
    BY <1>2, <1>6 DEF PbAll, PbTyped
  <1>8. \A j \in 1..n : PbShare(pbOrders[j]) \in Int /\ PbCost(pbOrders[j]) \in Int
    BY <1>1, PbShareIs
  <1>9. PbShare(p) \in Int /\ PbCost(p) \in Int
    BY PbShareIs
  <1>10. IsFiniteSet(1..n)
    <2>1. 1 \in Int /\ n \in Int
      BY <1>1
    <2> HIDE DEF n
    <2> QED BY <2>1, FS_Interval
  <1>11. PbSums'
    <2> DEFINE f == [j \in DOMAIN pbOrders |-> PbShare(pbOrders[j])]
               h == [j \in DOMAIN pbOrders' |-> PbShare(pbOrders'[j])]
               fc == [j \in DOMAIN pbOrders |-> PbCost(pbOrders[j])]
               hc == [j \in DOMAIN pbOrders' |-> PbCost(pbOrders'[j])]
    <2>1. /\ \A j \in 1..n : f[j] \in Int /\ h[j] \in Int
          /\ \A j \in (1..n) \ {i} : h[j] = f[j]
          /\ f[i] = PbShare(o) /\ h[i] = PbShare(p)
      BY <1>1, <1>2, <1>3, <1>8, <1>9
    <2>2. /\ \A j \in 1..n : fc[j] \in Int /\ hc[j] \in Int
          /\ \A j \in (1..n) \ {i} : hc[j] = fc[j]
          /\ fc[i] = PbCost(o) /\ hc[i] = PbCost(p)
      BY <1>1, <1>2, <1>3, <1>8, <1>9
    <2> HIDE DEF f, h, fc, hc, n
    <2>a. SumInts(f, 1..n) /\ SumInts(h, 1..n) /\ SumLike(h, f, (1..n) \ {i})
      BY <2>1 DEF SumInts, SumLike
    <2>b. SumInts(fc, 1..n) /\ SumInts(hc, 1..n) /\ SumLike(hc, fc, (1..n) \ {i})
      BY <2>2 DEF SumInts, SumLike
    <2>3. SumFunctionOnSet(h, 1..n) = SumFunctionOnSet(f, 1..n) + (PbShare(p) - PbShare(o)) /\ SumFunctionOnSet(f, 1..n) \in Int
      <3>1. SumFunctionOnSet(h, 1..n) = SumFunctionOnSet(f, 1..n) + (h[i] - f[i])
        BY <1>1, <1>10, <2>a, SumChanges
      <3> QED BY <1>10, <2>1, <2>a, <3>1, SumTakes
    <2>4. SumFunctionOnSet(hc, 1..n) = SumFunctionOnSet(fc, 1..n) + (PbCost(p) - PbCost(o)) /\ SumFunctionOnSet(fc, 1..n) \in Int
      <3>1. SumFunctionOnSet(hc, 1..n) = SumFunctionOnSet(fc, 1..n) + (hc[i] - fc[i])
        BY <1>1, <1>10, <2>b, SumChanges
      <3> QED BY <1>10, <2>2, <2>b, <3>1, SumTakes
    <2>5. pbHeld = pbMoved + SumFunctionOnSet(f, 1..n) /\ pbHeld \in Nat /\ pbMoved \in Int /\ pbCash \in Int
      BY DEF PbAll, PbTyped, PbSums, f, n
    <2>6. pbHeld' = pbMoved' + SumFunctionOnSet(h, 1..n)
      <3>1. PbShare(p) \in Int /\ PbShare(o) \in Int
        BY <1>1, <1>8, <1>9
      <3>2. PICK s \in Int, t \in Int : s = SumFunctionOnSet(f, 1..n) /\ t = SumFunctionOnSet(h, 1..n) /\ t = s + (PbShare(p) - PbShare(o))
        BY <2>3, <3>1
      <3>3. pbHeld = pbMoved + s
        BY <2>5, <3>2
      <3>4. pbHeld' = pbMoved' + t
        <4>1. PICK a \in Int, b \in Int : a = PbShare(p) /\ b = PbShare(o)
          BY <3>1
        <4>2. (pbHeld' - pbMoved') - (pbHeld - pbMoved) = a - b /\ t = s + (a - b)
          BY <3>2, <4>1
        <4>3. pbHeld \in Int /\ pbHeld' \in Int /\ pbMoved \in Int /\ pbMoved' \in Int /\ a - b \in Int
          BY <2>5, <4>1
        <4>4. PICK x \in Int, y \in Int, m \in Int, k \in Int : x = pbHeld /\ y = pbHeld' /\ m = pbMoved /\ k = pbMoved'
          BY <4>3
        <4>5. x = m + s /\ (y - k) - (x - m) = a - b /\ t = s + (a - b)
          BY <3>3, <4>2, <4>4
        <4>6. y = k + t
          BY ONLY <4>5
        <4> QED BY <4>4, <4>6
      <3> QED BY <3>2, <3>4
    <2>7. ASSUME \A j \in DOMAIN pbOrders' : ~pbOrders'[j].mixed PROVE pbCash' = -SumFunctionOnSet(hc, 1..n)
      <3>1. ~p.mixed /\ \A j \in (1..n) \ {i} : ~pbOrders[j].mixed
        BY <1>1, <1>2, <1>3, <2>7
      <3>2. \A j \in DOMAIN pbOrders : ~pbOrders[j].mixed
        BY <1>1, <3>1
      <3>3. pbCash = -SumFunctionOnSet(fc, 1..n)
        BY <3>2 DEF PbAll, PbSums, fc, n
      <3>4. PbCost(p) \in Int /\ PbCost(o) \in Int /\ pbCash' - pbCash = PbCost(o) - PbCost(p)
        BY <1>1, <1>8, <1>9, <3>1
      <3>5. PICK s \in Int, t \in Int : s = SumFunctionOnSet(fc, 1..n) /\ t = SumFunctionOnSet(hc, 1..n) /\ t = s + (PbCost(p) - PbCost(o))
        BY <2>4, <3>4
      <3>6. pbCash = -s
        BY <3>3, <3>5
      <3>7. pbCash' = -t
        <4>1. PICK a \in Int, b \in Int : a = PbCost(p) /\ b = PbCost(o)
          BY <3>4
        <4>2. pbCash' - pbCash = b - a /\ t = s + (a - b)
          BY <3>4, <3>5, <4>1
        <4>3. PICK x \in Int, y \in Int : x = pbCash /\ y = pbCash'
          BY <2>5
        <4>4. x = -s /\ y - x = b - a /\ t = s + (a - b)
          BY <3>6, <4>2, <4>3
        <4>5. y = -t
          BY ONLY <4>4
        <4> QED BY <4>3, <4>5
      <3> QED BY <3>5, <3>7
    <2>8. Len(pbOrders') = n
      BY <1>2 DEF n
    <2> QED BY <2>6, <2>7, <2>8 DEF PbSums, h, hc
  <1>12. \A j \in 1..n : PbSane(pbOrders'[j]) /\ PbBuried(pbOrders'[j], pbClosed'[j])
    BY <1>1, <1>2, <1>6 DEF PbAll, PbBuried
  <1> QED BY <1>2, <1>7, <1>11, <1>12 DEF PbAll

\* A lookup, a cancel.
LEMMA PbLookStep ==
    ASSUME PbAssumption, PbAll, NEW i \in DOMAIN pbOrders, PbStatus(i) \/ PbCancel(i) PROVE PbAll'
  <1>1. PICK o \in PbOrderType : o = pbOrders[i]
    <2>1. i \in 1..Len(pbOrders) /\ pbOrders \in Seq(PbOrderType)
      BY LenProperties DEF PbAll, PbTyped
    <2> QED BY <2>1, ElementOfSeq
  <1>2. PbSane(o) /\ Len(o.plan) \in {1, 2} /\ o.plan \in Seq(PbStepType)
    <2>1. i \in 1..Len(pbOrders)
      BY LenProperties DEF PbAll, PbTyped
    <2>2. o.plan \in PbAnyPlan
      BY DEF PbOrderType
    <2> QED BY <1>1, <2>1, <2>2, PbPlanIs DEF PbAll
  <1>3. pbHeld \in Nat /\ pbMoved \in Int /\ pbCash \in Int
    BY DEF PbAll, PbTyped
  <1>4. CASE PbCancel(i)
    <2>1. PICK p : p = [o EXCEPT !.status = "CANCELED"]
      OBVIOUS
    <2>2. p \in PbOrderType /\ p.side = o.side /\ PbShare(p) = PbShare(o) /\ PbCost(p) = PbCost(o) /\ p.mixed = o.mixed
      BY <2>1 DEF PbOrderType, PbStatuses, PbTerminal, PbDead, PbShare, PbCost
    <2>3. PbSane(p)
      BY <1>2, <2>1 DEF PbSane, PbOrderType
    <2>4. pbOrders' = [pbOrders EXCEPT ![i] = p] /\ o.status \notin PbDead /\ PbBury(i) /\ UNCHANGED <<pbHeld, pbMoved, pbCash, pbQueue, pbFail>>
      BY <1>1, <1>4, <2>1 DEF PbCancel, PbTerminal
    <2>5. PbShare(o) \in Int /\ PbCost(o) \in Int
      BY PbShareIs
    <2>6. /\ (pbHeld' - pbMoved') - (pbHeld - pbMoved) = PbShare(p) - PbShare(o)
          /\ pbCash' - pbCash = PbCost(o) - PbCost(p)
      BY <1>3, <2>2, <2>4, <2>5
    <2> QED BY <1>1, <1>3, <2>2, <2>3, <2>4, <2>6, PbOneStep
  <1>5. CASE PbStatus(i)
    <2>1. o.cursor \in 1..3 /\ o.revealed \in 0..PbQty /\ o.filled \in 0..PbQty /\ PbQty \in Nat /\ o.price \in {1, 2} /\ o.mixed \in BOOLEAN
      BY DEF PbOrderType, PbAssumption
    <2>2. PICK c \in 1..Len(o.plan) : c = IF o.cursor > Len(o.plan) THEN Len(o.plan) ELSE o.cursor
      <3>1. (IF o.cursor > Len(o.plan) THEN Len(o.plan) ELSE o.cursor) \in 1..Len(o.plan)
        <4>1. PICK l \in {1, 2}, k \in 1..3 : l = Len(o.plan) /\ k = o.cursor
          BY <1>2, <2>1
        <4>2. (IF k > l THEN l ELSE k) \in 1..l
          BY ONLY TRUE
        <4> QED BY <4>1, <4>2
      <3> QED BY <3>1
    <2>3. PICK step \in PbStepType : step = o.plan[c]
      BY <1>2, <2>2, ElementOfSeq
    <2>4. step.filled \in 0..PbQty /\ step.status \in PbStatuses /\ step.price \in {1, 2}
      BY DEF PbStepType
    <2>5. PICK inc \in Nat : inc = IF PbNew(o, step) > 0 THEN PbNew(o, step) ELSE 0
      <3>1. PbNew(o, step) \in Int
        BY <2>1, <2>4 DEF PbNew
      <3> QED BY <3>1
    <2>6. inc = (IF step.filled > o.revealed THEN step.filled - o.revealed ELSE 0)
      BY <2>1, <2>4, <2>5 DEF PbNew
    <2>7. PICK cursor \in 1..3, price \in {1, 2}, mixed \in BOOLEAN, revealed \in 0..PbQty :
              /\ cursor = IF o.cursor > Len(o.plan) THEN o.cursor ELSE o.cursor + 1
              /\ price = IF step.filled > 0 THEN step.price ELSE o.price
              /\ mixed = (o.mixed \/ (o.revealed > 0 /\ step.filled > 0 /\ step.price # o.price))
              /\ revealed = IF inc > 0 THEN step.filled ELSE o.revealed
      <3>1. (IF o.cursor > Len(o.plan) THEN o.cursor ELSE o.cursor + 1) \in 1..3
        <4>1. PICK l \in {1, 2}, k \in 1..3 : l = Len(o.plan) /\ k = o.cursor
          BY <1>2, <2>1
        <4>2. (IF k > l THEN k ELSE k + 1) \in 1..3
          BY ONLY TRUE
        <4> QED BY <4>1, <4>2
      <3>2. (IF step.filled > 0 THEN step.price ELSE o.price) \in {1, 2} /\ (IF inc > 0 THEN step.filled ELSE o.revealed) \in 0..PbQty
        BY <2>1, <2>4
      <3>3. (o.mixed \/ (o.revealed > 0 /\ step.filled > 0 /\ step.price # o.price)) \in BOOLEAN
        OBVIOUS
      <3> QED BY <3>1, <3>2, <3>3
    <2>8. PICK p : p = [o EXCEPT !.cursor = cursor, !.filled = step.filled, !.status = step.status, !.price = price,
                                 !.mixed = mixed, !.revealed = revealed]
      OBVIOUS
    <2>9. /\ p \in PbOrderType /\ p.side = o.side /\ p.plan = o.plan /\ p.cursor = cursor /\ p.filled = step.filled
          /\ p.status = step.status /\ p.price = price /\ p.mixed = mixed /\ p.revealed = revealed
      BY <2>4, <2>8 DEF PbOrderType
    <2>10. pbOrders' = [pbOrders EXCEPT ![i] = p]
      BY <1>1, <1>5, <2>2, <2>3, <2>5, <2>7, <2>8 DEF PbStatus
    <2>11. /\ o.status \notin PbDead /\ PbBury(i) /\ UNCHANGED <<pbQueue, pbFail>>
           /\ pbHeld' = PbBookHeld(o.side, inc, pbHeld)
           /\ pbMoved' = pbMoved + (pbHeld' - pbHeld) - PbSign(o.side) * inc
           /\ pbCash' = pbCash - PbSign(o.side) * inc * step.price
      BY <1>1, <1>5, <2>2, <2>3, <2>5 DEF PbStatus, PbStops
    <2>12. PbSane(p)
      BY <1>2, <2>1, <2>4, <2>6, <2>7, <2>9 DEF PbSane
    <2>13. PICK sg \in {1, -1} : sg = PbSign(o.side)
      BY PbShareIs
    <2>14. PICK more \in Int : more = sg * inc
      OBVIOUS
    <2>15. more = (IF sg = 1 THEN inc ELSE -inc)
      BY <2>14
    <2>16. revealed = o.revealed + inc
      BY <2>1, <2>4, <2>6, <2>7
    <2>17. PbShare(p) = PbShare(o) + more
      <3>1. PbShare(p) = sg * revealed /\ PbShare(o) = sg * o.revealed
        BY <2>9, <2>13 DEF PbShare
      <3>2. o.revealed \in Nat
        BY <2>1
      <3>3. CASE sg = 1
        BY <2>15, <2>16, <3>1, <3>2, <3>3
      <3>4. CASE sg = -1
        BY <2>15, <2>16, <3>1, <3>2, <3>4
      <3> QED BY <3>3, <3>4
    <2>18. pbHeld' \in Nat
      <3>1. pbHeld' \in {pbHeld + inc, pbHeld - inc, 0} /\ (pbHeld' = pbHeld - inc => pbHeld + inc = pbHeld' \/ pbHeld > inc \/ pbHeld' = 0)
        BY <2>11 DEF PbBookHeld
      <3> QED BY <1>3, <3>1
    <2>19. pbMoved' = pbMoved + (pbHeld' - pbHeld) - more
      BY <2>11, <2>13, <2>14
    <2>20. pbCash' = pbCash - more * step.price
      BY <2>11, <2>13, <2>14
    <2>21. PICK paid \in Int : paid = more * step.price /\ paid = (IF step.price = 1 THEN more ELSE more + more)
      <3>1. CASE step.price = 1
        BY <3>1
      <3>2. CASE step.price = 2
        BY <3>2
      <3> QED BY <2>4, <3>1, <3>2
    <2>22. pbMoved' \in Int /\ pbCash' \in Int
      BY <1>3, <2>18, <2>19, <2>20, <2>21
    <2>23. PICK a \in Int, b \in Int, ca \in Int, cb \in Int : a = PbShare(p) /\ b = PbShare(o) /\ ca = PbCost(p) /\ cb = PbCost(o)
      BY <2>9, PbShareIs
    <2>24. (pbHeld' - pbMoved') - (pbHeld - pbMoved) = a - b
      <3>1. PICK x \in Int, y \in Int, m \in Int, k \in Int : x = pbHeld /\ y = pbHeld' /\ m = pbMoved /\ k = pbMoved'
        BY <1>3, <2>18, <2>22
      <3>2. k = m + (y - x) - more /\ a = b + more
        BY <2>17, <2>19, <2>23, <3>1
      <3>3. (y - k) - (x - m) = a - b
        BY ONLY <3>2
      <3> QED BY <3>1, <3>3
    <2>25. ASSUME ~p.mixed PROVE ~o.mixed /\ pbCash' - pbCash = cb - ca
      <3>1. ~o.mixed /\ (o.revealed > 0 /\ step.filled > 0 => step.price = o.price)
        BY <2>7, <2>9, <2>25
      <3>2. ca = (IF price = 1 THEN a ELSE a + a) /\ cb = (IF o.price = 1 THEN b ELSE b + b) /\ a = b + more
        BY <2>9, <2>17, <2>23, PbShareIs
      <3>3. b = (IF sg = 1 THEN o.revealed ELSE -o.revealed)
        <4>1. b = sg * o.revealed /\ o.revealed \in Nat
          BY <2>1, <2>13, <2>23 DEF PbShare
        <4> QED BY <4>1
      <3>4. pbCash' - pbCash = -paid
        BY <1>3, <2>20, <2>21
      <3>5. cb - ca = -paid
        <4>1. CASE inc = 0
          <5>1. more = 0 /\ paid = 0 /\ a = b
            <6>1. more = 0
              <7>1. more + inc = 0 \/ more = inc
                <8>1. \A k, m \in Int : m = -k => m + k = 0
                  BY ONLY TRUE
                <8> QED BY <2>15, <8>1
              <7>2. \A m \in Int : m + 0 = 0 => m = 0
                BY ONLY TRUE
              <7> QED BY <4>1, <7>1, <7>2
            <6>2. paid = 0
              BY <2>21, <6>1
            <6> QED BY <3>2, <6>1, <6>2
          <5>2. CASE o.revealed = 0
            BY <3>2, <3>3, <5>1, <5>2
          <5>3. CASE o.revealed > 0
            BY <2>4, <2>7, <3>1, <3>2, <5>1, <5>3
          <5> QED BY <2>1, <5>2, <5>3
        <4>2. CASE inc # 0
          <5>1. step.filled > 0 /\ price = step.price
            BY <2>1, <2>4, <2>6, <2>7, <4>2
          <5>2. CASE o.revealed = 0
            BY <2>21, <3>2, <3>3, <5>1, <5>2
          <5>3. CASE o.revealed > 0
            BY <2>21, <3>1, <3>2, <5>1, <5>3
          <5> QED BY <2>1, <5>2, <5>3
        <4> QED BY <4>1, <4>2
      <3> QED BY <3>1, <3>4, <3>5
    <2> QED BY <1>1, <2>9, <2>10, <2>11, <2>12, <2>18, <2>22, <2>23, <2>24, <2>25, PbOneStep
  <1> QED BY <1>4, <1>5

\* An order is placed: nothing is booked of it yet.
LEMMA PbPlaceStep == ASSUME PbAssumption, PbAll, NEW side \in PbSides, PbPlace(side) PROVE PbAll'
  <1> DEFINE n == Len(pbOrders)
             P == PbPlans \union {PbReject}
  <1>1. n \in Nat /\ DOMAIN pbOrders = 1..n /\ \A j \in 1..n : pbOrders[j] \in PbOrderType
    BY LenProperties, ElementOfSeq DEF PbAll, PbTyped
  <1>2. PICK plan \in PbAnyPlan : plan = IF pbQueue[side] = <<>> THEN PbDefault ELSE Head(pbQueue[side])
    <2>1. pbQueue[side] \in Seq(P)
      BY DEF PbAll, PbTyped
    <2>2. pbQueue[side] # <<>> => Head(pbQueue[side]) \in P
      BY <2>1, HeadTailProperties
    <2> QED BY <2>2 DEF PbAnyPlan
  <1>3. PICK status \in {"REJECTED", "SUBMITTED"} : status = IF plan = PbReject THEN "REJECTED" ELSE "SUBMITTED"
    OBVIOUS
  <1>4. PICK p : p = [side |-> side, status |-> status, plan |-> plan, cursor |-> 1, filled |-> 0, revealed |-> 0,
                      price |-> 1, mixed |-> FALSE]
    OBVIOUS
  <1>5. PICK c : c = IF plan = PbReject THEN [status |-> status, filled |-> 0] ELSE [status |-> "none", filled |-> 0]
    OBVIOUS
  <1>6. p \in PbOrderType /\ PbSane(p) /\ p.revealed = 0 /\ p.status = status /\ ~p.mixed
    <2>1. 0 \in 0..PbQty /\ 1 \in 1..3 /\ status \in PbStatuses
      BY DEF PbAssumption, PbStatuses, PbTerminal, PbDead
    <2>2. p \in PbOrderType
      BY <1>4, <2>1 DEF PbOrderType
    <2>3. Len(plan) \in {1, 2}
      BY PbPlanIs
    <2>4. PbSane(p)
      BY <1>4, <2>3 DEF PbSane
    <2> QED BY <1>4, <2>2, <2>4
  <1>7. c \in PbGraveType /\ PbBuried(p, c)
    <2>1. 0 \in 0..PbQty
      BY DEF PbAssumption
    <2>2. CASE plan = PbReject
      BY <1>3, <1>4, <1>5, <2>1, <2>2 DEF PbGraveType, PbDead, PbBuried
    <2>3. CASE plan # PbReject
      BY <1>5, <2>1, <2>3 DEF PbGraveType, PbBuried
    <2> QED BY <2>2, <2>3
  <1>8. /\ pbOrders' = Append(pbOrders, p) /\ UNCHANGED <<pbHeld, pbMoved, pbCash, pbFail>>
        /\ pbClosed' = Append(pbClosed, c)
        /\ pbQueue' = [pbQueue EXCEPT ![side] = IF @ = <<>> THEN @ ELSE Tail(@)]
    BY <1>2, <1>3, <1>4, <1>5 DEF PbPlace
  <1>9. /\ pbOrders' \in Seq(PbOrderType) /\ Len(pbOrders') = n + 1 /\ pbOrders'[n + 1] = p
        /\ \A j \in 1..n : pbOrders'[j] = pbOrders[j]
    BY <1>6, <1>8, AppendProperties DEF PbAll, PbTyped
  <1>10. /\ pbClosed' \in Seq(PbGraveType) /\ Len(pbClosed') = n + 1 /\ pbClosed'[n + 1] = c
         /\ \A j \in 1..n : pbClosed'[j] = pbClosed[j]
    BY <1>7, <1>8, AppendProperties DEF PbAll, PbTyped
  <1>11. pbQueue' \in [PbSides -> Seq(P)]
    <2>1. pbQueue \in [PbSides -> Seq(P)]
      BY DEF PbAll, PbTyped
    <2>2. PICK q \in Seq(P) : q = IF pbQueue[side] = <<>> THEN pbQueue[side] ELSE Tail(pbQueue[side])
      <3>1. pbQueue[side] \in Seq(P)
        BY <2>1
      <3>2. pbQueue[side] # <<>> => Tail(pbQueue[side]) \in Seq(P)
        BY <3>1, HeadTailProperties
      <3> QED BY <3>1, <3>2
    <2>3. pbQueue' = [pbQueue EXCEPT ![side] = q]
      BY <1>8, <2>2
    <2> QED BY <2>1, <2>3
  <1>12. PbTyped'
    BY <1>8, <1>9, <1>10, <1>11 DEF PbAll, PbTyped
  <1>13. DOMAIN pbOrders' = 1..(n + 1)
    BY <1>9, LenProperties
  <1>14. \A j \in 1..(n + 1) : PbSane(pbOrders'[j]) /\ PbBuried(pbOrders'[j], pbClosed'[j])
    BY <1>1, <1>6, <1>7, <1>9, <1>10 DEF PbAll
  <1>15. PbSums'
    <2> DEFINE f == [j \in DOMAIN pbOrders |-> PbShare(pbOrders[j])]
               h == [j \in DOMAIN pbOrders' |-> PbShare(pbOrders'[j])]
               fc == [j \in DOMAIN pbOrders |-> PbCost(pbOrders[j])]
               hc == [j \in DOMAIN pbOrders' |-> PbCost(pbOrders'[j])]
    <2>1. /\ \A j \in 1..n : PbShare(pbOrders[j]) \in Int /\ PbCost(pbOrders[j]) \in Int
          /\ PbShare(p) = 0 /\ PbCost(p) = 0
      <3>1. \A j \in 1..n : PbShare(pbOrders[j]) \in Int /\ PbCost(pbOrders[j]) \in Int
        BY <1>1, PbShareIs
      <3>2. PbShare(p) = 0
        BY <1>6, PbShareIs
      <3>3. PbCost(p) = 0
        BY <1>6, <3>2, PbShareIs
      <3> QED BY <3>1, <3>2, <3>3
    <2>2. \A j \in 1..n : j \in 1..(n + 1)
      BY <1>1
    <2>3. n + 1 \in 1..(n + 1) /\ n + 1 \notin 1..n /\ 1..(n + 1) = (1..n) \union {n + 1}
      BY <1>1
    <2>4. SumLike(h, f, 1..n) /\ SumInts(f, 1..n) /\ SumInts(h, 1..(n + 1)) /\ h[n + 1] = 0
      BY <1>1, <1>9, <1>13, <2>1, <2>2, <2>3 DEF SumLike, SumInts
    <2>5. SumLike(hc, fc, 1..n) /\ SumInts(fc, 1..n) /\ SumInts(hc, 1..(n + 1)) /\ hc[n + 1] = 0
      BY <1>1, <1>9, <1>13, <2>1, <2>2, <2>3 DEF SumLike, SumInts
    <2>6. IsFiniteSet(1..n)
      <3>1. 1 \in Int /\ n \in Int
        BY <1>1
      <3> HIDE DEF n
      <3> QED BY <3>1, FS_Interval
    <2>7. SumFunctionOnSet(h, 1..(n + 1)) = SumFunctionOnSet(f, 1..n)
      <3> HIDE DEF f, h, n
      <3>1. SumFunctionOnSet(h, (1..n) \union {n + 1}) = h[n + 1] + SumFunctionOnSet(h, 1..n)
        BY <2>3, <2>4, <2>6, SumAdds
      <3>2. SumFunctionOnSet(h, 1..n) = SumFunctionOnSet(f, 1..n) /\ SumFunctionOnSet(f, 1..n) \in Int
        BY <2>4, <2>6, SumSame, SumTakes
      <3>3. PICK s \in Int : s = SumFunctionOnSet(f, 1..n)
        BY <3>2
      <3>4. SumFunctionOnSet(h, 1..(n + 1)) = 0 + s
        BY <2>3, <2>4, <3>1, <3>2, <3>3
      <3>5. 0 + s = s
        BY ONLY TRUE
      <3> QED BY <3>3, <3>4, <3>5
    <2>8. SumFunctionOnSet(hc, 1..(n + 1)) = SumFunctionOnSet(fc, 1..n)
      <3> HIDE DEF fc, hc, n
      <3>1. SumFunctionOnSet(hc, (1..n) \union {n + 1}) = hc[n + 1] + SumFunctionOnSet(hc, 1..n)
        BY <2>3, <2>5, <2>6, SumAdds
      <3>2. SumFunctionOnSet(hc, 1..n) = SumFunctionOnSet(fc, 1..n) /\ SumFunctionOnSet(fc, 1..n) \in Int
        BY <2>5, <2>6, SumSame, SumTakes
      <3>3. PICK s \in Int : s = SumFunctionOnSet(fc, 1..n)
        BY <3>2
      <3>4. SumFunctionOnSet(hc, 1..(n + 1)) = 0 + s
        BY <2>3, <2>5, <3>1, <3>2, <3>3
      <3>5. 0 + s = s
        BY ONLY TRUE
      <3> QED BY <3>3, <3>4, <3>5
    <2>9. (\A j \in DOMAIN pbOrders' : ~pbOrders'[j].mixed) => \A j \in DOMAIN pbOrders : ~pbOrders[j].mixed
      BY <1>1, <1>9, <1>13, <2>2
    <2>10. /\ pbHeld = pbMoved + SumFunctionOnSet(f, 1..n)
           /\ (\A j \in DOMAIN pbOrders : ~pbOrders[j].mixed) => pbCash = -SumFunctionOnSet(fc, 1..n)
      BY DEF PbAll, PbSums
    <2> HIDE DEF f, h, fc, hc, n
    <2>11. Len(pbOrders') = n + 1
      BY <1>9
    <2>12. /\ pbHeld' = pbMoved' + SumFunctionOnSet(h, 1..(n + 1))
           /\ (\A j \in DOMAIN pbOrders' : ~pbOrders'[j].mixed) => pbCash' = -SumFunctionOnSet(hc, 1..(n + 1))
      BY <1>8, <2>7, <2>8, <2>9, <2>10
    <2> QED BY <2>11, <2>12 DEF PbSums, h, hc
  <1> QED BY <1>9, <1>12, <1>14, <1>15 DEF PbAll

\* What a book is left with is a number of shares.
LEMMA PbBookedIs ==
    ASSUME NEW side, NEW inc \in Nat, NEW held \in Nat PROVE PbBookHeld(side, inc, held) \in Nat
  <1>1. CASE held > inc
    <2>1. held + inc \in Nat /\ held - inc \in Nat /\ 0 \in Nat
      BY <1>1
    <2> QED BY <2>1 DEF PbBookHeld
  <1>2. CASE ~(held > inc)
    <2>1. held + inc \in Nat /\ 0 \in Nat
      OBVIOUS
    <2> QED BY <1>2, <2>1 DEF PbBookHeld
  <1> QED BY <1>1, <1>2

PbBookTo(n, g) ==
    /\ DOMAIN g = 0..n /\ g[0] = pbHeld
    /\ \A k \in 1..n : g[k] = PbBookHeld(pbOrders[k].side, PbLeft(k), g[k - 1])
PbBookUp(n, h) ==
    h = [k \in 0..n |-> IF k = 0 THEN pbHeld ELSE PbBookHeld(pbOrders[k].side, PbLeft(k), h[k - 1])]

\* The bookings of a settlement can be gone through.
LEMMA PbBookExists == ASSUME NEW m \in Nat PROVE \E h : PbBookUp(m, h)
  <1> DEFINE G == {n \in Nat : \E g : PbBookTo(n, g)}
  <1>1. 0 \in G
    <2> DEFINE g == [k \in 0..0 |-> pbHeld]
    <2>1. DOMAIN g = 0..0 /\ g[0] = pbHeld /\ 1..0 = {}
      OBVIOUS
    <2> HIDE DEF g
    <2>2. PbBookTo(0, g)
      BY <2>1 DEF PbBookTo
    <2> QED BY <2>2
  <1>2. ASSUME NEW n \in Nat, n \in G PROVE n + 1 \in G
    <2>1. PICK g : PbBookTo(n, g)
      BY <1>2
    <2> DEFINE v == PbBookHeld(pbOrders[n + 1].side, PbLeft(n + 1), g[n])
               h == [k \in 0..(n + 1) |-> IF k = n + 1 THEN v ELSE g[k]]
    <2>2. DOMAIN h = 0..(n + 1) /\ h[n + 1] = v /\ \A k \in 0..n : h[k] = g[k]
      <3> HIDE DEF v
      <3> QED OBVIOUS
    <2>3. h[0] = pbHeld
      <3> HIDE DEF h, v
      <3> QED BY <2>1, <2>2 DEF PbBookTo
    <2>4. ASSUME NEW k \in 1..(n + 1) PROVE h[k] = PbBookHeld(pbOrders[k].side, PbLeft(k), h[k - 1])
      <3> HIDE DEF h
      <3>1. CASE k = n + 1
        <4>1. k - 1 = n /\ n \in 0..n
          BY <3>1
        <4>2. h[k - 1] = g[n]
          BY <2>2, <4>1
        <4> QED BY <2>2, <3>1, <4>2
      <3>2. CASE k # n + 1
        <4> HIDE DEF v
        <4>1. k \in 1..n /\ k \in 0..n /\ k - 1 \in 0..n
          BY <3>2
        <4>2. h[k] = g[k] /\ h[k - 1] = g[k - 1]
          BY <2>2, <4>1
        <4>3. g[k] = PbBookHeld(pbOrders[k].side, PbLeft(k), g[k - 1])
          BY <2>1, <4>1 DEF PbBookTo
        <4> QED BY <4>2, <4>3
      <3> QED BY <3>1, <3>2
    <2> HIDE DEF h, v
    <2>5. PbBookTo(n + 1, h)
      BY <2>2, <2>3, <2>4 DEF PbBookTo
    <2> QED BY <1>2, <2>5
  <1>3. m \in G
    <2> HIDE DEF G
    <2>1. Nat \subseteq G
      BY <1>1, <1>2, NumbersAll
    <2> QED BY <2>1
  <1>4. PICK g : PbBookTo(m, g)
    BY <1>3
  <1> DEFINE h == [k \in 0..m |-> g[k]]
  <1>5. \A k \in 0..m : g[k] = IF k = 0 THEN pbHeld ELSE PbBookHeld(pbOrders[k].side, PbLeft(k), h[k - 1])
    <2>1. SUFFICES ASSUME NEW k \in 0..m, k # 0 PROVE g[k] = PbBookHeld(pbOrders[k].side, PbLeft(k), h[k - 1])
      BY <1>4 DEF PbBookTo
    <2>2. k \in 1..m /\ k - 1 \in 0..m
      BY <2>1
    <2>3. h[k - 1] = g[k - 1]
      BY <2>2
    <2> HIDE DEF h
    <2> QED BY <1>4, <2>2, <2>3 DEF PbBookTo
  <1>6. h = [k \in 0..m |-> IF k = 0 THEN pbHeld ELSE PbBookHeld(pbOrders[k].side, PbLeft(k), h[k - 1])]
    BY <1>5
  <1> HIDE DEF h
  <1>7. PbBookUp(m, h)
    BY <1>6 DEF PbBookUp
  <1> QED BY <1>7

\* After a settlement what is held is a number of shares.
LEMMA PbLeftBookedIs ==
    ASSUME pbHeld \in Nat, Len(pbOrders) \in Nat, \A k \in 1..Len(pbOrders) : PbLeft(k) \in Nat
    PROVE  PbLeftBooked \in Nat
  <1> DEFINE m == Len(pbOrders)
             h == CHOOSE g : PbBookUp(m, g)
  <1>1. PbBookUp(m, h)
    BY PbBookExists
  <1>2. PbLeftBooked = h[m]
    BY DEF PbLeftBooked, PbBookUp
  <1> HIDE DEF h, m
  <1>3. m \in Nat /\ \A k \in 1..m : PbLeft(k) \in Nat
    BY DEF m
  <1>4. \A k \in 0..m : h[k] = IF k = 0 THEN pbHeld ELSE PbBookHeld(pbOrders[k].side, PbLeft(k), h[k - 1])
    <2>1. h = [k \in 0..m |-> IF k = 0 THEN pbHeld ELSE PbBookHeld(pbOrders[k].side, PbLeft(k), h[k - 1])]
      BY <1>1 DEF PbBookUp
    <2>2. PICK e : e = [k \in 0..m |-> IF k = 0 THEN pbHeld ELSE PbBookHeld(pbOrders[k].side, PbLeft(k), h[k - 1])]
      OBVIOUS
    <2>3. \A k \in 0..m : e[k] = IF k = 0 THEN pbHeld ELSE PbBookHeld(pbOrders[k].side, PbLeft(k), h[k - 1])
      BY <2>2
    <2>4. h = e
      BY <2>1, <2>2
    <2> QED BY <2>3, <2>4
  <1> DEFINE G == {n \in Nat : n <= m => h[n] \in Nat}
  <1>5. 0 \in G
    BY <1>3, <1>4
  <1>6. ASSUME NEW n \in Nat, n \in G PROVE n + 1 \in G
    <2>1. SUFFICES ASSUME n + 1 <= m PROVE h[n + 1] \in Nat
      BY <1>6
    <2>2. n <= m /\ n + 1 \in 0..m /\ n + 1 # 0 /\ n + 1 \in 1..m /\ (n + 1) - 1 = n
      BY <1>3, <2>1
    <2>3. h[n] \in Nat /\ PbLeft(n + 1) \in Nat
      BY <1>3, <1>6, <2>2
    <2>4. h[n + 1] = PbBookHeld(pbOrders[n + 1].side, PbLeft(n + 1), h[n])
      BY <1>4, <2>2
    <2> QED BY <2>3, <2>4, PbBookedIs
  <1>7. m \in G
    <2> HIDE DEF G
    <2> QED BY <1>3, <1>5, <1>6, NumbersAll
  <1> QED BY <1>2, <1>3, <1>7

\* An open order filled to the end.
PbFillOf(o) == [o EXCEPT !.status = "FILLED", !.filled = PbQty, !.price = 1, !.revealed = PbQty,
                         !.mixed = o.mixed \/ (o.revealed > 0 /\ o.price # 1)]

\* It is an order, has brought what was left of it, and has cost that if its price stayed.
LEMMA PbFilledIs ==
    ASSUME PbAssumption, NEW o \in PbOrderType, PbSane(o), o.status \notin PbTerminal, NEW p, p = PbFillOf(o)
    PROVE  /\ p \in PbOrderType /\ PbSane(p)
           /\ PbQty - o.revealed \in Nat /\ PbSign(o.side) * (PbQty - o.revealed) \in Int
           /\ PbShare(p) = PbShare(o) + PbSign(o.side) * (PbQty - o.revealed)
           /\ ~p.mixed => ~o.mixed /\ PbCost(p) = PbCost(o) + PbSign(o.side) * (PbQty - o.revealed)
  <1>1. PICK mixed \in BOOLEAN : mixed = (o.mixed \/ (o.revealed > 0 /\ o.price # 1))
    OBVIOUS
  <1>2. p = [o EXCEPT !.status = "FILLED", !.filled = PbQty, !.price = 1, !.revealed = PbQty, !.mixed = mixed]
    BY <1>1 DEF PbFillOf
  <1>3. PbQty \in Nat /\ PbQty \in 0..PbQty /\ o.revealed \in 0..PbQty /\ o.price \in {1, 2} /\ o.mixed \in BOOLEAN
    BY DEF PbAssumption, PbOrderType
  <1>4. /\ p \in PbOrderType /\ p.side = o.side /\ p.plan = o.plan /\ p.cursor = o.cursor /\ p.filled = PbQty
        /\ p.price = 1 /\ p.mixed = mixed /\ p.revealed = PbQty
    BY <1>2, <1>3 DEF PbOrderType, PbStatuses, PbTerminal
  <1>5. PbSane(p)
    BY <1>3, <1>4 DEF PbSane
  <1>6. PICK sg \in {1, -1} : sg = PbSign(o.side)
    BY PbShareIs
  <1>7. PICK q \in Nat, r \in Nat : q = PbQty /\ r = o.revealed /\ r <= q
    BY <1>3
  <1>8. PbShare(p) = sg * q /\ PbShare(o) = sg * r
    BY <1>4, <1>6, <1>7 DEF PbShare
  <1>9. q - r \in Nat /\ sg * (q - r) \in Int /\ sg * q = sg * r + sg * (q - r) /\ (r = 0 => sg * r + sg * r = 0 /\ sg * r = 0) /\ sg * r \in Int
    <2>1. CASE sg = 1
      BY ONLY <1>7, <2>1
    <2>2. CASE sg = -1
      BY ONLY <1>7, <2>2
    <2> QED BY <2>1, <2>2
  <1>10. PbShare(p) = PbShare(o) + PbSign(o.side) * (PbQty - o.revealed)
    BY <1>6, <1>7, <1>8, <1>9
  <1>11. ASSUME ~p.mixed PROVE ~o.mixed /\ PbCost(p) = PbCost(o) + PbSign(o.side) * (PbQty - o.revealed)
    <2>1. ~o.mixed /\ (o.revealed > 0 => o.price = 1)
      BY <1>1, <1>4, <1>11
    <2>2. PbCost(p) = PbShare(p)
      BY <1>4, PbShareIs
    <2>3. PbCost(o) = PbShare(o)
      <3>1. CASE o.price = 1
        BY <3>1, PbShareIs
      <3>2. CASE o.price # 1
        <4>1. r = 0
          BY <1>7, <2>1, <3>2
        <4>2. PbCost(o) = PbShare(o) + PbShare(o)
          BY <3>2, PbShareIs
        <4> QED BY <1>8, <1>9, <4>1, <4>2
      <3> QED BY <3>1, <3>2
    <2> QED BY <1>10, <2>1, <2>2, <2>3
  <1> QED BY <1>4, <1>5, <1>6, <1>7, <1>9, <1>10, <1>11

\* Everything open is filled.
LEMMA PbSettleStep == ASSUME PbAssumption, PbAll, PbSettle PROVE PbAll'
  <1> DEFINE n == Len(pbOrders)
             d == [j \in DOMAIN pbOrders |-> PbSign(pbOrders[j].side) * PbLeft(j)]
  <1>1. /\ n \in Nat /\ DOMAIN pbOrders = 1..n
        /\ \A j \in 1..n : pbOrders[j] \in PbOrderType /\ PbSane(pbOrders[j]) /\ PbBuried(pbOrders[j], pbClosed[j])
    BY LenProperties, ElementOfSeq DEF PbAll, PbTyped
  <1>2. /\ pbHeld \in Nat /\ pbMoved \in Int /\ pbCash \in Int /\ pbHeld' = PbLeftBooked
        /\ UNCHANGED <<pbClosed, pbQueue, pbFail>> /\ DOMAIN pbOrders' = 1..n
    BY <1>1 DEF PbAll, PbTyped, PbSettle
  <1>3. ASSUME NEW j \in 1..n
        PROVE  /\ pbOrders'[j] \in PbOrderType /\ PbSane(pbOrders'[j]) /\ PbBuried(pbOrders'[j], pbClosed[j])
               /\ PbLeft(j) \in Nat /\ PbSign(pbOrders[j].side) * PbLeft(j) \in Int
               /\ PbShare(pbOrders'[j]) = PbShare(pbOrders[j]) + PbSign(pbOrders[j].side) * PbLeft(j)
               /\ ~pbOrders'[j].mixed => /\ ~pbOrders[j].mixed
                                         /\ PbCost(pbOrders'[j]) = PbCost(pbOrders[j]) + PbSign(pbOrders[j].side) * PbLeft(j)
    <2>1. PICK o \in PbOrderType : o = pbOrders[j] /\ PbSane(o) /\ PbBuried(o, pbClosed[j])
      BY <1>1
    <2>2. CASE j \in PbOpen
      <3>1. o.status \notin PbTerminal
        BY <2>1, <2>2 DEF PbOpen
      <3>2. PICK p : p = PbFillOf(o)
        OBVIOUS
      <3>3. pbOrders'[j] = p /\ PbLeft(j) = PbQty - o.revealed
        BY <1>1, <2>1, <2>2, <3>2 DEF PbSettle, PbLeft, PbFillOf
      <3>4. PbBuried(p, pbClosed[j])
        <4>1. pbClosed[j] \in PbGraveType
          <5>1. pbClosed \in Seq(PbGraveType) /\ Len(pbClosed) = n
            BY DEF PbAll, PbTyped
          <5> QED BY <1>1, <5>1, ElementOfSeq
        <4>2. CASE pbClosed[j].status # "none"
          <5>1. pbClosed[j].status \in PbDead
            BY <4>1, <4>2 DEF PbGraveType
          <5>2. pbClosed[j].status = o.status
            BY <2>1, <4>2 DEF PbBuried
          <5> QED BY <3>1, <5>1, <5>2 DEF PbTerminal
        <4> QED BY <4>2 DEF PbBuried
      <3>5. /\ p \in PbOrderType /\ PbSane(p)
            /\ PbQty - o.revealed \in Nat /\ PbSign(o.side) * (PbQty - o.revealed) \in Int
            /\ PbShare(p) = PbShare(o) + PbSign(o.side) * (PbQty - o.revealed)
            /\ ~p.mixed => ~o.mixed /\ PbCost(p) = PbCost(o) + PbSign(o.side) * (PbQty - o.revealed)
        BY <2>1, <3>1, <3>2, PbFilledIs
      <3> QED BY <2>1, <3>3, <3>4, <3>5
    <2>3. CASE j \notin PbOpen
      <3>1. pbOrders'[j] = o /\ PbLeft(j) = 0
        BY <1>1, <2>1, <2>3 DEF PbSettle, PbLeft
      <3>2. PbSign(o.side) * 0 = 0 /\ PbSign(o.side) \in {1, -1} /\ PbShare(o) \in Int /\ PbCost(o) \in Int
        <4>1. PbSign(o.side) \in {1, -1} /\ PbShare(o) \in Int /\ PbCost(o) \in Int
          BY PbShareIs
        <4> QED BY <4>1
      <3>3. PbShare(o) + 0 = PbShare(o) /\ PbCost(o) + 0 = PbCost(o)
        BY <3>2
      <3> QED BY <2>1, <3>1, <3>2, <3>3
    <2> QED BY <2>2, <2>3
  <1>4. pbHeld' \in Nat
    BY <1>1, <1>2, <1>3, PbLeftBookedIs
  <1>5. pbOrders' \in Seq(PbOrderType) /\ Len(pbOrders') = n
    <2>1. PICK q : q = pbOrders'
      OBVIOUS
    <2>2. q = [j \in 1..n |-> q[j]]
      BY <1>1, <2>1 DEF PbSettle
    <2>3. \A j \in 1..n : q[j] \in PbOrderType
      BY <1>3, <2>1
    <2>4. q \in Seq(PbOrderType) /\ Len(q) = n
      <3> HIDE DEF n
      <3> QED BY <1>1, <2>2, <2>3
    <2> QED BY <2>1, <2>4
  <1>6. IsFiniteSet(1..n)
    <2>1. 1 \in Int /\ n \in Int
      BY <1>1
    <2> HIDE DEF n
    <2> QED BY <2>1, FS_Interval
  <1>7. PbLeftBy = SumFunctionOnSet(d, 1..n)
    BY <1>1 DEF PbLeftBy, SumFunction
  <1>8. SumInts(d, 1..n) /\ SumFunctionOnSet(d, 1..n) \in Int
    <2>1. SumInts(d, 1..n)
      BY <1>1, <1>3 DEF SumInts
    <2> HIDE DEF d, n
    <2> QED BY <1>6, <2>1, SumTakes
  <1>9. PICK x \in Int : x = PbLeftBy
    BY <1>7, <1>8
  <1>10. pbMoved' = pbMoved + (pbHeld' - pbHeld) - x /\ pbCash' = pbCash - x /\ pbMoved' \in Int /\ pbCash' \in Int
    <2>1. pbMoved' = pbMoved + (pbHeld' - pbHeld) - x /\ pbCash' = pbCash - x
      BY <1>9 DEF PbSettle
    <2> QED BY <1>2, <1>4, <2>1
  <1>11. PbTyped'
    BY <1>2, <1>4, <1>5, <1>10 DEF PbAll, PbTyped
  <1>12. PbSums'
    <2> DEFINE f == [j \in DOMAIN pbOrders |-> PbShare(pbOrders[j])]
               h == [j \in DOMAIN pbOrders' |-> PbShare(pbOrders'[j])]
               fc == [j \in DOMAIN pbOrders |-> PbCost(pbOrders[j])]
               hc == [j \in DOMAIN pbOrders' |-> PbCost(pbOrders'[j])]
    <2>1. SumInts(f, 1..n) /\ SumInts(fc, 1..n)
      BY <1>1, PbShareIs DEF SumInts
    <2>2. SumAdded(h, f, d, 1..n)
      <3>1. \A j \in 1..n : h[j] = PbShare(pbOrders'[j]) /\ f[j] = PbShare(pbOrders[j]) /\ d[j] = PbSign(pbOrders[j].side) * PbLeft(j)
        BY <1>1, <1>2
      <3> HIDE DEF h, f, d
      <3> QED BY <1>3, <3>1 DEF SumAdded
    <2>3. (\A j \in DOMAIN pbOrders' : ~pbOrders'[j].mixed) =>
              SumAdded(hc, fc, d, 1..n) /\ \A j \in DOMAIN pbOrders : ~pbOrders[j].mixed
      <3>1. \A j \in 1..n : hc[j] = PbCost(pbOrders'[j]) /\ fc[j] = PbCost(pbOrders[j]) /\ d[j] = PbSign(pbOrders[j].side) * PbLeft(j)
        BY <1>1, <1>2
      <3> HIDE DEF hc, fc, d
      <3> QED BY <1>1, <1>2, <1>3, <3>1 DEF SumAdded
    <2>4. /\ pbHeld = pbMoved + SumFunctionOnSet(f, 1..n)
          /\ (\A j \in DOMAIN pbOrders : ~pbOrders[j].mixed) => pbCash = -SumFunctionOnSet(fc, 1..n)
      BY DEF PbAll, PbSums
    <2> HIDE DEF f, h, fc, hc, n, d
    <2>5. PICK s \in Int, sc \in Int : s = SumFunctionOnSet(f, 1..n) /\ sc = SumFunctionOnSet(fc, 1..n)
      BY <1>6, <2>1, SumTakes
    <2>6. SumFunctionOnSet(h, 1..n) = s + x
      <3>1. SumFunctionOnSet(h, 1..n) = SumFunctionOnSet(f, 1..n) + SumFunctionOnSet(d, 1..n)
        BY <1>6, <1>8, <2>1, <2>2, SumPlus
      <3> QED BY <1>7, <1>9, <2>5, <3>1
    <2>7. SumAdded(hc, fc, d, 1..n) => SumFunctionOnSet(hc, 1..n) = sc + x
      <3>1. ASSUME SumAdded(hc, fc, d, 1..n) PROVE SumFunctionOnSet(hc, 1..n) = SumFunctionOnSet(fc, 1..n) + SumFunctionOnSet(d, 1..n)
        BY <1>6, <1>8, <2>1, <3>1, SumPlus
      <3> QED BY <1>7, <1>9, <2>5, <3>1
    <2>8. pbHeld' = pbMoved' + SumFunctionOnSet(h, 1..n)
      <3>1. PICK a \in Int, b \in Int, m \in Int, k \in Int : a = pbHeld /\ b = pbHeld' /\ m = pbMoved /\ k = pbMoved'
        BY <1>2, <1>4, <1>10
      <3>2. a = m + s /\ k = m + (b - a) - x
        BY <1>10, <2>4, <2>5, <3>1
      <3>3. b = k + (s + x)
        BY ONLY <3>2
      <3> QED BY <2>6, <3>1, <3>3
    <2>9. ASSUME \A j \in DOMAIN pbOrders' : ~pbOrders'[j].mixed PROVE pbCash' = -SumFunctionOnSet(hc, 1..n)
      <3>1. pbCash = -sc /\ SumFunctionOnSet(hc, 1..n) = sc + x
        BY <2>3, <2>4, <2>5, <2>7, <2>9
      <3>2. PICK a \in Int, b \in Int : a = pbCash /\ b = pbCash'
        BY <1>2, <1>10
      <3>3. a = -sc /\ b = a - x
        BY <1>10, <3>1, <3>2
      <3>4. b = -(sc + x)
        BY ONLY <3>3
      <3> QED BY <3>1, <3>2, <3>4
    <2>10. Len(pbOrders') = n
      BY <1>5
    <2> QED BY <2>8, <2>9, <2>10 DEF PbSums, h, hc
  <1>13. \A j \in 1..n : PbSane(pbOrders'[j]) /\ PbBuried(pbOrders'[j], pbClosed'[j])
    BY <1>2, <1>3
  <1> QED BY <1>5, <1>11, <1>12, <1>13 DEF PbAll

\* The orders are left alone.
LEMMA PbAsideStep ==
    ASSUME PbAssumption, PbAll, UNCHANGED <<pbOrders, pbClosed, pbCash>>, pbQueue' \in [PbSides -> Seq(PbPlans \union {PbReject})],
           pbFail' \subseteq {"status", "order"}, pbHeld' \in Nat, pbMoved' \in Int,
           pbHeld' - pbMoved' = pbHeld - pbMoved
    PROVE  PbAll'
  <1>1. PbTyped'
    BY DEF PbAll, PbTyped
  <1>2. PbSums'
    <2> DEFINE f == [i \in DOMAIN pbOrders |-> PbShare(pbOrders[i])]
    <2>1. pbHeld = pbMoved + SumFunctionOnSet(f, 1..Len(pbOrders))
      BY DEF PbAll, PbSums
    <2>2. PICK a \in Int, b \in Int, m \in Int, k \in Int : a = pbHeld /\ b = pbHeld' /\ m = pbMoved /\ k = pbMoved'
      BY DEF PbAll, PbTyped
    <2>3. SumFunctionOnSet(f, 1..Len(pbOrders)) \in Int
      <3>1. Len(pbOrders) \in Nat /\ DOMAIN pbOrders = 1..Len(pbOrders) /\ \A j \in 1..Len(pbOrders) : pbOrders[j] \in PbOrderType
        BY LenProperties, ElementOfSeq DEF PbAll, PbTyped
      <3>2. IsFiniteSet(1..Len(pbOrders))
        <4>1. 1 \in Int /\ Len(pbOrders) \in Int
          BY <3>1
        <4> QED BY <4>1, FS_Interval
      <3>3. SumInts(f, 1..Len(pbOrders))
        BY <3>1, PbShareIs DEF SumInts
      <3> HIDE DEF f
      <3> QED BY <3>2, <3>3, SumTakes
    <2>4. PICK s \in Int : s = SumFunctionOnSet(f, 1..Len(pbOrders))
      BY <2>3
    <2>5. a = m + s /\ b - k = a - m
      BY <2>1, <2>2, <2>4
    <2>6. b = k + s
      BY ONLY <2>5
    <2>7. pbHeld' = pbMoved' + SumFunctionOnSet(f, 1..Len(pbOrders))
      BY <2>2, <2>4, <2>6
    <2> QED BY <2>7 DEF PbAll, PbSums
  <1> QED BY <1>1, <1>2 DEF PbAll

\* A script, a forced failure, a position set from outside.
LEMMA PbSmallStep ==
    ASSUME PbAssumption, PbAll, NEW side \in PbSides, NEW plan \in PbPlans \union {PbReject},
           NEW call \in {"status", "order"},
           PbScript(side, plan) \/ PbForce(call) \/ PbRaise(call) \/ PbJump
    PROVE  PbAll'
  <1> DEFINE P == PbPlans \union {PbReject}
  <1>1. pbQueue \in [PbSides -> Seq(P)] /\ pbHeld \in Nat /\ pbMoved \in Int /\ pbFail \subseteq {"status", "order"}
    BY DEF PbAll, PbTyped
  <1>2. CASE PbScript(side, plan)
    <2>1. PICK q \in Seq(P) : q = Append(pbQueue[side], plan)
      <3>1. pbQueue[side] \in Seq(P)
        BY <1>1
      <3> HIDE DEF P
      <3>2. plan \in P
        BY DEF P
      <3> QED BY <3>1, <3>2, AppendProperties
    <2>2. pbQueue' = [pbQueue EXCEPT ![side] = q] /\ UNCHANGED <<pbOrders, pbClosed, pbCash, pbFail, pbHeld, pbMoved>>
      BY <1>2, <2>1 DEF PbScript
    <2>3. pbQueue' \in [PbSides -> Seq(P)]
      BY <1>1, <2>2
    <2> QED BY <1>1, <2>2, <2>3, PbAsideStep
  <1>3. CASE PbForce(call) \/ PbRaise(call)
    <2>1. /\ UNCHANGED <<pbOrders, pbClosed, pbCash, pbQueue, pbHeld, pbMoved>>
          /\ pbFail' \subseteq {"status", "order"}
      BY <1>1, <1>3 DEF PbForce, PbRaise
    <2> QED BY <1>1, <2>1, PbAsideStep
  <1>4. CASE PbJump
    <2>1. UNCHANGED <<pbOrders, pbClosed, pbCash, pbQueue, pbFail>> /\ pbMoved' = pbMoved + (pbHeld' - pbHeld)
      BY <1>4 DEF PbJump
    <2>2. pbHeld' \in Nat
      <3>1. pbHeld' \in {0, PbQty, 2 * pbHeld} /\ PbQty \in Nat /\ 2 * pbHeld \in Nat
        BY <1>1, <1>4 DEF PbJump, PbAssumption
      <3> QED BY <3>1
    <2>3. pbMoved' \in Int /\ pbHeld' - pbMoved' = pbHeld - pbMoved
      <3>1. PICK a \in Int, b \in Int, m \in Int : a = pbHeld /\ b = pbHeld' /\ m = pbMoved
        BY <1>1, <2>2
      <3>2. m + (b - a) \in Int /\ b - (m + (b - a)) = a - m
        BY ONLY TRUE
      <3> QED BY <2>1, <3>1, <3>2
    <2> QED BY <1>1, <2>1, <2>2, <2>3, PbAsideStep
  <1> QED BY <1>2, <1>3, <1>4

\* The books balance from the start on.
LEMMA PbInitAll == ASSUME PbAssumption, PbInit PROVE PbAll
  <1>1. /\ pbOrders = <<>> /\ pbClosed = <<>> /\ pbHeld = 0 /\ pbCash = 0 /\ pbMoved = 0
        /\ pbFail = {} /\ pbQueue = [side \in PbSides |-> <<>>]
    BY DEF PbInit
  <1>2. Len(pbOrders) = 0 /\ 1..Len(pbOrders) = {} /\ pbOrders \in Seq(PbOrderType) /\ pbClosed \in Seq(PbGraveType)
    BY <1>1
  <1>3. PbTyped
    BY <1>1, <1>2 DEF PbTyped
  <1>4. \A f : SumFunctionOnSet(f, 1..Len(pbOrders)) = 0
    BY <1>2, SumEmpty
  <1>5. PbSums
    <2>1. \A k \in Int : 0 + 0 = 0 /\ (k + 0 = 0 => k = 0)
      OBVIOUS
    <2>2. 0 \in Int /\ \A k \in Int : -k \in Int /\ -k + k = 0
      OBVIOUS
    <2>3. \A z \in Int : z = 0 => -z = 0
      BY <2>1, <2>2
    <2>4. PICK z \in Int : z = 0
      BY <2>2
    <2>5. -z = 0
      BY <2>3, <2>4
    <2> HIDE DEF PbShare
    <2>6. pbHeld = pbMoved + SumFunctionOnSet([i \in DOMAIN pbOrders |-> PbShare(pbOrders[i])], 1..Len(pbOrders))
      BY <1>1, <1>4, <2>1
    <2>7. pbCash = -SumFunctionOnSet([i \in DOMAIN pbOrders |-> PbCost(pbOrders[i])], 1..Len(pbOrders))
      <3>1. SumFunctionOnSet([i \in DOMAIN pbOrders |-> PbCost(pbOrders[i])], 1..Len(pbOrders)) = z
        BY <1>4, <2>4
      <3> QED BY <1>1, <2>5, <3>1
    <2> QED BY <2>6, <2>7 DEF PbSums
  <1> QED BY <1>2, <1>3, <1>5 DEF PbAll

\* No step of the broker unbalances them.
LEMMA PbAllStep == ASSUME PbAssumption, PbAll, [PbNext]_pbVars PROVE PbAll'
  <1>1. CASE \E side \in PbSides : PbPlace(side)
    BY <1>1, PbPlaceStep
  <1>2. CASE \E side \in PbSides, plan \in PbPlans \union {PbReject} : PbScript(side, plan)
    BY <1>2, PbSmallStep
  <1>3. CASE \E i \in DOMAIN pbOrders : PbCancel(i) \/ PbStatus(i)
    BY <1>3, PbLookStep
  <1>4. CASE \E call \in {"status", "order"} : PbForce(call) \/ PbRaise(call)
    <2>1. "buy" \in PbSides /\ PbReject \in PbPlans \union {PbReject}
      BY DEF PbSides
    <2> QED BY <1>4, <2>1, PbSmallStep
  <1>5. CASE PbJump
    <2>1. "buy" \in PbSides /\ PbReject \in PbPlans \union {PbReject} /\ "status" \in {"status", "order"}
      BY DEF PbSides
    <2> QED BY <1>5, <2>1, PbSmallStep
  <1>6. CASE PbSettle
    BY <1>6, PbSettleStep
  <1>7. CASE UNCHANGED pbVars
    BY <1>7 DEF pbVars, PbAll, PbTyped, PbSums
  <1> QED BY <1>1, <1>2, <1>3, <1>4, <1>5, <1>6, <1>7 DEF PbNext

\* What is kept says what the run checks.
LEMMA PbMeans == ASSUME PbAssumption, PbAll PROVE PbInv
  <1> DEFINE n == Len(pbOrders)
  <1>1. /\ n \in Nat /\ DOMAIN pbOrders = 1..n
        /\ \A j \in 1..n : pbOrders[j] \in PbOrderType /\ PbSane(pbOrders[j]) /\ PbBuried(pbOrders[j], pbClosed[j])
    BY LenProperties, ElementOfSeq DEF PbAll, PbTyped
  <1>2. \A j \in 1..n : PbOver(j) = PbShare(pbOrders[j]) /\ PbOver(j) * pbOrders[j].price = PbCost(pbOrders[j])
    BY DEF PbOver, PbShare, PbCost
  <1>3. PbTypeOK
    BY DEF PbAll, PbTyped, PbTypeOK, PbOrderType, PbStatuses, PbAnyPlan
  <1>4. PbBookedOnce
    <2>1. pbHeld = pbMoved + SumFunctionOnSet([i \in DOMAIN pbOrders |-> PbShare(pbOrders[i])], DOMAIN pbOrders)
      BY <1>1 DEF PbAll, PbSums
    <2>2. [i \in DOMAIN pbOrders |-> PbShare(pbOrders[i])] = [i \in DOMAIN pbOrders |-> PbOver(i)]
      BY <1>1, <1>2
    <2>3. SumFunction([i \in DOMAIN pbOrders |-> PbOver(i)])
              = SumFunctionOnSet([i \in DOMAIN pbOrders |-> PbOver(i)], DOMAIN pbOrders)
      BY DEF SumFunction
    <2> QED BY <2>1, <2>2, <2>3 DEF PbBookedOnce
  <1>5. PbPaid
    <2>1. (\A i \in DOMAIN pbOrders : ~pbOrders[i].mixed) =>
              pbCash = -SumFunctionOnSet([i \in DOMAIN pbOrders |-> PbCost(pbOrders[i])], DOMAIN pbOrders)
      BY <1>1 DEF PbAll, PbSums
    <2>2. [i \in DOMAIN pbOrders |-> PbCost(pbOrders[i])] = [i \in DOMAIN pbOrders |-> PbOver(i) * pbOrders[i].price]
      BY <1>1, <1>2
    <2>3. SumFunction([i \in DOMAIN pbOrders |-> PbOver(i) * pbOrders[i].price])
              = SumFunctionOnSet([i \in DOMAIN pbOrders |-> PbOver(i) * pbOrders[i].price], DOMAIN pbOrders)
      BY DEF SumFunction
    <2> QED BY <2>1, <2>2, <2>3 DEF PbPaid
  <1>6. PbDeadStays
    BY <1>1 DEF PbDeadStays, PbBuried
  <1>7. PbWithin
    <2>1. \A j \in 1..n : pbOrders[j].revealed \in 0..PbQty
      BY <1>1 DEF PbOrderType
    <2> QED BY <1>1, <2>1 DEF PbWithin, PbSane, PbAssumption
  <1> QED BY <1>3, <1>4, <1>5, <1>6, <1>7 DEF PbInv

\* The paper broker's books always balance.
LEMMA PbInvariant == PbInit /\ [][PbNext]_pbVars => []PbInv
  <1>1. PbInit => PbAll
    BY PbAssumption, PbInitAll
  <1>2. PbAll /\ [PbNext]_pbVars => PbAll'
    BY PbAssumption, PbAllStep
  <1>3. PbAll => PbInv
    BY PbAssumption, PbMeans
  <1> QED BY <1>1, <1>2, <1>3, PTL

-----------------------------------------------------------------------------
(* Closing a position by hand.                                                *)

\* A request that has a row of its own; one whose order has not been sent yet.
QcHolds(m) == m.at \in {"gate", "send", "note"}
QcWaits(m) == m.at \in {"gate", "send"}

\* The rows of orders nobody is busy with that may or may not have arrived, and
\* those of all orders that may have arrived.
QcLoose == {k \in DOMAIN qcRows : qcRows[k].status = "reserved" /\ \A c \in QcClicks : QcHolds(qcClick[c]) => qcClick[c].id # k}
QcGone == {k \in DOMAIN qcRows : /\ qcRows[k].status \in {"reserved", "submitted"}
                                 /\ \A c \in QcClicks : QcWaits(qcClick[c]) => qcClick[c].id # k}
QcLooseSum == SumFunctionOnSet(QcQty, QcLoose)
QcGoneSum == SumFunctionOnSet(QcQty, QcGone)

QcStatuses == {"reserved", "submitted", "rejected", "failed", "blocked", "canceled"}
QcOuts == {"", "refused", "answered", "conflict", "blocked", "rejected", "unknown", "submitted"}
QcStages == {"idle", "look", "quote", "pending", "reserve", "gate", "send", "note", "done"}
QcIds == {<<>>} \union {<<n>> : n \in QcNames \union {QcNoName}} \union (Nat \X Nat \X Nat)
QcClickType == [at : QcStages, ask : Nat, name : QcNames \union {QcNoName}, seen : Int, qty : Nat,
                price : Nat, id : QcIds, quiet : BOOLEAN, known : BOOLEAN, out : QcOuts]
QcRowType == [qty : Nat, price : Nat, status : QcStatuses]

QcTyped ==
    /\ qcBroker \in [free : 0..QcHeld, shown : 0..QcHeld] /\ qcLost \in 0..QcLost
    /\ qcQuote \in Nat /\ qcBucket \in Nat
    /\ qcClick \in [QcClicks -> QcClickType]
    /\ IsFiniteSet(DOMAIN qcRows) /\ \A k \in DOMAIN qcRows : qcRows[k] \in QcRowType
\* A request's row is its own, and its order is sent but once.
QcOwn ==
    /\ \A c \in QcClicks : QcHolds(qcClick[c]) =>
          /\ qcClick[c].id \in DOMAIN qcRows /\ qcRows[qcClick[c].id].status = "reserved"
          /\ qcRows[qcClick[c].id].qty = qcClick[c].qty
          /\ \A d \in QcClicks \ {c} : QcHolds(qcClick[d]) => qcClick[d].id # qcClick[c].id
    /\ \A c \in QcClicks : QcWaits(qcClick[c]) => qcClick[c].id \notin DOMAIN qcSent
    /\ \A k \in DOMAIN qcSent : qcSent[k] = 1 /\ k \in DOMAIN qcRows
\* What the broker still shows, and what it has taken, is on rows.
QcCovered == qcBroker.shown - qcBroker.free <= QcLooseSum /\ QcHeld - qcBroker.free <= QcGoneSum
\* What a request knows as it goes along.
QcFine(m) ==
    /\ m.quiet /\ m.at \in {"quote", "pending"} => m.seen - qcBroker.free <= QcLooseSum
    /\ m.quiet /\ m.at = "reserve" /\ m.id \notin DOMAIN qcRows => m.qty <= qcBroker.free
    /\ m.quiet /\ QcWaits(m) => m.qty <= qcBroker.free
    /\ m.at \in {"quote", "pending", "reserve"} => m.ask \in {QcAll, m.qty}
    /\ m.at \in {"look", "quote", "pending", "gate", "send", "note"} => ~m.known
    /\ m.at = "reserve" /\ m.known => m.id \in DOMAIN qcRows
    /\ m.at = "done" /\ m.known => m.out \in {"answered", "conflict"}
    /\ m.at = "done" /\ m.out = "answered" => m.id \in DOMAIN qcRows /\ m.ask \in {QcAll, qcRows[m.id].qty}
QcKept == QcTyped /\ QcOwn /\ QcCovered /\ (\A c \in QcClicks : QcFine(qcClick[c])) /\ ~qcOver

QcRowsMove(id) ==
    /\ DOMAIN qcRows \subseteq DOMAIN qcRows' /\ DOMAIN qcRows' \subseteq DOMAIN qcRows \union {id}
    /\ \A k \in DOMAIN qcRows : qcRows'[k].qty = qcRows[k].qty /\ (k # id => qcRows'[k] = qcRows[k])
    /\ \A k \in DOMAIN qcRows' : qcRows'[k] \in QcRowType

\* A row is marked: the others are as they were.
LEMMA QcMarkIs ==
    ASSUME QcTyped, NEW id \in DOMAIN qcRows, NEW status \in QcStatuses, QcMark(id, status)
    PROVE  /\ QcRowsMove(id) /\ DOMAIN qcRows' = DOMAIN qcRows /\ qcRows'[id].status = status
  <1>1. \A k \in DOMAIN qcRows : qcRows[k] \in QcRowType
    BY DEF QcTyped
  <1>2. PICK r : r = [qcRows[id] EXCEPT !.status = status]
    OBVIOUS
  <1>3. r \in QcRowType /\ r.qty = qcRows[id].qty /\ r.status = status
    BY <1>1, <1>2 DEF QcRowType
  <1>4. qcRows' = [qcRows EXCEPT ![id] = r]
    BY <1>2 DEF QcMark
  <1>5. DOMAIN qcRows' = DOMAIN qcRows /\ qcRows'[id] = r /\ \A k \in DOMAIN qcRows : k # id => qcRows'[k] = qcRows[k]
    BY <1>4
  <1> QED BY <1>1, <1>3, <1>5 DEF QcRowsMove

\* A row is added: the others are as they were.
LEMMA QcAddIs ==
    ASSUME QcTyped, NEW id, id \notin DOMAIN qcRows, NEW r \in QcRowType, qcRows' = QcWith(qcRows, id, r)
    PROVE  /\ QcRowsMove(id) /\ DOMAIN qcRows' = DOMAIN qcRows \union {id} /\ qcRows'[id] = r
  <1>1. \A k \in DOMAIN qcRows : qcRows[k] \in QcRowType
    BY DEF QcTyped
  <1>2. DOMAIN qcRows' = DOMAIN qcRows \union {id} /\ qcRows'[id] = r /\ \A k \in DOMAIN qcRows : k # id => qcRows'[k] = qcRows[k]
    BY DEF QcWith
  <1> QED BY <1>1, <1>2 DEF QcRowsMove

\* The sums are numbers of shares.
LEMMA QcSumsAre ==
    ASSUME QcTyped PROVE QcLooseSum \in Nat /\ QcGoneSum \in Nat
  <1>1. IsFiniteSet(DOMAIN qcRows) /\ SumNats(QcQty, DOMAIN qcRows)
    BY DEF QcTyped, QcQty, QcRowType, SumNats
  <1>2. QcLoose \in SUBSET DOMAIN qcRows /\ QcGone \in SUBSET DOMAIN qcRows
    BY DEF QcLoose, QcGone
  <1> QED BY <1>1, <1>2, SumMore DEF QcLooseSum, QcGoneSum

\* More rows, a larger sum; a row the more, its quantity the larger.
LEMMA QcSumGrows ==
    ASSUME NEW R, NEW S, IsFiniteSet(S), NEW f, NEW h, SumNats(h, S), R \subseteq S, SumLike(h, f, R)
    PROVE  /\ SumFunctionOnSet(f, R) <= SumFunctionOnSet(h, S)
           /\ \A id \in S : id \notin R => SumFunctionOnSet(f, R) + h[id] <= SumFunctionOnSet(h, S)
           /\ SumFunctionOnSet(f, R) \in Nat /\ SumFunctionOnSet(h, S) \in Nat
  <1>1. IsFiniteSet(R) /\ R \in SUBSET S
    BY FS_Subset
  <1>2. SumFunctionOnSet(h, R) = SumFunctionOnSet(f, R)
    BY <1>1, SumSame
  <1>3. SumFunctionOnSet(h, R) \in Nat /\ SumFunctionOnSet(h, S) \in Nat /\ SumFunctionOnSet(h, R) <= SumFunctionOnSet(h, S)
    BY <1>1, SumMore
  <1>4. ASSUME NEW id \in S, id \notin R PROVE SumFunctionOnSet(f, R) + h[id] <= SumFunctionOnSet(h, S)
    <2>1. R \union {id} \in SUBSET S /\ SumInts(h, R \union {id})
      BY <1>1 DEF SumInts, SumNats
    <2>2. SumFunctionOnSet(h, R \union {id}) = h[id] + SumFunctionOnSet(h, R)
      BY <1>1, <1>4, <2>1, SumAdds
    <2>3. SumFunctionOnSet(h, R \union {id}) \in Nat /\ SumFunctionOnSet(h, R \union {id}) <= SumFunctionOnSet(h, S)
      BY <2>1, SumMore
    <2>4. PICK a \in Nat, b \in Nat, x \in Nat : a = SumFunctionOnSet(h, R) /\ b = SumFunctionOnSet(h, R \union {id}) /\ x = h[id]
      BY <1>3, <1>4, <2>3 DEF SumNats
    <2>5. b = x + a
      BY <2>2, <2>4
    <2>6. a + x = b
      BY ONLY <2>5
    <2> QED BY <1>2, <2>3, <2>4, <2>6
  <1> QED BY <1>2, <1>3, <1>4

\* The rows in the way of others only become more.
LEMMA QcGrow ==
    ASSUME QcTyped, IsFiniteSet(DOMAIN qcRows'), NEW id, QcRowsMove(id), QcLoose \subseteq QcLoose', QcGone \subseteq QcGone'
    PROVE  /\ QcLooseSum <= QcLooseSum' /\ QcGoneSum <= QcGoneSum'
           /\ id \in QcLoose' /\ id \notin QcLoose => QcLooseSum + qcRows'[id].qty <= QcLooseSum'
           /\ id \in QcGone' /\ id \notin QcGone => QcGoneSum + qcRows'[id].qty <= QcGoneSum'
           /\ {QcLooseSum, QcGoneSum, QcLooseSum', QcGoneSum'} \subseteq Nat
  <1>1. /\ QcLoose' \subseteq DOMAIN qcRows' /\ QcGone' \subseteq DOMAIN qcRows'
        /\ QcLoose \subseteq DOMAIN qcRows /\ QcGone \subseteq DOMAIN qcRows
    BY DEF QcLoose, QcGone
  <1>2. PICK f, h, R, S, T, U : f = QcQty /\ h = QcQty' /\ R = QcLoose /\ S = QcLoose' /\ T = QcGone /\ U = QcGone'
    OBVIOUS
  <1>3. \A k \in DOMAIN qcRows' : h[k] = qcRows'[k].qty /\ h[k] \in Nat
    BY <1>2 DEF QcQty, QcRowsMove, QcRowType
  <1>4. \A k \in DOMAIN qcRows : h[k] = f[k]
    BY <1>2 DEF QcQty, QcRowsMove
  <1>5. IsFiniteSet(S) /\ SumNats(h, S) /\ R \subseteq S /\ SumLike(h, f, R)
    BY <1>1, <1>2, <1>3, <1>4, FS_Subset DEF SumNats, SumLike
  <1>6. IsFiniteSet(U) /\ SumNats(h, U) /\ T \subseteq U /\ SumLike(h, f, T)
    BY <1>1, <1>2, <1>3, <1>4, FS_Subset DEF SumNats, SumLike
  <1>7. /\ QcLooseSum = SumFunctionOnSet(f, R) /\ QcLooseSum' = SumFunctionOnSet(h, S)
        /\ QcGoneSum = SumFunctionOnSet(f, T) /\ QcGoneSum' = SumFunctionOnSet(h, U)
    BY <1>2 DEF QcLooseSum, QcGoneSum
  <1>8. (id \in S => h[id] = qcRows'[id].qty) /\ (id \in U => h[id] = qcRows'[id].qty)
    BY <1>1, <1>2, <1>3
  <1>9. /\ QcLooseSum <= QcLooseSum' /\ QcLooseSum \in Nat /\ QcLooseSum' \in Nat
        /\ id \in S /\ id \notin R => QcLooseSum + h[id] <= QcLooseSum'
    BY <1>5, <1>7, QcSumGrows
  <1>10. /\ QcGoneSum <= QcGoneSum' /\ QcGoneSum \in Nat /\ QcGoneSum' \in Nat
         /\ id \in U /\ id \notin T => QcGoneSum + h[id] <= QcGoneSum'
    BY <1>6, <1>7, QcSumGrows
  <1> QED BY <1>2, <1>8, <1>9, <1>10

QcSameBut(m, d) ==
    /\ m.at = d.at /\ m.ask = d.ask /\ m.seen = d.seen /\ m.qty = d.qty /\ m.id = d.id
    /\ m.known = d.known /\ m.out = d.out

\* What others see of a request's step.
LEMMA QcOthers ==
    ASSUME QcTyped, NEW c \in QcClicks, NEW v \in QcClickType, QcSeen(c, v)
    PROVE  /\ qcClick' \in [QcClicks -> QcClickType] /\ qcClick'[c] = v
           /\ \A d \in QcClicks \ {c} : QcSameBut(qcClick'[d], qcClick[d]) /\ qcClick'[d].quiet = FALSE
  <1>1. qcClick \in [QcClicks -> QcClickType]
    BY DEF QcTyped
  <1>2. \A m \in QcClickType : /\ [m EXCEPT !.quiet = FALSE] \in QcClickType
                               /\ QcSameBut([m EXCEPT !.quiet = FALSE], m) /\ [m EXCEPT !.quiet = FALSE].quiet = FALSE
    <2>1. SUFFICES ASSUME NEW m \in QcClickType
                   PROVE  /\ [m EXCEPT !.quiet = FALSE] \in QcClickType
                          /\ QcSameBut([m EXCEPT !.quiet = FALSE], m) /\ [m EXCEPT !.quiet = FALSE].quiet = FALSE
      OBVIOUS
    <2> QED BY DEF QcClickType, QcSameBut
  <1>3. qcClick' = [d \in QcClicks |-> IF d = c THEN v ELSE [qcClick[d] EXCEPT !.quiet = FALSE]]
    BY DEF QcSeen
  <1>4. \A d \in QcClicks \ {c} : qcClick'[d] = [qcClick[d] EXCEPT !.quiet = FALSE] /\ qcClick[d] \in QcClickType
    BY <1>1, <1>3
  <1>5. qcClick'[c] = v /\ DOMAIN qcClick' = QcClicks
    BY <1>3
  <1>6. \A d \in QcClicks \ {c} : qcClick'[d] \in QcClickType /\ QcSameBut(qcClick'[d], qcClick[d]) /\ qcClick'[d].quiet = FALSE
    BY <1>2, <1>4
  <1>7. qcClick' \in [QcClicks -> QcClickType]
    <2>1. \A d \in QcClicks : qcClick'[d] \in QcClickType
      BY <1>5, <1>6
    <2>2. qcClick' = [d \in QcClicks |-> qcClick'[d]]
      BY <1>3, <1>5
    <2> QED BY <2>1, <2>2
  <1> QED BY <1>5, <1>6, <1>7

\* A request takes a step the others see, on a row of its own or a new one.
QcMine(me, id) == (QcHolds(me) /\ me.id = id) \/ (~QcHolds(me) /\ id \notin DOMAIN qcRows)
QcMade(me, v, id) ==
    /\ v.id = id /\ id \in DOMAIN qcRows'
    /\ QcHolds(v) => qcRows'[id].status = "reserved" /\ qcRows'[id].qty = v.qty
    /\ QcHolds(me) /\ ~QcWaits(me) => qcRows'[id].status \in {"reserved", "submitted"} /\ ~QcWaits(v)
    /\ QcWaits(v) => id \notin DOMAIN qcSent'
QcSends(id) ==
    /\ DOMAIN qcSent' \subseteq DOMAIN qcSent \union {id}
    /\ \A k \in DOMAIN qcSent' : qcSent'[k] = 1

\* Then rows are still owned by one, and those in the way of others only become more.
LEMMA QcVisible ==
    ASSUME QcTyped, QcOwn, NEW c \in QcClicks, NEW v \in QcClickType, NEW id,
           QcSeen(c, v), QcRowsMove(id), QcMine(qcClick[c], id), QcMade(qcClick[c], v, id),
           QcSends(id)
    PROVE  /\ QcOwn' /\ QcLoose \subseteq QcLoose' /\ QcGone \subseteq QcGone' /\ id \notin QcLoose
           /\ qcRows'[id].status = "reserved" /\ ~QcHolds(v) => id \in QcLoose'
           /\ qcRows'[id].status \in {"reserved", "submitted"} /\ ~QcWaits(v) => id \in QcGone'
           /\ QcWaits(qcClick[c]) => id \notin QcGone
  <1>1. /\ qcClick'[c] = v
        /\ \A d \in QcClicks \ {c} : QcSameBut(qcClick'[d], qcClick[d])
    BY QcOthers
  <1>2. \A d \in QcClicks \ {c} : /\ QcHolds(qcClick'[d]) <=> QcHolds(qcClick[d])
                                  /\ QcWaits(qcClick'[d]) <=> QcWaits(qcClick[d])
                                  /\ qcClick'[d].id = qcClick[d].id /\ qcClick'[d].qty = qcClick[d].qty
    BY <1>1 DEF QcSameBut, QcHolds, QcWaits
  <1>3. \A m : QcWaits(m) => QcHolds(m)
    BY DEF QcWaits, QcHolds
  <1>4. ASSUME NEW d \in QcClicks \ {c}, QcHolds(qcClick[d])
        PROVE  /\ qcClick[d].id \in DOMAIN qcRows /\ qcClick[d].id # id
               /\ qcRows[qcClick[d].id].status = "reserved" /\ qcRows[qcClick[d].id].qty = qcClick[d].qty
    <2>1. /\ qcClick[d].id \in DOMAIN qcRows
          /\ qcRows[qcClick[d].id].status = "reserved" /\ qcRows[qcClick[d].id].qty = qcClick[d].qty
      BY <1>4 DEF QcOwn
    <2>2. qcClick[d].id # id
      <3>1. CASE QcHolds(qcClick[c]) /\ qcClick[c].id = id
        BY <1>4, <3>1 DEF QcOwn
      <3>2. CASE id \notin DOMAIN qcRows
        BY <2>1, <3>2
      <3> QED BY <3>1, <3>2 DEF QcMine
    <2> QED BY <2>1, <2>2
  <1>5. v.id = id /\ id \in DOMAIN qcRows'
    BY DEF QcMade
  <1>6. id \notin QcLoose /\ (QcWaits(qcClick[c]) => id \notin QcGone)
    BY <1>3 DEF QcMine, QcLoose, QcGone
  <1>7. ASSUME NEW k \in DOMAIN qcRows, k # id PROVE k \in DOMAIN qcRows' /\ qcRows'[k] = qcRows[k]
    BY <1>7 DEF QcRowsMove
  <1>8. ASSUME NEW k \in QcLoose PROVE k \in QcLoose'
    <2>1. k \in DOMAIN qcRows /\ k # id /\ qcRows[k].status = "reserved" /\ \A d \in QcClicks : QcHolds(qcClick[d]) => qcClick[d].id # k
      BY <1>6 DEF QcLoose
    <2>2. k \in DOMAIN qcRows' /\ qcRows'[k].status = "reserved"
      BY <1>7, <2>1
    <2>3. \A d \in QcClicks : QcHolds(qcClick'[d]) => qcClick'[d].id # k
      BY <1>1, <1>2, <1>5, <2>1
    <2> QED BY <2>2, <2>3 DEF QcLoose
  <1>9. ASSUME NEW k \in QcGone PROVE k \in QcGone'
    <2>1. k \in DOMAIN qcRows /\ qcRows[k].status \in {"reserved", "submitted"} /\ \A d \in QcClicks : QcWaits(qcClick[d]) => qcClick[d].id # k
      BY DEF QcGone
    <2>2. CASE k # id
      <3>1. k \in DOMAIN qcRows' /\ qcRows'[k].status \in {"reserved", "submitted"}
        BY <1>7, <2>1, <2>2
      <3>2. \A d \in QcClicks : QcWaits(qcClick'[d]) => qcClick'[d].id # k
        BY <1>1, <1>2, <1>5, <2>1, <2>2
      <3> QED BY <3>1, <3>2 DEF QcGone
    <2>3. CASE k = id
      <3>1. QcHolds(qcClick[c]) /\ ~QcWaits(qcClick[c])
        BY <2>1, <2>3 DEF QcMine
      <3>2. qcRows'[id].status \in {"reserved", "submitted"} /\ ~QcWaits(v)
        BY <3>1 DEF QcMade
      <3>3. \A d \in QcClicks : QcWaits(qcClick'[d]) => qcClick'[d].id # k
        BY <1>1, <1>2, <2>1, <3>2
      <3> QED BY <1>5, <2>3, <3>2, <3>3 DEF QcGone
    <2> QED BY <2>2, <2>3
  <1>10. ASSUME qcRows'[id].status = "reserved", ~QcHolds(v) PROVE id \in QcLoose'
    <2>1. \A d \in QcClicks : QcHolds(qcClick'[d]) => qcClick'[d].id # id
      BY <1>1, <1>2, <1>4, <1>10
    <2> QED BY <1>5, <1>10, <2>1 DEF QcLoose
  <1>11. ASSUME qcRows'[id].status \in {"reserved", "submitted"}, ~QcWaits(v) PROVE id \in QcGone'
    <2>1. \A d \in QcClicks : QcWaits(qcClick'[d]) => qcClick'[d].id # id
      BY <1>1, <1>2, <1>3, <1>4, <1>11
    <2> QED BY <1>5, <1>11, <2>1 DEF QcGone
  <1>12. QcOwn'
    <2>1. ASSUME NEW d \in QcClicks, QcHolds(qcClick'[d])
          PROVE  /\ qcClick'[d].id \in DOMAIN qcRows' /\ qcRows'[qcClick'[d].id].status = "reserved"
                 /\ qcRows'[qcClick'[d].id].qty = qcClick'[d].qty
                 /\ \A e \in QcClicks \ {d} : QcHolds(qcClick'[e]) => qcClick'[e].id # qcClick'[d].id
      <3>1. CASE d = c
        <4>1. QcHolds(v) /\ qcClick'[d] = v
          BY <1>1, <2>1, <3>1
        <4>2. qcRows'[id].status = "reserved" /\ qcRows'[id].qty = v.qty
          BY <4>1 DEF QcMade
        <4>3. \A e \in QcClicks \ {d} : QcHolds(qcClick'[e]) => qcClick'[e].id # id
          BY <1>2, <1>4, <3>1
        <4> QED BY <1>5, <4>1, <4>2, <4>3
      <3>2. CASE d # c
        <4>1. QcHolds(qcClick[d]) /\ qcClick'[d].id = qcClick[d].id /\ qcClick'[d].qty = qcClick[d].qty
          BY <1>2, <2>1, <3>2
        <4>2. /\ qcClick[d].id \in DOMAIN qcRows /\ qcClick[d].id # id
              /\ qcRows[qcClick[d].id].status = "reserved" /\ qcRows[qcClick[d].id].qty = qcClick[d].qty
          BY <1>4, <3>2, <4>1
        <4>3. qcClick[d].id \in DOMAIN qcRows' /\ qcRows'[qcClick[d].id] = qcRows[qcClick[d].id]
          BY <1>7, <4>2
        <4>4. ASSUME NEW e \in QcClicks \ {d}, QcHolds(qcClick'[e]) PROVE qcClick'[e].id # qcClick'[d].id
          <5>1. CASE e = c
            BY <1>1, <1>5, <4>1, <4>2, <5>1
          <5>2. CASE e # c
            <6>1. QcHolds(qcClick[e]) /\ qcClick'[e].id = qcClick[e].id
              BY <1>2, <4>4, <5>2
            <6> QED BY <4>1, <6>1 DEF QcOwn
          <5> QED BY <5>1, <5>2
        <4> QED BY <4>1, <4>2, <4>3, <4>4
      <3> QED BY <3>1, <3>2
    <2>2. ASSUME NEW d \in QcClicks, QcWaits(qcClick'[d]) PROVE qcClick'[d].id \notin DOMAIN qcSent'
      <3>1. CASE d = c
        BY <1>1, <1>5, <2>2, <3>1 DEF QcMade
      <3>2. CASE d # c
        <4>1. QcWaits(qcClick[d]) /\ qcClick'[d].id = qcClick[d].id /\ qcClick[d].id # id
          BY <1>2, <1>3, <1>4, <2>2, <3>2
        <4>2. qcClick[d].id \notin DOMAIN qcSent
          BY <4>1 DEF QcOwn
        <4> QED BY <4>1, <4>2 DEF QcSends
      <3> QED BY <3>1, <3>2
    <2>3. \A k \in DOMAIN qcSent' : qcSent'[k] = 1 /\ k \in DOMAIN qcRows'
      BY <1>5 DEF QcSends, QcOwn, QcRowsMove
    <2> HIDE DEF QcHolds, QcWaits
    <2> QED BY <2>1, <2>2, <2>3 DEF QcOwn
  <1> QED BY <1>6, <1>8, <1>9, <1>10, <1>11, <1>12

\* What another request knows outlives it.
LEMMA QcOthersFine ==
    ASSUME QcTyped, NEW c \in QcClicks, NEW v \in QcClickType, NEW id, QcSeen(c, v), QcRowsMove(id),
           NEW d \in QcClicks \ {c}, QcFine(qcClick[d])
    PROVE  QcFine(qcClick[d])'
  <1>1. QcSameBut(qcClick'[d], qcClick[d]) /\ qcClick'[d].quiet = FALSE
    BY QcOthers
  <1>2. PICK m, w : m = qcClick[d] /\ w = qcClick'[d]
    OBVIOUS
  <1>3. /\ m.at = w.at /\ m.ask = w.ask /\ m.qty = w.qty /\ m.id = w.id /\ m.known = w.known /\ m.out = w.out /\ w.quiet = FALSE
    BY <1>1, <1>2 DEF QcSameBut
  <1>4. QcFine(m)
    BY <1>2
  <1>5. m.id \in DOMAIN qcRows => m.id \in DOMAIN qcRows' /\ qcRows'[m.id].qty = qcRows[m.id].qty
    BY DEF QcRowsMove
  <1>6. /\ w.at \in {"quote", "pending", "reserve"} => w.ask \in {QcAll, w.qty}
        /\ w.at \in {"look", "quote", "pending", "gate", "send", "note"} => ~w.known
        /\ w.at = "reserve" /\ w.known => w.id \in DOMAIN qcRows'
        /\ w.at = "done" /\ w.known => w.out \in {"answered", "conflict"}
        /\ w.at = "done" /\ w.out = "answered" => w.id \in DOMAIN qcRows' /\ w.ask \in {QcAll, qcRows'[w.id].qty}
    BY <1>3, <1>4, <1>5 DEF QcFine
  <1>7. ~w.quiet
    BY <1>3
  <1> QED BY <1>2, <1>6, <1>7 DEF QcFine

\* A request takes a step that touches nothing but itself.
LEMMA QcQuietStep ==
    ASSUME QcKept, NEW c \in QcClicks, NEW v \in QcClickType, qcClick' = [qcClick EXCEPT ![c] = v],
           UNCHANGED <<qcBroker, qcQuote, qcBucket, qcLost, qcRows, qcSent, qcOver>>,
           QcHolds(v) <=> QcHolds(qcClick[c]), QcWaits(v) <=> QcWaits(qcClick[c]),
           QcHolds(v) => v.id = qcClick[c].id /\ v.qty = qcClick[c].qty,
           QcFine(v)
    PROVE  QcKept'
  <1>1. qcClick \in [QcClicks -> QcClickType]
    BY DEF QcKept, QcTyped
  <1>2. qcClick' \in [QcClicks -> QcClickType] /\ qcClick'[c] = v /\ \A d \in QcClicks \ {c} : qcClick'[d] = qcClick[d]
    BY <1>1
  <1>3. \A d \in QcClicks : /\ QcHolds(qcClick'[d]) <=> QcHolds(qcClick[d])
                            /\ QcWaits(qcClick'[d]) <=> QcWaits(qcClick[d])
                            /\ QcHolds(qcClick[d]) => qcClick'[d].id = qcClick[d].id /\ qcClick'[d].qty = qcClick[d].qty
    BY <1>2
  <1>4. \A m : QcWaits(m) => QcHolds(m)
    BY DEF QcWaits, QcHolds
  <1>5. QcLoose' = QcLoose
    BY <1>3 DEF QcLoose
  <1>6. QcGone' = QcGone
    BY <1>3, <1>4 DEF QcGone
  <1>7. QcLooseSum' = QcLooseSum /\ QcGoneSum' = QcGoneSum
    BY <1>5, <1>6 DEF QcLooseSum, QcGoneSum, QcQty
  <1>8. QcTyped'
    BY <1>2 DEF QcKept, QcTyped
  <1>9. QcOwn'
    <2>1. QcOwn
      BY DEF QcKept
    <2> QED BY <1>3, <1>4, <2>1 DEF QcOwn
  <1>10. QcCovered'
    BY <1>7 DEF QcKept, QcCovered
  <1>11. \A m : QcFine(m) => QcFine(m)'
    BY <1>7 DEF QcFine
  <1>12. \A d \in QcClicks : QcFine(qcClick[d])'
    <2>1. \A d \in QcClicks : QcFine(qcClick'[d])
      BY <1>2 DEF QcKept
    <2> QED BY <1>11, <2>1
  <1>13. ~qcOver'
    BY DEF QcKept
  <1> QED BY <1>8, <1>9, <1>10, <1>12, <1>13 DEF QcKept

\* A request, a look, a quote, a check, an answer, a gate passed.
LEMMA QcRequestStep == ASSUME QcAssumption, QcKept, NEW c \in QcClicks, QcRequest(c) PROVE QcKept'
  <1>1. PICK m \in QcClickType : m = qcClick[c] /\ m.at = "idle"
    BY DEF QcKept, QcTyped, QcRequest
  <1>2. QcHeld \in Nat
    BY DEF QcAssumption
  <1>3. PICK ask \in QcAll..QcHeld, name \in QcNames \union {QcNoName} :
            qcClick' = [qcClick EXCEPT ![c] =
              [QcIdle EXCEPT !.ask = ask, !.name = name,
                  !.at = IF <<name>> \in DOMAIN qcRows THEN "done" ELSE "look",
                  !.id = IF <<name>> \in DOMAIN qcRows THEN <<name>> ELSE <<>>,
                  !.known = <<name>> \in DOMAIN qcRows,
                  !.out = IF <<name>> \notin DOMAIN qcRows THEN ""
                          ELSE IF ask \in {QcAll, qcRows[<<name>>].qty} THEN "answered" ELSE "conflict"]]
    BY DEF QcRequest
  <1>4. ask \in Nat
    BY <1>2 DEF QcAll
  <1>5. PICK k : k = <<name>>
    OBVIOUS
  <1>6. k \in QcIds /\ <<>> \in QcIds
    BY <1>5 DEF QcIds
  <1>i. QcIdle \in QcClickType
    <2>1. 0 \in Nat /\ 0 \in Int /\ QcNoName \in QcNames \union {QcNoName} /\ "" \in QcOuts /\ "idle" \in QcStages
      BY DEF QcStages, QcOuts
    <2> QED BY <1>6, <2>1 DEF QcIdle, QcClickType, QcAll
  <1>7. UNCHANGED <<qcBroker, qcQuote, qcBucket, qcLost, qcRows, qcSent, qcOver>>
    BY DEF QcRequest
  <1>8. CASE k \in DOMAIN qcRows
    <2>1. PICK out \in {"answered", "conflict"} : out = IF ask \in {QcAll, qcRows[k].qty} THEN "answered" ELSE "conflict"
      OBVIOUS
    <2>2. PICK v : v = [QcIdle EXCEPT !.ask = ask, !.name = name, !.at = "done", !.id = k, !.known = TRUE, !.out = out]
      OBVIOUS
    <2>3. v \in QcClickType /\ v.at = "done" /\ v.known /\ v.out = out /\ v.id = k /\ v.ask = ask
      BY <1>4, <1>6, <1>i, <2>1, <2>2 DEF QcClickType, QcStages, QcOuts
    <2>4. qcClick' = [qcClick EXCEPT ![c] = v]
      BY <1>3, <1>5, <1>8, <2>1, <2>2
    <2>5. ~QcHolds(v) /\ ~QcWaits(v) /\ ~QcHolds(m) /\ ~QcWaits(m)
      BY <1>1, <2>3 DEF QcHolds, QcWaits
    <2>6. QcFine(v)
      BY <1>8, <2>1, <2>3, <2>5 DEF QcFine
    <2> QED BY <1>1, <1>7, <2>3, <2>4, <2>5, <2>6, QcQuietStep
  <1>9. CASE k \notin DOMAIN qcRows
    <2>1. PICK v : v = [QcIdle EXCEPT !.ask = ask, !.name = name, !.at = "look", !.id = <<>>, !.known = FALSE, !.out = ""]
      OBVIOUS
    <2>2. v \in QcClickType /\ v.at = "look" /\ v.known = FALSE
      BY <1>4, <1>6, <1>i, <2>1 DEF QcClickType, QcStages, QcOuts
    <2>3. qcClick' = [qcClick EXCEPT ![c] = v]
      <3>1. (<<name>> \in DOMAIN qcRows) = FALSE
        BY <1>5, <1>9
      <3> QED BY <1>3, <2>1, <3>1
    <2>4. ~QcHolds(v) /\ ~QcWaits(v) /\ ~QcHolds(m) /\ ~QcWaits(m)
      BY <1>1, <2>2 DEF QcHolds, QcWaits
    <2>5. QcFine(v)
      BY <2>2, <2>4 DEF QcFine
    <2> QED BY <1>1, <1>7, <2>2, <2>3, <2>4, <2>5, QcQuietStep
  <1> QED BY <1>8, <1>9

\* A request is refused, or told of an order, before it has one of its own.
LEMMA QcEndStep ==
    ASSUME QcAssumption, QcKept, NEW c \in QcClicks, NEW out \in QcOuts, QcEnd(c, out), ~QcHolds(qcClick[c]),
           UNCHANGED <<qcBroker, qcQuote, qcBucket, qcLost, qcRows, qcSent, qcOver>>,
           qcClick[c].known => out \in {"answered", "conflict"},
           out = "answered" => qcClick[c].id \in DOMAIN qcRows /\ qcClick[c].ask \in {QcAll, qcRows[qcClick[c].id].qty}
    PROVE  QcKept'
  <1>1. PICK m \in QcClickType : m = qcClick[c]
    BY DEF QcKept, QcTyped
  <1>2. PICK v : v = [m EXCEPT !.at = "done", !.out = out]
    OBVIOUS
  <1>3. v \in QcClickType /\ v.at = "done" /\ v.out = out /\ v.known = m.known /\ v.id = m.id /\ v.ask = m.ask
    BY <1>2 DEF QcClickType, QcStages
  <1>4. qcClick' = [qcClick EXCEPT ![c] = v]
    BY <1>1, <1>2 DEF QcEnd
  <1>5. ~QcHolds(v) /\ ~QcWaits(v) /\ ~QcWaits(m)
    BY <1>1, <1>3 DEF QcHolds, QcWaits
  <1>6. QcFine(v)
    BY <1>1, <1>3, <1>5 DEF QcFine
  <1> QED BY <1>1, <1>3, <1>4, <1>5, <1>6, QcQuietStep

\* A look at what can be sold.
LEMMA QcLookStep == ASSUME QcAssumption, QcKept, NEW c \in QcClicks, QcLook(c) PROVE QcKept'
  <1>1. PICK m \in QcClickType : m = qcClick[c] /\ m.at = "look"
    BY DEF QcKept, QcTyped, QcLook
  <1>2. ~m.known /\ ~QcHolds(m) /\ ~QcWaits(m)
    BY <1>1 DEF QcKept, QcFine, QcHolds, QcWaits
  <1>3. UNCHANGED <<qcBroker, qcQuote, qcBucket, qcLost, qcRows, qcSent, qcOver>>
    BY DEF QcLook
  <1>4. CASE QcEnd(c, "refused")
    <2>1. ~QcHolds(qcClick[c]) /\ ~qcClick[c].known /\ "refused" # "answered" /\ "refused" \in QcOuts
      BY <1>1, <1>2 DEF QcOuts
    <2> QED BY <1>3, <1>4, <2>1, QcEndStep
  <1>5. CASE ~QcEnd(c, "refused")
    <2>1. PICK sellable \in QcFigures : /\ ~(sellable <= 0 \/ m.ask > sellable)
               /\ qcClick' = [qcClick EXCEPT ![c].at = "quote", ![c].seen = sellable, ![c].quiet = TRUE,
                              ![c].qty = IF m.ask = QcAll THEN sellable ELSE m.ask]
      BY <1>1, <1>5 DEF QcLook
    <2>2. qcBroker.shown \in Nat /\ qcBroker.free \in Nat /\ QcHeld \in Nat
      BY DEF QcKept, QcTyped, QcAssumption
    <2>3. sellable \in Nat /\ sellable = qcBroker.shown
      BY <2>1, <2>2 DEF QcFigures, QcUnknown
    <2>4. PICK qty \in Nat : qty = IF m.ask = QcAll THEN sellable ELSE m.ask
      BY <2>3 DEF QcClickType
    <2>5. PICK v : v = [m EXCEPT !.at = "quote", !.seen = sellable, !.quiet = TRUE, !.qty = qty]
      OBVIOUS
    <2>6. v \in QcClickType /\ v.at = "quote" /\ v.seen = sellable /\ v.qty = qty /\ v.ask = m.ask /\ v.known = m.known
      <3>1. sellable \in Int /\ "quote" \in QcStages /\ TRUE \in BOOLEAN
        BY <2>3 DEF QcStages
      <3> QED BY <2>5, <3>1 DEF QcClickType
    <2>7. qcClick' = [qcClick EXCEPT ![c] = v]
      BY <1>1, <2>1, <2>4, <2>5
    <2>8. ~QcHolds(v) /\ ~QcWaits(v)
      BY <2>6 DEF QcHolds, QcWaits
    <2>9. v.seen - qcBroker.free <= QcLooseSum
      BY <2>3, <2>6 DEF QcKept, QcCovered
    <2>10. v.ask \in {QcAll, v.qty}
      BY <2>4, <2>6
    <2>11. QcFine(v)
      BY <1>2, <2>6, <2>8, <2>9, <2>10 DEF QcFine
    <2> QED BY <1>1, <1>2, <1>3, <2>6, <2>7, <2>8, <2>11, QcQuietStep
  <1> QED BY <1>4, <1>5

\* A quote, or none.
LEMMA QcPricedStep == ASSUME QcAssumption, QcKept, NEW c \in QcClicks, QcPriced(c) PROVE QcKept'
  <1>1. PICK m \in QcClickType : m = qcClick[c] /\ m.at = "quote"
    BY DEF QcKept, QcTyped, QcPriced
  <1>2. ~m.known /\ ~QcHolds(m) /\ ~QcWaits(m) /\ QcFine(m)
    BY <1>1 DEF QcKept, QcFine, QcHolds, QcWaits
  <1>3. UNCHANGED <<qcBroker, qcQuote, qcBucket, qcLost, qcRows, qcSent, qcOver>>
    BY DEF QcPriced
  <1>4. CASE QcEnd(c, "refused")
    <2>1. ~QcHolds(qcClick[c]) /\ ~qcClick[c].known /\ "refused" # "answered" /\ "refused" \in QcOuts
      BY <1>1, <1>2 DEF QcOuts
    <2> QED BY <1>3, <1>4, <2>1, QcEndStep
  <1>5. CASE ~QcEnd(c, "refused")
    <2>1. PICK price \in QcQuotes :
              qcClick' = [qcClick EXCEPT ![c].at = "pending", ![c].price = price, ![c].id = QcKey(m, price)]
      BY <1>1, <1>5 DEF QcPriced
    <2>2. price \in Nat
      BY <2>1 DEF QcQuotes, QcNoQuote, QcKept, QcTyped
    <2>3. PICK id : id = QcKey(m, price)
      OBVIOUS
    <2>4. id \in QcIds
      <3>1. m.name \in QcNames \union {QcNoName} /\ m.qty \in Nat /\ qcBucket \in Nat
        BY DEF QcClickType, QcKept, QcTyped
      <3> QED BY <2>2, <2>3, <3>1 DEF QcKey, QcIds
    <2>5. PICK v : v = [m EXCEPT !.at = "pending", !.price = price, !.id = id]
      OBVIOUS
    <2>6. /\ v \in QcClickType /\ v.at = "pending" /\ v.seen = m.seen /\ v.qty = m.qty /\ v.ask = m.ask
          /\ v.known = m.known /\ v.quiet = m.quiet
      BY <2>2, <2>4, <2>5 DEF QcClickType, QcStages
    <2>7. qcClick' = [qcClick EXCEPT ![c] = v]
      BY <1>1, <2>1, <2>3, <2>5
    <2>8. ~QcHolds(v) /\ ~QcWaits(v)
      BY <2>6 DEF QcHolds, QcWaits
    <2>9. QcFine(v)
      BY <1>1, <1>2, <2>6, <2>8 DEF QcFine
    <2> QED BY <1>1, <1>2, <1>3, <2>6, <2>7, <2>8, <2>9, QcQuietStep
  <1> QED BY <1>4, <1>5

\* The free shares are a number.
LEMMA QcFreeIs == ASSUME QcAssumption, QcKept PROVE qcBroker.free \in Nat
  BY DEF QcKept, QcTyped, QcAssumption

\* The arithmetic of a check.
LEMMA QcEnough == \A p, l, q, f \in Nat, s \in Int : l <= p /\ q <= s - p /\ s - f <= l => q <= f
  OBVIOUS

\* A check against the sells in flight.
LEMMA QcCheckStep == ASSUME QcAssumption, QcKept, NEW c \in QcClicks, QcCheck(c) PROVE QcKept'
  <1>1. PICK m \in QcClickType : m = qcClick[c] /\ m.at = "pending"
    BY DEF QcKept, QcTyped, QcCheck
  <1>2. ~m.known /\ ~QcHolds(m) /\ ~QcWaits(m) /\ QcFine(m)
    BY <1>1 DEF QcKept, QcFine, QcHolds, QcWaits
  <1>3. UNCHANGED <<qcBroker, qcQuote, qcBucket, qcLost, qcRows, qcSent, qcOver>>
    BY DEF QcCheck
  <1>4. PICK known \in BOOLEAN, at \in {"reserve", "done"}, out \in {"", "refused"} :
            /\ known = (m.id \in DOMAIN qcRows)
            /\ at = IF QcReplay(m.id) \/ m.qty <= m.seen - QcPending(m.id) THEN "reserve" ELSE "done"
            /\ out = IF QcReplay(m.id) \/ m.qty <= m.seen - QcPending(m.id) THEN "" ELSE "refused"
            /\ qcClick' = [qcClick EXCEPT ![c].known = known, ![c].at = at, ![c].out = out]
    <2>1. (m.id \in DOMAIN qcRows) \in BOOLEAN
      OBVIOUS
    <2>2. /\ (IF QcReplay(m.id) \/ m.qty <= m.seen - QcPending(m.id) THEN "reserve" ELSE "done") \in {"reserve", "done"}
          /\ (IF QcReplay(m.id) \/ m.qty <= m.seen - QcPending(m.id) THEN "" ELSE "refused") \in {"", "refused"}
      OBVIOUS
    <2>3. qcClick' = [qcClick EXCEPT ![c].known = m.id \in DOMAIN qcRows,
              ![c].at = IF QcReplay(m.id) \/ m.qty <= m.seen - QcPending(m.id) THEN "reserve" ELSE "done",
              ![c].out = IF QcReplay(m.id) \/ m.qty <= m.seen - QcPending(m.id) THEN "" ELSE "refused"]
      BY <1>1, Zenon DEF QcCheck
    <2> QED BY <2>1, <2>2, <2>3, Zenon
  <1>5. PICK v : v = [m EXCEPT !.known = known, !.at = at, !.out = out]
    OBVIOUS
  <1>6. /\ v \in QcClickType /\ v.at = at /\ v.seen = m.seen /\ v.qty = m.qty /\ v.ask = m.ask /\ v.id = m.id
        /\ v.known = known /\ v.quiet = m.quiet /\ v.out = out
    <2>1. at \in QcStages /\ out \in QcOuts
      BY <1>4 DEF QcStages, QcOuts
    <2> QED BY <1>4, <1>5, <2>1 DEF QcClickType
  <1>7. qcClick' = [qcClick EXCEPT ![c] = v]
    BY <1>1, <1>4, <1>5
  <1>8. ~QcHolds(v) /\ ~QcWaits(v)
    BY <1>6 DEF QcHolds, QcWaits
  <1>9. m.qty \in Nat /\ m.seen \in Int /\ qcBroker.free \in Nat /\ QcLooseSum \in Nat
    <2>1. QcTyped
      BY DEF QcKept
    <2>2. qcBroker.free \in Nat
      BY QcFreeIs
    <2> QED BY <2>1, <2>2, QcSumsAre DEF QcClickType
  <1>10. ASSUME v.quiet, v.at = "reserve", v.id \notin DOMAIN qcRows PROVE v.qty <= qcBroker.free
    <2>1. QcPending(m.id) \in Nat /\ QcLooseSum <= QcPending(m.id)
      <3>1. m.id \notin DOMAIN qcRows
        BY <1>6, <1>10
      <3>2. QcLoose \subseteq QcOpen(m.id) /\ QcOpen(m.id) \subseteq DOMAIN qcRows
        BY <3>1 DEF QcOpen, QcLoose
      <3>3. IsFiniteSet(DOMAIN qcRows) /\ SumNats(QcQty, DOMAIN qcRows)
        BY DEF QcKept, QcTyped, QcQty, QcRowType, SumNats
      <3>4. IsFiniteSet(QcOpen(m.id)) /\ SumNats(QcQty, QcOpen(m.id))
        BY <3>2, <3>3, FS_Subset DEF SumNats
      <3> QED BY <3>2, <3>4, SumMore DEF QcPending, QcLooseSum
    <2>2. m.qty <= m.seen - QcPending(m.id)
      BY <1>4, <1>6, <1>10 DEF QcReplay
    <2>3. m.seen - qcBroker.free <= QcLooseSum
      BY <1>1, <1>2, <1>6, <1>10 DEF QcFine
    <2>4. PICK p \in Nat, l \in Nat, q \in Nat, s \in Int, f \in Nat :
              p = QcPending(m.id) /\ l = QcLooseSum /\ q = m.qty /\ s = m.seen /\ f = qcBroker.free
      BY <1>9, <2>1
    <2>5. l <= p /\ q <= s - p /\ s - f <= l
      BY <2>1, <2>2, <2>3, <2>4
    <2>6. q <= f
      BY <2>5, QcEnough
    <2> QED BY <1>6, <2>4, <2>6
  <1>11. v.at = "done" => ~v.known /\ v.out = "refused"
    BY <1>4, <1>6 DEF QcReplay
  <1>12. QcFine(v)
    BY <1>1, <1>2, <1>4, <1>6, <1>8, <1>10, <1>11 DEF QcFine
  <1> QED BY <1>1, <1>2, <1>3, <1>6, <1>7, <1>8, <1>12, QcQuietStep

\* A step the others see keeps everything, if it keeps what is covered and what its
\* own request knows.
LEMMA QcSeenStep ==
    ASSUME QcAssumption, QcKept, NEW c \in QcClicks, NEW v \in QcClickType, NEW id,
           QcSeen(c, v), QcRowsMove(id), QcMine(qcClick[c], id), QcMade(qcClick[c], v, id),
           QcSends(id),
           IsFiniteSet(DOMAIN qcRows'), qcBroker' \in [free : 0..QcHeld, shown : 0..QcHeld], qcLost' \in 0..QcLost,
           UNCHANGED <<qcQuote, qcBucket>>, ~qcOver', QcCovered', QcFine(v)'
    PROVE  QcKept'
  <1>1. QcTyped /\ QcOwn /\ \A d \in QcClicks : QcFine(qcClick[d])
    BY DEF QcKept
  <1>2. QcOwn'
    BY <1>1, QcVisible
  <1>3. qcClick' \in [QcClicks -> QcClickType] /\ qcClick'[c] = v
    BY <1>1, QcOthers
  <1>4. QcTyped'
    BY <1>1, <1>3 DEF QcTyped, QcRowsMove
  <1>5. \A d \in QcClicks \ {c} : QcFine(qcClick[d])'
    BY <1>1, QcOthersFine
  <1>6. QcFine(qcClick[c])'
    BY <1>3
  <1> QED BY <1>2, <1>4, <1>5, <1>6 DEF QcKept

\* Nothing is covered less, when the broker's figures stay.
LEMMA QcStaysCovered ==
    ASSUME QcTyped, QcAssumption, QcCovered, NEW a \in Nat, NEW b \in Nat, qcBroker' = qcBroker,
           QcLooseSum \in Nat, QcGoneSum \in Nat, a = QcLooseSum', b = QcGoneSum', QcLooseSum <= a, QcGoneSum <= b
    PROVE  QcCovered'
  <1>1. qcBroker.shown \in 0..QcHeld /\ qcBroker.free \in 0..QcHeld /\ QcHeld \in Nat
    BY DEF QcTyped, QcAssumption
  <1>2. qcBroker.shown \in Nat /\ qcBroker.free \in Nat
    BY <1>1
  <1>3. PICK s \in Nat, f \in Nat, h \in Nat, l \in Nat, g \in Nat :
            s = qcBroker.shown /\ f = qcBroker.free /\ h = QcHeld /\ l = QcLooseSum /\ g = QcGoneSum
    BY <1>1, <1>2
  <1>4. s - f <= l /\ h - f <= g /\ l <= a /\ g <= b
    BY <1>3 DEF QcCovered
  <1>5. \A i, j, k, m \in Nat : i - j <= k /\ k <= m => i - j <= m
    OBVIOUS
  <1>6. s - f <= a /\ h - f <= b
    BY <1>4, <1>5
  <1> QED BY <1>3, <1>6 DEF QcCovered

\* A row is reserved, or the key's order told.
LEMMA QcReserveStep == ASSUME QcAssumption, QcKept, NEW c \in QcClicks, QcReserve(c) PROVE QcKept'
  <1>1. PICK m \in QcClickType : m = qcClick[c] /\ m.at = "reserve"
    BY DEF QcKept, QcTyped, QcReserve
  <1>2. ~QcHolds(m) /\ ~QcWaits(m) /\ QcFine(m)
    BY <1>1 DEF QcKept, QcHolds, QcWaits
  <1>3. UNCHANGED <<qcBroker, qcQuote, qcBucket, qcLost, qcSent, qcOver>>
    BY DEF QcReserve
  <1>4. CASE m.id \in DOMAIN qcRows
    <2>1. PICK out \in QcOuts : out = (IF qcRows[m.id].qty = m.qty /\ qcRows[m.id].price = m.price THEN "answered" ELSE "conflict")
      BY DEF QcOuts
    <2>2. QcEnd(c, out) /\ UNCHANGED qcRows
      BY <1>1, <1>4, <2>1 DEF QcReserve
    <2>3. out \in {"answered", "conflict"} /\ (out = "answered" => m.ask \in {QcAll, qcRows[m.id].qty})
      BY <1>1, <1>2, <2>1 DEF QcFine
    <2> QED BY <1>1, <1>2, <1>3, <1>4, <2>2, <2>3, QcEndStep
  <1>5. CASE m.id \notin DOMAIN qcRows
    <2>1. PICK v : v = [m EXCEPT !.at = "gate"]
      OBVIOUS
    <2>2. PICK r : r = [qty |-> m.qty, price |-> m.price, status |-> "reserved"]
      OBVIOUS
    <2>3. /\ v \in QcClickType /\ v.at = "gate" /\ v.id = m.id /\ v.qty = m.qty /\ v.quiet = m.quiet /\ v.known = m.known
          /\ r \in QcRowType /\ r.qty = m.qty /\ r.status = "reserved"
      BY <2>1, <2>2 DEF QcClickType, QcRowType, QcStages, QcStatuses
    <2>4. QcSeen(c, v) /\ qcRows' = QcWith(qcRows, m.id, r)
      BY <1>1, <1>5, <2>1, <2>2 DEF QcReserve
    <2>5. QcTyped /\ QcOwn /\ QcCovered /\ ~qcOver
      BY DEF QcKept
    <2>6. QcRowsMove(m.id) /\ DOMAIN qcRows' = DOMAIN qcRows \union {m.id} /\ qcRows'[m.id] = r
      BY <1>5, <2>3, <2>4, <2>5, QcAddIs
    <2>7. IsFiniteSet(DOMAIN qcRows')
      BY <2>5, <2>6, FS_AddElement DEF QcTyped
    <2>8. QcMine(m, m.id)
      BY <1>2, <1>5 DEF QcMine
    <2>9. m.id \notin DOMAIN qcSent'
      BY <1>3, <1>5, <2>5 DEF QcOwn
    <2>10. QcMade(m, v, m.id)
      BY <1>2, <2>3, <2>6, <2>9 DEF QcMade
    <2>11. QcSends(m.id)
      BY <1>3, <2>5 DEF QcSends, QcOwn
    <2>12. QcLoose \subseteq QcLoose' /\ QcGone \subseteq QcGone'
      BY <1>1, <2>3, <2>4, <2>5, <2>6, <2>8, <2>10, <2>11, QcVisible
    <2>13. QcLooseSum <= QcLooseSum' /\ QcGoneSum <= QcGoneSum' /\ {QcLooseSum, QcGoneSum, QcLooseSum', QcGoneSum'} \subseteq Nat
      BY <2>5, <2>6, <2>7, <2>12, QcGrow
    <2>14. QcCovered'
      <3>1. PICK a \in Nat, b \in Nat : a = QcLooseSum' /\ b = QcGoneSum'
        BY <2>13
      <3> QED BY <1>3, <2>5, <2>13, <3>1, QcStaysCovered
    <2>15. QcFine(v)'
      <3>1. v.known = FALSE /\ (v.quiet => v.qty <= qcBroker'.free)
        BY <1>1, <1>2, <1>3, <1>5, <2>3 DEF QcFine, QcClickType
      <3> QED BY <2>3, <3>1 DEF QcFine
    <2>16. qcBroker' \in [free : 0..QcHeld, shown : 0..QcHeld] /\ qcLost' \in 0..QcLost /\ ~qcOver'
      BY <1>3, <2>5 DEF QcTyped
    <2> QED BY <1>1, <1>3, <2>3, <2>4, <2>6, <2>7, <2>8, <2>10, <2>11, <2>14, <2>15, <2>16,
               QcSeenStep
  <1> QED BY <1>4, <1>5

\* A request marks its row and is done.
LEMMA QcMarkStep ==
    ASSUME QcAssumption, QcKept, NEW c \in QcClicks, NEW status \in QcStatuses, NEW out \in QcOuts, out # "answered",
           QcHolds(qcClick[c]), QcMark(qcClick[c].id, status), QcSeen(c,
           [qcClick[c] EXCEPT !.at = "done", !.out = out]),
           qcClick[c].at = "note" => status = "submitted", QcSends(qcClick[c].id),
           qcBroker' \in [free : 0..QcHeld, shown : 0..QcHeld], qcLost' \in 0..QcLost, UNCHANGED <<qcQuote, qcBucket>>,
           ~qcOver',
           \/ qcBroker' = qcBroker
           \/ /\ status = "reserved" /\ qcClick[c].at = "send"
              /\ qcBroker' = [qcBroker EXCEPT !.free = qcBroker.free - qcClick[c].qty]
    PROVE  QcKept'
  <1>1. PICK m \in QcClickType : m = qcClick[c]
    BY DEF QcKept, QcTyped
  <1>2. PICK v : v = [m EXCEPT !.at = "done", !.out = out]
    OBVIOUS
  <1>3. /\ v \in QcClickType /\ v.at = "done" /\ v.out = out /\ v.known = m.known /\ v.id = m.id
        /\ ~QcHolds(v) /\ ~QcWaits(v)
    BY <1>2 DEF QcClickType, QcStages, QcHolds, QcWaits
  <1>4. QcSeen(c, v) /\ QcTyped /\ QcOwn /\ QcCovered /\ QcFine(m) /\ QcMark(m.id, status) /\ QcSends(m.id) /\ QcHolds(m)
    BY <1>1, <1>2 DEF QcKept
  <1>5. m.id \in DOMAIN qcRows /\ qcRows[m.id].qty = m.qty
    BY <1>1, <1>4 DEF QcOwn
  <1>6. QcRowsMove(m.id) /\ DOMAIN qcRows' = DOMAIN qcRows /\ qcRows'[m.id].status = status
    BY <1>4, <1>5, QcMarkIs
  <1>7. qcRows'[m.id].qty = m.qty /\ IsFiniteSet(DOMAIN qcRows')
    BY <1>4, <1>5, <1>6 DEF QcRowsMove, QcTyped
  <1>8. QcMine(m, m.id)
    BY <1>4 DEF QcMine
  <1>9. QcMade(m, v, m.id)
    BY <1>1, <1>3, <1>4, <1>5, <1>6 DEF QcMade, QcHolds, QcWaits
  <1>10. /\ QcLoose \subseteq QcLoose' /\ QcGone \subseteq QcGone' /\ m.id \notin QcLoose
         /\ status = "reserved" => m.id \in QcLoose' /\ m.id \in QcGone'
         /\ QcWaits(m) => m.id \notin QcGone
    BY <1>1, <1>3, <1>4, <1>6, <1>8, <1>9, QcVisible
  <1>11. /\ QcLooseSum <= QcLooseSum' /\ QcGoneSum <= QcGoneSum'
         /\ m.id \in QcLoose' => QcLooseSum + m.qty <= QcLooseSum'
         /\ m.id \in QcGone' /\ m.id \notin QcGone => QcGoneSum + m.qty <= QcGoneSum'
         /\ {QcLooseSum, QcGoneSum, QcLooseSum', QcGoneSum'} \subseteq Nat
    BY <1>4, <1>6, <1>7, <1>10, QcGrow
  <1>12. QcCovered'
    <2>1. PICK a \in Nat, b \in Nat : a = QcLooseSum' /\ b = QcGoneSum'
      BY <1>11
    <2>2. CASE qcBroker' = qcBroker
      BY <1>4, <1>11, <2>1, <2>2, QcStaysCovered
    <2>3. CASE qcBroker' # qcBroker
      <3>1. /\ status = "reserved" /\ m.at = "send"
            /\ qcBroker' = [qcBroker EXCEPT !.free = qcBroker.free - m.qty]
        BY <1>1, <2>3
      <3>2. qcBroker.shown \in 0..QcHeld /\ qcBroker.free \in 0..QcHeld /\ QcHeld \in Nat /\ m.qty \in Nat
        BY <1>4 DEF QcTyped, QcAssumption, QcClickType
      <3>3. qcBroker'.shown = qcBroker.shown /\ qcBroker'.free = qcBroker.free - m.qty
        BY <1>4, <3>1 DEF QcTyped
      <3>4. QcLooseSum + m.qty <= a /\ QcGoneSum + m.qty <= b
        BY <1>10, <1>11, <2>1, <3>1 DEF QcWaits
      <3>5. PICK s \in Nat, f \in Nat, h \in Nat, l \in Nat, g \in Nat, q \in Nat :
                /\ s = qcBroker.shown /\ f = qcBroker.free /\ h = QcHeld /\ l = QcLooseSum /\ g = QcGoneSum /\ q = m.qty
        BY <1>11, <3>2
      <3>6. s - f <= l /\ h - f <= g /\ l + q <= a /\ g + q <= b
        BY <1>4, <3>4, <3>5 DEF QcCovered
      <3>7. \A i, j, k, n, x \in Nat : i - j <= k /\ k + x <= n => i - (j - x) <= n
        OBVIOUS
      <3>8. s - (f - q) <= a /\ h - (f - q) <= b
        BY <3>6, <3>7
      <3> QED BY <2>1, <3>3, <3>5, <3>8 DEF QcCovered
    <2> QED BY <2>2, <2>3
  <1>13. QcFine(v)'
    <2>1. m.known = FALSE
      BY <1>4 DEF QcFine, QcHolds, QcClickType
    <2> QED BY <1>3, <2>1 DEF QcFine
  <1> QED BY <1>1, <1>3, <1>4, <1>6, <1>7, <1>8, <1>9, <1>12, <1>13, QcSeenStep

\* The gate lets an order through or blocks it; an answer is noted.
LEMMA QcGateNoteStep == ASSUME QcAssumption, QcKept, NEW c \in QcClicks, QcGate(c) \/ QcNote(c) PROVE QcKept'
  <1>1. PICK m \in QcClickType : m = qcClick[c]
    BY DEF QcKept, QcTyped
  <1>2. QcHolds(m) /\ QcTyped /\ QcOwn /\ ~qcOver /\ QcFine(m)
    BY <1>1 DEF QcKept, QcGate, QcNote, QcHolds
  <1>3. UNCHANGED <<qcBroker, qcQuote, qcBucket, qcLost, qcSent, qcOver>>
    BY DEF QcGate, QcNote
  <1>4. /\ QcSends(m.id) /\ qcBroker' \in [free : 0..QcHeld, shown : 0..QcHeld] /\ qcLost' \in 0..QcLost /\ ~qcOver'
    BY <1>2, <1>3 DEF QcSends, QcOwn, QcTyped
  <1>5. CASE m.at = "gate" /\ QcGo(c, "send") /\ UNCHANGED qcRows
    <2>1. PICK v : v = [m EXCEPT !.at = "send"]
      OBVIOUS
    <2>2. /\ v \in QcClickType /\ v.at = "send" /\ v.known = m.known /\ v.quiet = m.quiet /\ v.qty = m.qty /\ v.id = m.id
      BY <2>1 DEF QcClickType, QcStages
    <2>3. qcClick' = [qcClick EXCEPT ![c] = v]
      BY <1>1, <1>5, <2>1 DEF QcGo
    <2>4. QcHolds(v) /\ QcWaits(v) /\ QcHolds(m) /\ QcWaits(m)
      BY <1>5, <2>2 DEF QcHolds, QcWaits
    <2>5. QcFine(v)
      BY <1>2, <1>5, <2>2, <2>4 DEF QcFine
    <2> QED BY <1>1, <1>3, <1>5, <2>2, <2>3, <2>4, <2>5, QcQuietStep
  <1>6. CASE m.at = "gate" /\ QcMark(m.id, "blocked") /\ QcSeen(c, [m EXCEPT !.at = "done", !.out = "blocked"])
    <2>1. "blocked" \in QcStatuses /\ "blocked" \in QcOuts /\ "blocked" # "answered" /\ m.at # "note"
      BY <1>6 DEF QcStatuses, QcOuts
    <2> QED BY <1>1, <1>2, <1>3, <1>4, <1>6, <2>1, QcMarkStep
  <1>7. CASE m.at = "note" /\ QcMark(m.id, "submitted") /\ QcSeen(c, [m EXCEPT !.at = "done", !.out = "submitted"])
    <2>1. "submitted" \in QcStatuses /\ "submitted" \in QcOuts /\ "submitted" # "answered"
      BY DEF QcStatuses, QcOuts
    <2> QED BY <1>1, <1>2, <1>3, <1>4, <1>7, <2>1, QcMarkStep
  <1> QED BY <1>1, <1>5, <1>6, <1>7 DEF QcGate, QcNote

\* An order is sent: acknowledged, refused, or without an answer.
LEMMA QcSendStep == ASSUME QcAssumption, QcKept, NEW c \in QcClicks, QcSend(c) PROVE QcKept'
  <1>1. PICK m \in QcClickType : m = qcClick[c] /\ m.at = "send"
    BY DEF QcKept, QcTyped, QcSend
  <1>2. QcHolds(m) /\ QcWaits(m) /\ QcTyped /\ QcOwn /\ ~qcOver /\ QcFine(m) /\ QcCovered
    BY <1>1 DEF QcKept, QcHolds, QcWaits
  <1>3. m.id \in DOMAIN qcRows /\ qcRows[m.id].status = "reserved" /\ qcRows[m.id].qty = m.qty /\ m.id \notin DOMAIN qcSent
    BY <1>1, <1>2 DEF QcOwn
  <1>4. qcSent' = QcWith(qcSent, m.id, 1) /\ UNCHANGED <<qcQuote, qcBucket>>
    BY <1>1, <1>3 DEF QcSend
  <1>5. QcSends(m.id)
    BY <1>2, <1>4 DEF QcSends, QcWith, QcOwn
  <1>6. qcBroker.shown \in Nat /\ qcBroker.free \in Nat /\ QcHeld \in Nat /\ m.qty \in Nat /\ qcBroker.free <= QcHeld
    BY <1>2 DEF QcTyped, QcAssumption, QcClickType
  <1>7. PICK left \in Int : left = qcBroker.free - m.qty
    BY <1>6
  <1>8. ~qcOver'
    <2>1. m.quiet => m.qty <= qcBroker.free
      BY <1>2 DEF QcFine
    <2>2. ~(m.quiet /\ left < 0)
      <3>1. \A q, f \in Nat : q <= f => ~(f - q < 0)
        OBVIOUS
      <3> QED BY <1>6, <1>7, <2>1, <3>1
    <2>3. qcOver' = (qcOver \/ (m.quiet /\ left < 0))
      BY <1>1, <1>7 DEF QcSend
    <2> QED BY <1>2, <2>2, <2>3
  <1>9. left >= 0 => left \in 0..QcHeld
    <2>1. \A q, f, h \in Nat : f <= h /\ f - q >= 0 => f - q \in 0..h
      OBVIOUS
    <2> QED BY <1>6, <1>7, <2>1
  <1>10. CASE /\ left >= 0 /\ qcBroker' = [free |-> left, shown |-> left]
              /\ QcSeen(c, [m EXCEPT !.at = "note"]) /\ UNCHANGED <<qcRows, qcLost>>
    <2>1. PICK v : v = [m EXCEPT !.at = "note"]
      OBVIOUS
    <2>2. /\ v \in QcClickType /\ v.at = "note" /\ v.known = m.known /\ v.qty = m.qty /\ v.id = m.id
          /\ QcHolds(v) /\ ~QcWaits(v)
      BY <2>1 DEF QcClickType, QcStages, QcHolds, QcWaits
    <2>3. QcSeen(c, v)
      BY <1>10, <2>1
    <2>4. QcRowsMove(m.id)
      BY <1>2, <1>10 DEF QcRowsMove, QcTyped
    <2>5. QcMine(m, m.id) /\ QcMade(m, v, m.id)
      BY <1>2, <1>3, <1>10, <2>2 DEF QcMine, QcMade
    <2>6. /\ QcLoose \subseteq QcLoose' /\ QcGone \subseteq QcGone' /\ m.id \in QcGone' /\ m.id \notin QcGone
      BY <1>1, <1>2, <1>3, <1>5, <1>10, <2>2, <2>3, <2>4, <2>5, QcVisible
    <2>7. IsFiniteSet(DOMAIN qcRows') /\ qcRows'[m.id].qty = m.qty
      BY <1>2, <1>3, <1>10 DEF QcTyped
    <2>8. QcGoneSum + m.qty <= QcGoneSum' /\ {QcLooseSum, QcGoneSum, QcLooseSum', QcGoneSum'} \subseteq Nat
      BY <1>2, <2>4, <2>6, <2>7, QcGrow
    <2>9. QcCovered'
      <3>1. PICK f \in Nat, h \in Nat, g \in Nat, q \in Nat, a \in Nat, b \in Nat :
                /\ f = qcBroker.free /\ h = QcHeld /\ g = QcGoneSum /\ q = m.qty /\ a = QcLooseSum' /\ b = QcGoneSum'
        BY <1>6, <2>8
      <3>2. h - f <= g /\ g + q <= b /\ left = f - q
        BY <1>2, <1>7, <2>8, <3>1 DEF QcCovered
      <3>3. \A x, y, k, n, z \in Nat : x - y <= k /\ k + z <= n => x - (y - z) <= n
        OBVIOUS
      <3>4. h - left <= b
        BY <3>2, <3>3
      <3>5. left - left <= a
        <4>1. left - left = 0
          OBVIOUS
        <4> QED BY <4>1
      <3>6. qcBroker'.free = left /\ qcBroker'.shown = left
        BY <1>10
      <3> QED BY <3>1, <3>4, <3>5, <3>6 DEF QcCovered
    <2>10. QcFine(v)'
      <3>1. v.known = FALSE
        BY <1>1, <1>2, <2>2 DEF QcFine, QcClickType
      <3> QED BY <2>2, <3>1 DEF QcFine
    <2>11. qcBroker' \in [free : 0..QcHeld, shown : 0..QcHeld] /\ qcLost' \in 0..QcLost
      BY <1>2, <1>9, <1>10 DEF QcTyped
    <2> QED BY <1>1, <1>4, <1>5, <1>8, <2>2, <2>3, <2>4, <2>5, <2>7, <2>9, <2>10, <2>11,
               QcSeenStep
  <1>11. CASE /\ QcMark(m.id, "rejected") /\ QcSeen(c, [m EXCEPT !.at = "done", !.out = "rejected"])
              /\ UNCHANGED <<qcBroker, qcLost>>
    <2>1. "rejected" \in QcStatuses /\ "rejected" \in QcOuts /\ "rejected" # "answered" /\ m.at # "note"
      BY <1>1 DEF QcStatuses, QcOuts
    <2>2. qcBroker' \in [free : 0..QcHeld, shown : 0..QcHeld] /\ qcLost' \in 0..QcLost
      BY <1>2, <1>11 DEF QcTyped
    <2> QED BY <1>1, <1>2, <1>4, <1>5, <1>8, <1>11, <2>1, <2>2, QcMarkStep
  <1>12. CASE /\ qcLost < QcLost /\ qcLost' = qcLost + 1
              /\ QcMark(m.id, QcUnanswered) /\ QcSeen(c, [m EXCEPT !.at = "done", !.out = "unknown"])
              /\ qcBroker' \in {qcBroker} \union (IF left >= 0 THEN {[qcBroker EXCEPT !.free = left]} ELSE {})
    <2>1. "reserved" \in QcStatuses /\ "unknown" \in QcOuts /\ "unknown" # "answered" /\ m.at # "note" /\ QcUnanswered = "reserved"
      BY <1>1 DEF QcStatuses, QcOuts, QcUnanswered
    <2>2. qcLost' \in 0..QcLost
      <3>1. qcLost \in 0..QcLost /\ QcLost \in Nat
        BY <1>2 DEF QcTyped, QcAssumption
      <3> QED BY <1>12, <3>1
    <2>3. qcBroker' = qcBroker \/ (left >= 0 /\ qcBroker' = [qcBroker EXCEPT !.free = left])
      BY <1>12
    <2>4. qcBroker' \in [free : 0..QcHeld, shown : 0..QcHeld]
      BY <1>2, <1>9, <2>3 DEF QcTyped
    <2>5. qcBroker' = qcBroker \/ qcBroker' = [qcBroker EXCEPT !.free = qcBroker.free - m.qty]
      BY <1>7, <2>3
    <2> QED BY <1>1, <1>2, <1>4, <1>5, <1>8, <1>12, <2>1, <2>2, <2>4, <2>5, QcMarkStep
  <1> QED BY <1>1, <1>7, <1>10, <1>11, <1>12 DEF QcSend

\* The broker's figure catches up; prices and time move on.
LEMMA QcWorldStep == ASSUME QcAssumption, QcKept, QcReflect \/ QcMoves PROVE QcKept'
  <1>1. UNCHANGED <<qcLost, qcRows, qcClick, qcSent, qcOver>> /\ qcBroker'.free = qcBroker.free /\ QcTyped
    BY DEF QcReflect, QcMoves, QcKept, QcTyped
  <1>2. QcLooseSum' = QcLooseSum /\ QcGoneSum' = QcGoneSum
    BY <1>1 DEF QcLooseSum, QcGoneSum, QcLoose, QcGone, QcQty
  <1>3. qcBroker.free \in Nat /\ QcLooseSum \in Nat
    BY <1>1, QcSumsAre DEF QcTyped, QcAssumption
  <1>4. QcCovered'
    <2>1. CASE QcReflect
      <3>1. qcBroker'.shown = qcBroker.free
        BY <1>1, <2>1 DEF QcReflect, QcTyped
      <3>2. \A f, l \in Nat : f - f <= l
        OBVIOUS
      <3> QED BY <1>1, <1>2, <1>3, <3>1, <3>2 DEF QcCovered, QcKept
    <2>2. CASE QcMoves
      BY <1>2, <2>2 DEF QcMoves, QcCovered, QcKept
    <2> QED BY <2>1, <2>2
  <1>5. QcTyped'
    <2>1. CASE QcReflect
      <3>1. qcBroker' \in [free : 0..QcHeld, shown : 0..QcHeld]
        BY <1>1, <2>1 DEF QcReflect, QcTyped
      <3> QED BY <1>1, <2>1, <3>1 DEF QcReflect, QcTyped
    <2>2. CASE QcMoves
      <3>1. qcQuote' \in Nat /\ qcBucket' \in Nat
        BY <1>1, <2>2 DEF QcMoves, QcTyped
      <3> QED BY <1>1, <2>2, <3>1 DEF QcMoves, QcTyped
    <2> QED BY <2>1, <2>2
  <1>6. QcOwn'
    BY <1>1 DEF QcKept, QcOwn
  <1>7. \A d \in QcClicks : QcFine(qcClick[d])'
    BY <1>1, <1>2 DEF QcKept, QcFine
  <1> QED BY <1>1, <1>4, <1>5, <1>6, <1>7 DEF QcKept

\* At first there is nothing to keep.
LEMMA QcInitKept == ASSUME QcAssumption, QcInit PROVE QcKept
  <1>1. /\ DOMAIN qcRows = {} /\ DOMAIN qcSent = {} /\ qcQuote = 1 /\ qcBucket = 1 /\ qcLost = 0 /\ ~qcOver
        /\ qcBroker = [free |-> QcHeld, shown |-> QcHeld] /\ qcClick = [c \in QcClicks |-> QcIdle]
    BY DEF QcInit
  <1>2. QcHeld \in Nat /\ QcLost \in Nat
    BY DEF QcAssumption
  <1>3. QcIdle \in QcClickType
    <2>1. 0 \in Nat /\ 0 \in Int /\ QcNoName \in QcNames \union {QcNoName} /\ "" \in QcOuts /\ "idle" \in QcStages /\ <<>> \in QcIds
      BY DEF QcStages, QcOuts, QcIds
    <2> QED BY <2>1 DEF QcIdle, QcClickType, QcAll
  <1>4. QcTyped
    <2>1. IsFiniteSet(DOMAIN qcRows)
      BY <1>1, FS_EmptySet
    <2>2. qcBroker \in [free : 0..QcHeld, shown : 0..QcHeld] /\ qcLost \in 0..QcLost /\ qcQuote \in Nat /\ qcBucket \in Nat
      BY <1>1, <1>2
    <2> QED BY <1>1, <1>3, <2>1, <2>2 DEF QcTyped
  <1>5. QcIdle.at = "idle" /\ QcIdle.quiet = FALSE
    BY DEF QcIdle
  <1>6. \A c \in QcClicks : ~QcHolds(qcClick[c]) /\ ~QcWaits(qcClick[c]) /\ qcClick[c].at = "idle"
    BY <1>1, <1>5 DEF QcHolds, QcWaits
  <1>7. QcOwn
    BY <1>1, <1>6 DEF QcOwn
  <1>8. QcCovered
    <2>1. QcLooseSum \in Nat /\ QcGoneSum \in Nat
      BY <1>4, QcSumsAre
    <2>2. \A h, l \in Nat : h - h <= l
      OBVIOUS
    <2> QED BY <1>1, <1>2, <2>1, <2>2 DEF QcCovered
  <1>9. \A c \in QcClicks : QcFine(qcClick[c])
    BY <1>6 DEF QcFine
  <1> QED BY <1>1, <1>4, <1>7, <1>8, <1>9 DEF QcKept

\* No step loses it.
LEMMA QcKeptStep == ASSUME QcAssumption, QcKept, [QcNext]_qcVars PROVE QcKept'
  <1>1. CASE QcNext
    <2>1. CASE \E c \in QcClicks : QcRequest(c) \/ QcLook(c) \/ QcPriced(c) \/ QcCheck(c)
      BY <2>1, QcRequestStep, QcLookStep, QcPricedStep, QcCheckStep
    <2>2. CASE \E c \in QcClicks : QcReserve(c) \/ QcGate(c) \/ QcSend(c) \/ QcNote(c)
      BY <2>2, QcReserveStep, QcGateNoteStep, QcSendStep
    <2>3. CASE QcReflect \/ QcMoves
      BY <2>3, QcWorldStep
    <2> QED BY <1>1, <2>1, <2>2, <2>3 DEF QcNext
  <1>2. CASE UNCHANGED qcVars
    BY <1>2 DEF qcVars, QcKept, QcTyped, QcOwn, QcCovered, QcFine, QcLooseSum, QcGoneSum,
       QcLoose, QcGone, QcQty
  <1> QED BY <1>1, <1>2

\* What is kept says what the run checks.
LEMMA QcMeans == ASSUME QcAssumption, QcKept PROVE QcInv
  <1>1. QcTyped /\ QcOwn /\ QcCovered /\ ~qcOver /\ \A c \in QcClicks : QcFine(qcClick[c])
    BY DEF QcKept
  <1>2. QcTypeOK
    BY <1>1 DEF QcTyped, QcTypeOK, QcRowType, QcStatuses, QcClickType, QcStages
  <1>3. QcOnRecord
    <2> DEFINE S == {k \in DOMAIN qcRows : qcRows[k].status \in {"reserved", "submitted"}}
    <2>1. IsFiniteSet(DOMAIN qcRows) /\ SumNats(QcQty, DOMAIN qcRows)
      BY <1>1 DEF QcTyped, QcQty, QcRowType, SumNats
    <2>2. QcGone \in SUBSET S /\ S \subseteq DOMAIN qcRows
      BY DEF QcGone
    <2>3. IsFiniteSet(S) /\ SumNats(QcQty, S)
      BY <2>1, <2>2, FS_Subset DEF SumNats
    <2> HIDE DEF S
    <2>4. SumFunctionOnSet(QcQty, S) \in Nat /\ QcGoneSum \in Nat /\ QcGoneSum <= SumFunctionOnSet(QcQty, S)
      BY <2>2, <2>3, SumMore DEF QcGoneSum
    <2>5. qcBroker.free \in Nat /\ QcHeld \in Nat
      BY <1>1 DEF QcTyped, QcAssumption
    <2>6. PICK f \in Nat, h \in Nat, g \in Nat, s \in Nat : f = qcBroker.free /\ h = QcHeld /\ g = QcGoneSum /\ s = SumFunctionOnSet(QcQty, S)
      BY <2>4, <2>5
    <2>7. h - f <= g /\ g <= s
      BY <1>1, <2>4, <2>6 DEF QcCovered
    <2>8. \A x, y, k, n \in Nat : x - y <= k /\ k <= n => x - y <= n
      OBVIOUS
    <2>9. h - f <= s
      BY <2>7, <2>8
    <2> QED BY <2>6, <2>9 DEF QcOnRecord, S
  <1>4. QcSentOnce
    BY <1>1 DEF QcOwn, QcSentOnce
  <1>5. QcRetryAnswered
    BY <1>1 DEF QcRetryAnswered, QcFine
  <1> QED BY <1>1, <1>2, <1>3, <1>4, <1>5 DEF QcInv, QcNoOverAsk

\* Closing by hand keeps what it promises.
LEMMA QcInvariant == QcInit /\ [][QcNext]_qcVars => []QcInv
  <1>1. QcInit => QcKept
    BY QcAssumption, QcInitKept
  <1>2. QcKept /\ [QcNext]_qcVars => QcKept'
    BY QcAssumption, QcKeptStep
  <1>3. QcKept => QcInv
    BY QcAssumption, QcMeans
  <1> QED BY <1>1, <1>2, <1>3, PTL

-----------------------------------------------------------------------------
(* The parts side by side.                                                    *)

\* Orders pass in a market's sessions only, who is turned away is told the next one,
\* and the strategies hear of an opening once and not again: of all behaviours.
THEOREM MarketHolds == RecordSpec => []MarketInv
  <1>1. RecordSpec => (ClInit /\ [][ClNext]_clVars) /\ (SoInit /\ [][SoNext]_soVars)
    BY InitOfEach, StepOfEach, PTL DEF RecordSpec
  <1>2. ClInv /\ SoInv => MarketInv
    BY DEF MarketInv
  <1> QED BY <1>1, <1>2, ClInvariant, SoInvariant, PTL

\* One order, one request, and every caller told what became of it; one token; sends
\* kept apart; books that balance; and a position closed by hand but once: of all
\* behaviours.
THEOREM BrokerHolds == RecordSpec => []BrokerInv
  <1>1. RecordSpec => /\ KcInit /\ [][KcNext]_kcVars
                      /\ TkInit /\ [][TkNext]_tkVars /\ LmInit /\ [][LmNext]_lmVars /\ FxInit /\ [][FxNext]_fxVars
                      /\ PbInit /\ [][PbNext]_pbVars /\ QcInit /\ [][QcNext]_qcVars
    BY InitOfEach, StepOfEach, PTL DEF RecordSpec
  <1>2. TkInit => TkAll
    BY ShAssumption, TkStart
  <1>3. TkAll /\ [TkNext]_tkVars => TkAll'
    BY ShAssumption, TkStep
  <1>4. LmInit /\ FxInit => LmAll /\ FxAll
    BY ShAssumption, LmFxStart
  <1>5. LmAll /\ [LmNext]_lmVars => LmAll'
    BY LmStep
  <1>6. FxAll /\ [FxNext]_fxVars => FxAll'
    BY ShAssumption, FxStep
  <1>7. TkAll /\ LmAll /\ FxAll => ShInv
    BY ShAssumption, ShMeans DEF ShAll
  <1>8. KcInv /\ ShInv /\ PbInv /\ QcInv => BrokerInv
    BY DEF BrokerInv
  <1> QED BY <1>1, <1>2, <1>3, <1>4, <1>5, <1>6, <1>7, <1>8, KcInvariant, PbInvariant,
             QcInvariant, PTL

\* What the limits are measured by is what was lost, a halt outlives what forgets it,
\* and a release excuses what it was given for and no more: over any number of days,
\* fills, releases, restarts and failed writes.
THEOREM LossHolds == RecordSpec => []LossInv
  <1>1. RecordSpec => LwInit /\ [][LwNext]_lwVars
    BY InitOfEach, StepOfEach, PTL DEF RecordSpec
  <1>2. LwInv => LossInv
    BY DEF LossInv
  <1> QED BY <1>1, <1>2, LwInvariant, PTL
=============================================================================
