-------------------------------- MODULE LossWindow --------------------------------
(***************************************************************************)
(* How much has been lost today and this week, and how much of it an operator  *)
(* has accepted (backend/quant/risk/engine.py: LossTracker and the persistent  *)
(* tracker's restore).                                                         *)
(*                                                                             *)
(* RiskHalt has the threads that race for the halt, with the day's loss alone. *)
(* Here is one thread and the arithmetic over days: the rolling week, the      *)
(* floors of a release, and what a restart makes of the rows and of Redis.     *)
(* The capital stands still, so that the limits are amounts; the drawdown is   *)
(* in RiskHalt.                                                                *)
(***************************************************************************)
EXTENDS Integers, Sequences, FiniteSetsExt, Functions

CONSTANTS
    LwDays,         \* bound: risk days
    LwWeek,         \* WEEK_DAYS
    LwDayLimit, LwWeekLimit, LwStep,    \* the limits, and what a release lets one lose beyond
    LwFills,        \* bound: sell fills
    LwReleases,     \* bound: releases
    LwMishaps       \* bound: failed writes, failed reads and ends of the worker, together

ASSUME LwAssumption ==
    /\ {LwDays, LwWeek} \subseteq Nat \ {0}
    /\ {LwDayLimit, LwWeekLimit, LwStep, LwFills, LwReleases, LwMishaps} \subseteq Nat

VARIABLES
    lwToday,
    lwMem,          \* the tracker
    lwRun,          \* the _persist under way, and whether the tracker was halted before the fill
    lwRows,         \* daily_risk_state
    lwRedis,        \* risk:daily_pnl:<day>
    lwReleased,     \* the kill_switch_reset audit rows: their days
    lwKept,         \* the newest risk_release_baseline audit row
    lwFills,
    lwMishaps,      \* the mishaps so far, and how many of them were failures
    lwPnl,          \* history: what was made and lost, by day
    lwAccepted,     \* history: what had been made and lost when a release was last taken in, whether
                    \* the floors of that are on record, and whether a restart found them gone
    lwHalted,       \* history: a limit has halted, and no release came since
    lwCut,          \* history: the worker ended before a fill's numbers, or a halt, were written
    lwForgotten,    \* history: the worker ended when today's number was in neither store
    lwLate          \* history: a fill was written after its day was over, so its row never had it

lwVars == <<lwToday, lwMem, lwRun, lwRows, lwRedis, lwReleased, lwKept, lwFills, lwMishaps,
            lwPnl, lwAccepted, lwHalted, lwCut, lwForgotten, lwLate>>

LwAllDays == 1..LwDays
LwNothing == [d \in {} |-> 0]
LwIdle == [at |-> "idle", fill |-> FALSE, was |-> FALSE, missed |-> FALSE]
LwNoFloor == [on |-> FALSE, day |-> 0, level |-> 0]
LwNoWindow == [on |-> FALSE, day |-> 0, held |-> LwNothing]
LwMoves == {-2, 1}

LwSum(f) == SumFunction(f)
LwWith(f, d, n) == [e \in DOMAIN f \union {d} |-> IF e = d THEN n ELSE f[e]]

\* A day is in the week that ends with another one.
LwInWeekLonger(d, today) == d <= today /\ today - d <= LwWeek
LwInWeek(d, today) == d <= today /\ today - d < LwWeek

LwNewTracker ==
    [up |-> TRUE, day |-> 1, daily |-> 0, weekly |-> 0, prior |-> LwNothing, ks |-> FALSE,
     unsaved |-> FALSE, floor |-> LwNoFloor, window |-> LwNoWindow, unwritten |-> FALSE, seen |-> 0]

LwInit ==
    /\ lwToday = 1 /\ lwMem = LwNewTracker /\ lwRun = LwIdle
    /\ lwRows = [d \in LwAllDays |-> [made |-> FALSE, daily |-> 0, ks |-> FALSE]]
    /\ lwRedis = LwNothing /\ lwReleased = <<>>
    /\ lwKept = [day |-> 0, floor |-> LwNoFloor, window |-> LwNoWindow, seen |-> 0]
    /\ lwFills = 0 /\ lwMishaps = [all |-> 0, failed |-> 0]
    /\ lwPnl = [d \in LwAllDays |-> 0]
    /\ lwAccepted = [day |-> 0, pnl |-> LwNothing, kept |-> TRUE, lost |-> FALSE]
    /\ lwHalted = FALSE /\ lwCut = FALSE /\ lwForgotten = FALSE /\ lwLate = FALSE

LwMishap(n, failed) ==
    /\ lwMishaps.all + n <= LwMishaps
    /\ lwMishaps' = [all |-> lwMishaps.all + n, failed |-> lwMishaps.failed + failed]

\* What the closing day brings to the week: all the week saw that is not an earlier day's.
LwShareLost(m) == m.daily - m.daily
LwShare(m) == m.weekly - LwSum(m.prior)

\* roll_over and _roll_week
LwRolled(m) ==
    LET days == LwWith(m.prior, m.day, LwShare(m))
        prior == Restrict(days, {d \in DOMAIN days : d < lwToday /\ LwInWeek(d, lwToday)})
    IN  IF m.day = lwToday THEN m
        ELSE [m EXCEPT !.day = lwToday, !.daily = 0, !.prior = prior, !.weekly = LwSum(prior)]

\* _daily_floor_level, _weekly_floor_level: the floor of the week is what is
\* accepted and still inside it.
LwStillHeldAll(m) == LwSum(m.window.held)
LwStillHeld(m) ==
    LwSum(Restrict(m.window.held, {d \in DOMAIN m.window.held : LwInWeek(d, m.day)}))
LwPastDaily(m) == m.floor.on /\ m.floor.day = m.day => m.daily < m.floor.level
LwPastWeekly(m) ==
    m.window.on /\ LwInWeek(m.window.day, m.day) => m.weekly < LwStillHeld(m) - LwStep

LwBreached(m) ==
    \/ m.daily < -LwDayLimit /\ LwPastDaily(m)
    \/ m.weekly < -LwWeekLimit /\ LwPastWeekly(m)

\* _evaluate and _halt
LwEvaluated(m) == IF LwBreached(m) /\ ~m.ks THEN [m EXCEPT !.ks = TRUE, !.unsaved = TRUE] ELSE m

\* _set_release_baseline: only a limit that is breached now gets a floor.
LwAccept(m) ==
    [m EXCEPT !.unwritten = TRUE,
       !.floor = IF m.daily < -LwDayLimit
                 THEN [on |-> TRUE, day |-> m.day, level |-> m.daily - LwStep] ELSE LwNoFloor,
       !.window = IF m.weekly < -LwWeekLimit
                  THEN [on |-> TRUE, day |-> m.day, held |-> LwWith(m.prior, m.day, LwShare(m))]
                  ELSE LwNoWindow]

\* A sell fill: record_pnl.
LwFill(pnl) ==
    LET r == LwRolled(lwMem)
        m == LwEvaluated([r EXCEPT !.daily = @ + pnl, !.weekly = @ + pnl])
    IN  /\ lwMem.up /\ lwRun.at = "idle" /\ lwFills < LwFills
        /\ lwFills' = lwFills + 1
        /\ lwMem' = m
        /\ lwPnl' = [lwPnl EXCEPT ![lwToday] = @ + pnl]
        /\ lwHalted' = (lwHalted \/ (m.ks /\ ~lwMem.ks))
        /\ lwRun' = [lwRun EXCEPT !.at = "write", !.fill = TRUE, !.was = lwMem.ks]
        /\ UNCHANGED <<lwToday, lwRows, lwRedis, lwReleased, lwKept, lwMishaps, lwAccepted, lwCut, lwForgotten, lwLate>>

\* The resume poll of a halted tracker, once no row is halted: refresh_from_db.
LwPoll ==
    /\ lwMem.up /\ lwMem.ks /\ lwRun.at = "idle" /\ \A d \in LwAllDays : ~lwRows[d].ks
    /\ lwRun' = [lwRun EXCEPT !.at = "write", !.fill = FALSE]
    /\ UNCHANGED <<lwToday, lwMem, lwRows, lwRedis, lwReleased, lwKept, lwFills, lwMishaps, lwPnl,
                   lwAccepted, lwHalted, lwCut, lwForgotten, lwLate>>

\* Who decides the flag: a row that this write makes holds nobody's decision.
LwOwnUnsaved(m) == m.unsaved
LwOwn(m) == m.unsaved \/ ~lwRows[lwToday].made

\* _write_db: the numbers are rolled to today's, and the flag is settled.
LwTakes(m) == ~LwOwn(m) /\ m.ks /\ ~lwRows[lwToday].ks
LwSettled(m) ==
    IF LwOwn(m) THEN [m EXCEPT !.unsaved = FALSE]
    ELSE IF LwTakes(m) THEN LwAccept([m EXCEPT !.ks = FALSE])
    ELSE [m EXCEPT !.ks = lwRows[lwToday].ks]
LwRow(m) == [made |-> TRUE, daily |-> m.daily, ks |-> IF LwOwn(m) THEN m.ks ELSE lwRows[lwToday].ks]

LwWeekOf(today) == {d \in LwAllDays : d <= today /\ today - d < LwWeek}
LwTaken(day) == [day |-> day, pnl |-> Restrict(lwPnl, LwWeekOf(day)), kept |-> FALSE, lost |-> FALSE]

\* _persist: Redis, under the day the number still belongs to, then the row.
LwWrite ==
    LET m == LwRolled(lwMem)
        key == lwMem.day
    IN  /\ lwRun.at = "write"
        /\ \E failing \in SUBSET {"redis", "row"} :
              /\ LwMishap(Cardinality(failing), Cardinality(failing))
              /\ lwRedis' = IF "redis" \in failing THEN lwRedis ELSE LwWith(lwRedis, key, lwMem.daily)
              /\ lwRows' = IF "row" \in failing THEN lwRows ELSE [lwRows EXCEPT ![lwToday] = LwRow(m)]
              /\ lwMem' = IF "row" \in failing THEN m ELSE LwSettled(m)
              /\ lwRun' = [LwIdle EXCEPT !.at = IF lwMem'.unwritten THEN "note" ELSE "idle",
                               !.missed = "row" \in failing /\ ("redis" \in failing \/ key # lwToday)]
              /\ lwAccepted' = IF "row" \notin failing /\ LwTakes(m) THEN LwTaken(lwToday) ELSE lwAccepted
        /\ lwLate' = (lwLate \/ (lwRun.fill /\ key # lwToday))
        /\ UNCHANGED <<lwToday, lwReleased, lwKept, lwFills, lwPnl, lwHalted, lwCut, lwForgotten>>

\* _latest_release_id: within a week
LwLatest ==
    IF lwReleased # <<>> /\ lwToday - lwReleased[Len(lwReleased)] <= LwWeek THEN Len(lwReleased) ELSE 0

\* The release taken in is on record: its id, the row once more, and the floors.  One
\* more that comes with the row is for the next _persist.
LwNote ==
    LET m == LwRolled(lwMem)
        seen == IF LwLatest > m.seen THEN LwLatest ELSE m.seen
    IN  /\ lwRun.at = "note" /\ lwRun' = [LwIdle EXCEPT !.missed = lwRun.missed]
        /\ lwMem' = LwSettled([m EXCEPT !.unwritten = FALSE, !.seen = seen])
        /\ lwRows' = [lwRows EXCEPT ![lwToday] = LwRow(m)]
        /\ \/ /\ lwKept' = [day |-> lwMem.day, floor |-> lwMem.floor, window |-> lwMem.window, seen |-> seen]
              /\ lwAccepted' = IF LwTakes(m) THEN LwTaken(lwToday) ELSE [lwAccepted EXCEPT !.kept = TRUE]
              /\ UNCHANGED lwMishaps
           \/ /\ LwMishap(1, 1)
              /\ lwAccepted' = IF LwTakes(m) THEN LwTaken(lwToday) ELSE lwAccepted
              /\ UNCHANGED lwKept
        /\ UNCHANGED <<lwToday, lwRedis, lwReleased, lwFills, lwPnl, lwHalted, lwCut, lwForgotten, lwLate>>

\* The operator clears every halted row, and leaves an audit row.
LwRelease ==
    /\ \E d \in LwAllDays : lwRows[d].ks
    /\ Len(lwReleased) < LwReleases
    /\ lwReleased' = Append(lwReleased, lwToday)
    /\ lwRows' = [d \in LwAllDays |-> [lwRows[d] EXCEPT !.ks = FALSE]]
    /\ lwHalted' = FALSE
    /\ UNCHANGED <<lwToday, lwMem, lwRun, lwRedis, lwKept, lwFills, lwMishaps, lwPnl, lwAccepted, lwCut, lwForgotten, lwLate>>

LwNewDay ==
    /\ lwToday < LwDays /\ lwToday' = lwToday + 1
    /\ UNCHANGED <<lwMem, lwRun, lwRows, lwRedis, lwReleased, lwKept, lwFills, lwMishaps, lwPnl,
                   lwAccepted, lwHalted, lwCut, lwForgotten, lwLate>>

LwEnd ==
    /\ lwMem.up /\ LwMishap(1, 0)
    /\ lwMem' = [LwNewTracker EXCEPT !.up = FALSE]
    /\ lwRun' = LwIdle
    /\ lwCut' = (lwCut \/ lwMem.unsaved \/ (lwRun.at = "write" /\ lwRun.fill))
    /\ lwForgotten' = (lwForgotten \/ lwRun.missed \/ (lwRun.at = "write" /\ lwRun.fill))
    /\ UNCHANGED <<lwToday, lwRows, lwRedis, lwReleased, lwKept, lwFills, lwPnl, lwAccepted, lwHalted, lwLate>>

\* _restore_state: today's number is the worse one of the two stores'.
LwStoredRow == IF lwRows[lwToday].made THEN {lwRows[lwToday].daily} ELSE {0}
LwStored ==
    (IF lwRows[lwToday].made THEN {lwRows[lwToday].daily} ELSE {})
        \union (IF lwToday \in DOMAIN lwRedis THEN {lwRedis[lwToday]} ELSE {})
LwDaily == IF LwStored = {} THEN 0 ELSE Min(LwStored)

\* The week is rebuilt from the earlier rows, the halt from any row, the floors
\* from the audit row while they apply; a release nobody has taken in is taken in.
LwRestored(prior) ==
    [LwNewTracker EXCEPT !.day = lwToday, !.daily = LwDaily, !.prior = prior,
        !.weekly = LwSum(prior) + LwDaily,
        !.ks = \E d \in LwAllDays : lwRows[d].ks,
        !.unsaved = (\E d \in LwAllDays : lwRows[d].ks) /\ ~lwRows[lwToday].ks,
        !.floor = IF lwKept.day = lwToday THEN lwKept.floor ELSE LwNoFloor,
        !.window = IF LwInWeek(lwKept.day, lwToday) THEN lwKept.window ELSE LwNoWindow,
        !.seen = lwKept.seen]

\* _load_prior_days
LwPriorRows ==
    [d \in {e \in LwAllDays : e < lwToday /\ LwInWeek(e, lwToday) /\ lwRows[e].made} |-> lwRows[d].daily]

\* write_pending: a restored halt, or floors, that a row does not have yet.
LwPending(m) == m.unsaved \/ m.unwritten

LwBoot ==
    /\ ~lwMem.up
    /\ \E prior \in {LwPriorRows, LwNothing} :
          LET r == LwRestored(prior)
              new == LwLatest > r.seen
              m == IF new THEN [LwAccept(r) EXCEPT !.seen = LwLatest] ELSE r
          IN  /\ IF prior = LwPriorRows THEN UNCHANGED lwMishaps ELSE LwMishap(1, 1)
              /\ lwMem' = m
              /\ lwRun' = [LwIdle EXCEPT !.at = IF LwPending(m) THEN "write" ELSE "idle"]
              /\ lwAccepted' = IF new THEN LwTaken(lwToday) ELSE [lwAccepted EXCEPT !.lost = @ \/ ~lwAccepted.kept]
    /\ UNCHANGED <<lwToday, lwRows, lwRedis, lwReleased, lwKept, lwFills, lwPnl, lwHalted, lwCut, lwForgotten, lwLate>>

LwNext ==
    \/ \E pnl \in LwMoves : LwFill(pnl)
    \/ LwPoll \/ LwWrite \/ LwNote \/ LwRelease \/ LwNewDay \/ LwEnd \/ LwBoot

-----------------------------------------------------------------------------
LwTypeOK ==
    /\ lwToday \in LwAllDays /\ lwMem.day \in LwAllDays /\ {lwMem.daily, lwMem.weekly} \subseteq Int
    /\ DOMAIN lwMem.prior \subseteq LwAllDays /\ lwRun.at \in {"idle", "write", "note"}
    /\ lwMem.seen \in 0..LwReleases

\* What was made and lost in the week that ends with the tracker's day.
LwTrueWeek == SumFunctionOnSet(lwPnl, LwWeekOf(lwMem.day))

LwClean == lwMishaps.failed = 0 /\ ~lwCut /\ ~lwLate

\* The day's and the week's figures are the fills', over new days, days without a
\* fill, restarts and releases: no restart gives the week a fresh budget.
LwFiguresTrue == LwClean /\ lwMem.up => lwMem.daily = lwPnl[lwMem.day] /\ lwMem.weekly = LwTrueWeek

\* What was accepted of today, and of the days still in the week.
LwAcceptsDay ==
    LET day == lwMem.day IN
    /\ lwAccepted.day = day /\ lwAccepted.pnl[day] < -LwDayLimit
    /\ lwPnl[day] >= lwAccepted.pnl[day] - LwStep
LwAcceptsWeek ==
    LET still == DOMAIN lwAccepted.pnl \intersect LwWeekOf(lwMem.day) IN
    /\ lwAccepted.day \in still /\ LwSum(lwAccepted.pnl) < -LwWeekLimit
    /\ LwTrueWeek >= LwSum(Restrict(lwAccepted.pnl, still)) - LwStep

\* A fill halts exactly when it takes a limit past what the operator accepted: the
\* release holds, over restarts and days too, until another step is lost, and it
\* holds for nothing but the loss it was given for, nor when its own day has left the
\* week; unless a restart found its floors on no record, and no release to take in.
LwDecidesRight ==
    LwClean /\ ~lwAccepted.lost /\ lwRun.at = "write" /\ lwRun.fill =>
        (lwMem.ks <=> \/ lwRun.was
                      \/ lwPnl[lwMem.day] < -LwDayLimit /\ ~LwAcceptsDay
                      \/ LwTrueWeek < -LwWeekLimit /\ ~LwAcceptsWeek)

\* A halt outlasts days, days off and restarts until it is released, even when
\* writes fail, unless the worker ended before it was written at all.
LwHaltStands == lwHalted /\ lwMem.up /\ ~lwCut => lwMem.ks

\* A restart never makes the day look better than it was, if its number reached
\* one of the two stores.
LwDayNotBetter == lwMem.up /\ ~lwForgotten => lwMem.daily <= lwPnl[lwMem.day]

\* What the limits are measured by.
LwInv == LwTypeOK /\ LwFiguresTrue /\ LwDecidesRight /\ LwHaltStands /\ LwDayNotBetter
=============================================================================
