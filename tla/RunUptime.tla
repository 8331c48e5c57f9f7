------------------------------ MODULE RunUptime ------------------------------
(***************************************************************************)
(* The record of when a run was actually running, and the four-week gate     *)
(* that counts it before real money is traded.                               *)
(*                                                                          *)
(*   backend/worker/uptime.py            UptimeRecorder                     *)
(*   backend/worker/promotion_guard.py   uptime_by_run, paper_gate_status   *)
(*   backend/worker/runner.py            WorkerSession._run                 *)
(*                                                                          *)
(* One run.  Time is counted in beat intervals; the run's row starts at 0.   *)
(***************************************************************************)
EXTENDS Naturals, Sequences, FiniteSets

CONSTANTS
    UpGrace,        \* UPTIME_GRACE in beat intervals
    UpNeeded,       \* PAPER_RUN_MIN in beat intervals
    UpMaxTime,      \* bound: the clock
    UpMaxRows,      \* bound: rows of run_uptime
    UpMaxBreaks,    \* bound: stops, freezes and ends of the process
    UpMaxFaults     \* bound: writes that fail

ASSUME UpAssumption ==
    UpGrace \in Nat \ {0} /\ UpNeeded \in Nat /\ UpMaxTime \in Nat /\ UpMaxRows \in Nat
    /\ UpMaxBreaks \in Nat /\ UpMaxFaults \in Nat

VARIABLES
    upNow,      \* the clock
    upRun,      \* the run: its process, its row
    upRec,      \* the recorder of the session
    upRows,     \* run_uptime
    upRan,      \* how long the run has really been running
    upCount     \* breaks, failed writes, and whether a beat was late

upVars == <<upNow, upRun, upRec, upRows, upRan, upCount>>

UpNone == UpMaxTime + 1

\* row 0: none yet.  loop and writer: the two threads of a recorder.
UpNoRec == [exists |-> FALSE, row |-> 0, ok |-> UpNone, stop |-> FALSE, endAt |-> UpNone,
            holder |-> "none", at |-> 0, loop |-> "lock", writer |-> "none"]

UpInit ==
    /\ upNow = 0
    /\ upRun = [state |-> "down", active |-> TRUE, stopped |-> UpNone]
    /\ upRec = UpNoRec
    /\ upRows = <<>>
    /\ upRan = 0
    /\ upCount = [breaks |-> 0, faults |-> 0, late |-> FALSE]

UpBreak == upCount.breaks < UpMaxBreaks /\ upCount' = [upCount EXCEPT !.breaks = @ + 1]

UpLive == upRec.exists /\ upRun.state # "frozen"

\* A thread of the recorder that could take the free lock does so long before
\* an interval is over; the database may take any time.
UpLockWanted == UpLive /\ upRec.holder = "none" /\ (upRec.loop = "lock" \/ upRec.writer = "lock")

\* Time passes; a beat is late when more than the grace lies behind it.
UpTick ==
    /\ upNow < UpMaxTime
    /\ ~UpLockWanted
    /\ upNow' = upNow + 1
    /\ upRan' = upRan + IF upRun.state = "on" THEN 1 ELSE 0
    /\ upCount' = [upCount EXCEPT !.late = @ \/ (upRun.state = "on" /\
                      (upRec.ok = UpNone \/ upNow + 1 > upRec.ok + UpGrace))]
    /\ UNCHANGED <<upRun, upRec, upRows>>

\* strategy.start() returned, in a worker whose recovery succeeded: the
\* session records from here, with a recorder of its own.
UpStart ==
    /\ upRun.state = "down"
    /\ upRun.active
    /\ upRun' = [upRun EXCEPT !.state = "on"]
    /\ upRec' = [UpNoRec EXCEPT !.exists = TRUE]
    /\ UNCHANGED <<upNow, upRows, upRan, upCount>>

\* The loop wakes for a beat unless it is told to stop.
UpWake ==
    /\ UpLive
    /\ upRec.loop = "wait"
    /\ ~upRec.stop
    /\ upRec.ok < upNow
    /\ upRec' = [upRec EXCEPT !.loop = "lock"]
    /\ UNCHANGED <<upNow, upRun, upRows, upRan, upCount>>

\* The lock is taken, and only then the time of a beat; the end has its own.
UpTake ==
    /\ UpLive
    /\ upRec.holder = "none"
    /\ \/ upRec.loop = "lock" /\ upRec' = [upRec EXCEPT !.holder = "loop", !.at = upNow]
       \/ upRec.writer = "lock" /\ upRec' = [upRec EXCEPT !.holder = "writer", !.at = upRec.endAt]
    /\ UNCHANGED <<upNow, upRun, upRows, upRan, upCount>>

\* A recorder that stretches its row over any gap.
UpContinuesAlways == upRec.row # 0

\* The row goes on if its last written beat is within the grace.
UpContinues == upRec.row # 0 /\ upRec.at <= upRec.ok + UpGrace

\* beat: one commit, or a failure that is only logged.
UpWrite ==
    LET me == upRec.holder
        end == IF me = "writer" THEN upRec.at ELSE UpNone
        done == [upRec EXCEPT !.holder = "none",
                    !.loop = IF me = "loop" THEN "wait" ELSE @,
                    !.writer = IF me = "writer" THEN "done" ELSE @]
    IN
    /\ UpLive
    /\ me # "none"
    /\ \/ /\ UpContinues
          /\ upRows' = [upRows EXCEPT ![upRec.row].last = upRec.at,
                                      ![upRec.row].ended = IF me = "writer" THEN end ELSE @]
          /\ upRec' = [done EXCEPT !.ok = upRec.at]
          /\ UNCHANGED upCount
       \/ /\ ~UpContinues
          /\ Len(upRows) < UpMaxRows
          /\ upRows' = Append(upRows, [boot |-> upRec.at, last |-> upRec.at, ended |-> end])
          /\ upRec' = [done EXCEPT !.ok = upRec.at, !.row = Len(upRows) + 1]
          /\ UNCHANGED upCount
       \/ /\ upCount.faults < UpMaxFaults
          /\ upCount' = [upCount EXCEPT !.faults = @ + 1]
          /\ upRec' = done
          /\ UNCHANGED upRows
    /\ UNCHANGED <<upNow, upRun, upRan>>

\* The session's loop ends: the time is taken now, the write may come later.
\* At an operator's stop the row is switched off before anything else; in a
\* deploy it stays on.
UpStop ==
    /\ upRun.state = "on"
    /\ UpBreak
    /\ \E keep \in BOOLEAN : upRun' = [upRun EXCEPT !.state = "ending", !.active = keep]
    /\ upRec' = [upRec EXCEPT !.stop = TRUE, !.endAt = upNow, !.writer = "lock"]
    /\ UNCHANGED <<upNow, upRows, upRan>>

\* stopped_at is written when the session is through with its cleanup.
UpStopped ==
    /\ upRun.state = "ending"
    /\ ~upRun.active
    /\ upRun.stopped = UpNone
    /\ upRun' = [upRun EXCEPT !.stopped = upNow]
    /\ UNCHANGED <<upNow, upRec, upRows, upRan, upCount>>

\* The process dies, or the container is frozen and thawed.
UpDie ==
    /\ upRun.state # "down"
    /\ UpBreak
    /\ upRun' = [upRun EXCEPT !.state = "down"]
    /\ upRec' = UpNoRec
    /\ UNCHANGED <<upNow, upRows, upRan>>

UpFreeze ==
    /\ upRun.state = "on"
    /\ UpBreak
    /\ upRun' = [upRun EXCEPT !.state = "frozen"]
    /\ UNCHANGED <<upNow, upRec, upRows, upRan>>

UpThaw ==
    /\ upRun.state = "frozen"
    /\ upRun' = [upRun EXCEPT !.state = "on"]
    /\ UNCHANGED <<upNow, upRec, upRows, upRan, upCount>>

UpNext ==
    \/ UpTick \/ UpStart \/ UpWake \/ UpTake \/ UpWrite
    \/ UpStop \/ UpStopped \/ UpDie \/ UpFreeze \/ UpThaw

UpSpec == UpInit /\ [][UpNext]_upVars

(***************************************************************************)
(* The gate.                                                                *)
(***************************************************************************)

\* A row that counts no further than its last beat.
UpRowEndBare(row) == IF row.ended # UpNone THEN row.ended ELSE row.last

\* A row ends where its session ended, or a grace after its last beat.
UpRowEnd(row) ==
    IF row.ended # UpNone THEN row.ended
    ELSE IF row.last + UpGrace < upNow THEN row.last + UpGrace ELSE upNow

\* run_window: from the start to the recorded end or to now.
UpWindowEnd == IF upRun.stopped # UpNone THEN upRun.stopped ELSE upNow

\* covered_time: an interval counts once however many rows cover it.
UpCounted ==
    Cardinality({x \in 0..UpMaxTime : x < UpWindowEnd /\
        \E i \in 1..Len(upRows) : upRows[i].boot <= x /\ x < UpRowEnd(upRows[i])})

\* A gate that looks at the calendar, not at the record.
UpQualifiesByAge == UpWindowEnd >= UpNeeded

\* paper_run_qualifies, of a paper run that had a fill: not one whose stop was
\* asked for but not recorded.
UpQualifies ==
    /\ upRun.stopped # UpNone \/ upRun.active
    /\ UpCounted >= UpNeeded

(***************************************************************************)
(* Properties.                                                              *)
(***************************************************************************)

\* The state stays what the code can hold.
UpTypeOK ==
    /\ upNow \in 0..UpMaxTime
    /\ upRun \in [state : {"down", "on", "ending", "frozen"}, active : BOOLEAN, stopped : 0..UpNone]
    /\ upRec \in [exists : BOOLEAN, row : 0..Len(upRows), ok : 0..UpNone, stop : BOOLEAN,
                  endAt : 0..UpNone, holder : {"none", "loop", "writer"}, at : 0..UpMaxTime,
                  loop : {"wait", "lock"}, writer : {"none", "lock", "done"}]
    /\ upRows \in Seq([boot : 0..UpMaxTime, last : 0..UpMaxTime, ended : 0..UpNone])
    /\ upRan \in 0..upNow

\* Time the run did not run is not counted, beyond one grace for each stop,
\* freeze or death, and one for a beat that gets in behind a failed write of the
\* end: whatever writes wait for the database or come late ("a beat that could
\* not be written is time not counted").
UpNotOvercounted == UpCounted <= upRan + UpGrace * (upCount.breaks + upCount.faults)

\* Time the run did run is counted when its writes work and are in time:
\* across restarts, overlapping rows and an end that is written late.
UpNotUndercounted ==
    upCount.faults = 0 /\ ~upCount.late /\ upRec.writer # "lock" /\ upRec.holder = "none" /\ upRec.ok # UpNone
        => UpCounted >= upRan

\* The gate to real money takes a paper run only for time it ran, but for the
\* grace at its interruptions; waiting, and a stop left unrecorded, earn nothing.
UpGateEarned == UpQualifies => upRan + UpGrace * (upCount.breaks + upCount.faults) >= UpNeeded

\* The uptime on record is the time the run ran, both ways, and the gate to
\* real money is earned by it.
UpInv == UpTypeOK /\ UpNotOvercounted /\ UpNotUndercounted /\ UpGateEarned
=============================================================================
