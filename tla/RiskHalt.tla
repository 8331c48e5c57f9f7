---- MODULE RiskHalt ----
(***************************************************************************)
(* The halt of a loss limit, from the fill that breaks it to the           *)
(* operator's release: the loss tracker of backend/quant/risk/engine.py in *)
(* the worker's memory, the daily_risk_state rows it shares with the       *)
(* watchdog, the operator's reset and the 07:01 job, the SAFE_MODE gate in *)
(* front of every order, and the liquidation an MDD breach asks for.       *)
(*                                                                         *)
(* Money is counted in whole losses: a sell fill loses one unit and the    *)
(* equity falls with it; an equity is written as the units it is below the *)
(* first one.  The limits are shares of the peak equity, which a release   *)
(* may lower.  The weekly limit has the daily limit's shape and is left    *)
(* out.  One row transaction is one step: lock_risk_row holds the row from *)
(* its read to its commit.                                                 *)
(***************************************************************************)
EXTENDS Naturals, FiniteSets

CONSTANTS
    Fillers,        \* the threads that deliver fills
    Poll,           \* the worker's resume poll; at boot, its main thread
    Equity,         \* the account at the start, in units of loss
    LimitPct,       \* the daily loss limit, in per cent of the peak
    StepPct,        \* what a release lets the day lose before it halts again
    MddPct,         \* the drawdown that halts and liquidates
    MaxDown,        \* bound: units lost over the whole run
    MaxDays,        \* bound: risk days
    MaxReleases,    \* bound: operator releases
    MaxEvents,      \* bound: watchdog halts, failures, new days, ends of the worker
    LateMayFail,    \* whether a flatten that outlasts its halt's release can fail
    BootRelease     \* whether the operator may release while the worker boots

ASSUME ThreadAssumption == Poll \notin Fillers /\ IsFiniteSet(Fillers)
ASSUME LimitAssumption == LimitPct \in Nat /\ StepPct \in Nat /\ MddPct \in Nat
ASSUME BoundAssumption ==
    /\ MaxDown \in Nat /\ MaxDays \in Nat \ {0}
    /\ MaxReleases \in Nat /\ MaxEvents \in Nat
    /\ Equity \in Nat /\ Equity > MaxDown
ASSUME FlagAssumption ==
    LateMayFail \in BOOLEAN /\ BootRelease \in BOOLEAN

Threads == Fillers \cup {Poll}
Days == 1 .. MaxDays
Units == 0 .. MaxDown
Unknown == MaxDown + 1      \* an equity not read, a peak not recorded
Levels == Units \cup {Unknown}
NoFloor == 0
Causes == {"none", "risk", "untrusted", "record"}
Reasons == {"none", "loss", "mdd", "watchdog"}

VARIABLES
    up,         \* the worker: "down", "booting", "running" or "stopping"
    today,      \* the risk day
    down,       \* units of equity lost since the start
    mem,        \* the tracker
    rows,       \* daily_risk_state, one row per risk day
    redis,      \* risk:daily_pnl, one key per risk day
    releases,   \* kill_switch_reset audit rows: the newest id
    kept,       \* the newest risk_release_baseline audit row
    gate,       \* SAFE_MODE and whether the resume poll may reopen it
    alarm,      \* the kill-switch-alert thread has yet to close the gate
    asks,       \* flattens asked for and not yet run
    late,       \* a flatten of a halt released since is still running
    sold,       \* the last flatten asked for had a sell placed, and the tracker has
                \* taken no release since
    th,         \* where each writing thread is and what it carries
    carry,      \* the halted day the 07:01 job has read, or 0
    events      \* counter for the bound

db == <<rows, redis, releases, kept>>
flattens == <<asks, late, sold>>
vars == <<up, today, down, mem, db, gate, alarm, flattens, th, carry, events>>

Row == [made : BOOLEAN, loss : Units, base : Levels, ks : BOOLEAN, why : Reasons]
NoRow == [made |-> FALSE, loss |-> 0, base |-> Unknown, ks |-> FALSE, why |-> "none"]

\* base: the peak; cur: the equity as last read; rebase: the day of a release
\* that waits for a reading; judged: the peak the last release was judged by.
Tracker == [day : Days, loss : Units, base : Levels, cur : Levels, rebase : 0 .. MaxDays,
            judged : Levels, ks : BOOLEAN, why : Reasons, floor : Nat, asked : BOOLEAN,
            epoch : Nat, written : Nat, unwritten : BOOLEAN, seen : 0 .. MaxReleases]

FreshTracker ==
    [day |-> 1, loss |-> 0, base |-> 0, cur |-> 0, rebase |-> 0, judged |-> 0,
     ks |-> FALSE, why |-> "none", floor |-> NoFloor, asked |-> FALSE, epoch |-> 0, written |-> 0,
     unwritten |-> FALSE, seen |-> 0]

\* What _write_db copies under the tracker's lock before it opens a session.
Snapshot == [day : Days, loss : Units, base : Levels, ks : BOOLEAN, why : Reasons,
             epoch : Nat, asserting : BOOLEAN]
NoSnapshot == [day |-> 1, loss |-> 0, base |-> 0, ks |-> FALSE, why |-> "none",
               epoch |-> 0, asserting |-> FALSE]

\* round: the first or the second _write_db of a _persist; again: the poll's
\* second _persist; found: the flag the transaction read, if it adopts one.
Thread == [at : {"idle", "persist", "again", "commit", "settle", "shut", "release",
                 "note", "audit", "fresh", "reopen"},
           round : {1, 2}, again : BOOLEAN, snap : Snapshot,
           adopt : BOOLEAN, ks : BOOLEAN, why : Reasons]
IdleThread == [at |-> "idle", round |-> 1, again |-> FALSE, snap |-> NoSnapshot,
               adopt |-> FALSE, ks |-> FALSE, why |-> "none"]

TypeOK ==
    /\ up \in {"down", "booting", "running", "stopping"}
    /\ today \in Days
    /\ down \in Units
    /\ mem \in Tracker
    /\ rows \in [Days -> Row]
    /\ redis \in [Days -> Units]
    /\ releases \in 0 .. MaxReleases
    /\ kept \in [day : 0 .. MaxDays, floor : Nat, seen : 0 .. MaxReleases]
    /\ gate \in [open : BOOLEAN, cause : Causes, latched : BOOLEAN, resume : BOOLEAN]
    /\ alarm \in BOOLEAN
    /\ asks \in Nat
    /\ late \in BOOLEAN /\ sold \in BOOLEAN
    /\ th \in [Threads -> Thread]
    /\ carry \in 0 .. MaxDays
    /\ events \in 0 .. MaxEvents

Event == events < MaxEvents /\ events' = events + 1

Halted == {d \in Days : rows[d].ks}

(***************************************************************************)
(* The tracker                                                             *)
(***************************************************************************)
Rolled(m) ==
    IF m.day = today THEN m
    ELSE [m EXCEPT !.day = today, !.loss = 0, !.floor = NoFloor]

\* A share of the capital; without a peak the capital is a single won.
Share(pct, base) == IF base = Unknown THEN 0 ELSE (pct * (Equity - base)) \div 100

LossBreached(m, base) == m.loss > Share(LimitPct, base) /\ m.loss > m.floor
MddBreached(m) == m.cur # Unknown /\ m.cur > m.base + Share(MddPct, m.base)

\* _halt: a breach of a halted tracker decides nothing, unless MDD takes over.
Decides(m, why) == ~m.ks \/ (why = "mdd" /\ m.why # "mdd")
Halts(m, why) ==
    IF Decides(m, why)
    THEN [m EXCEPT !.ks = TRUE, !.why = why, !.epoch = @ + 1]
    ELSE m

\* _set_release_baseline of a release that is not taken as accepting anything.
AcceptedNothing(m) == [m EXCEPT !.unwritten = TRUE]

\* _rebase_mdd_if_breached.
Rebased(m) == IF MddBreached(m) THEN [m EXCEPT !.base = m.cur] ELSE m

\* _set_release_baseline: the loss is accepted as it stands; a limit not
\* reached keeps its setting.  Only then is the peak rebased, or, without an
\* equity, the day noted for the first reading.
Accepted(m) ==
    Rebased([m EXCEPT
        !.floor = IF m.loss > Share(LimitPct, m.base)
                  THEN m.loss + Share(StepPct, m.base) ELSE NoFloor,
        !.judged = m.base,
        !.rebase = IF m.cur = Unknown THEN m.day ELSE 0,
        !.unwritten = TRUE])

\* _resolve_mdd_rebase: at a reading on the release's day; dropped on a later one.
Resolved(m) ==
    IF m.rebase = 0 \/ m.cur = Unknown THEN m
    ELSE LET n == [m EXCEPT !.rebase = 0]
         IN IF m.rebase = m.day THEN Rebased(n) ELSE n

\* A reading above the peak is the peak, the first one always.
Peaked(m) ==
    IF m.cur < m.base
    THEN [m EXCEPT !.base = m.cur, !.judged = IF m.cur < @ THEN m.cur ELSE @] ELSE m

\* A thread moves on with what it carries, or leaves its snapshot behind.
Goto(t, loc) == th' = [th EXCEPT ![t].at = loc]
Drop(t, loc) ==
    th' = [th EXCEPT ![t] =
        IF loc = "idle" THEN IdleThread
        ELSE [IdleThread EXCEPT !.at = loc, !.round = th[t].round, !.again = th[t].again]]

(***************************************************************************)
(* A sell fill: record_pnl decides under the lock and then persists.       *)
(***************************************************************************)
\* The tracker with the loss, and with the balance if it could be read.
Recorded(read) ==
    LET r == Rolled(mem)
    IN Peaked(Resolved([r EXCEPT !.loss = @ + 1, !.cur = IF read THEN down + 1 ELSE @]))

RecordLoss(t, read) ==
    /\ up = "running"
    /\ th[t].at = "idle"
    /\ down < MaxDown
    /\ down' = down + 1
    /\ read \/ mem.cur # Unknown
    /\ IF read THEN UNCHANGED events ELSE Event
    /\ LET m == Recorded(read)
           why == IF MddBreached(m) THEN "mdd"
                  ELSE IF LossBreached(m, m.base) THEN "loss" ELSE "none"
           ask == why = "mdd" /\ ~m.asked
       IN /\ mem' = [(IF why = "none" THEN m ELSE Halts(m, why))
                        EXCEPT !.asked = m.asked \/ ask]
          /\ alarm' = (alarm \/ (why # "none" /\ Decides(m, why)))
          /\ asks' = IF ask THEN asks + 1 ELSE asks
          /\ sold' = (sold /\ ~ask)
    /\ Goto(t, "persist")
    /\ UNCHANGED <<up, today, db, gate, late, carry>>

\* Without a balance, now or ever since the start, the loss is not recorded.
SkipLoss ==
    /\ up = "running"
    /\ down < MaxDown
    /\ mem.cur = Unknown
    /\ down' = down + 1
    /\ UNCHANGED <<up, today, mem, db, gate, alarm, flattens, th, carry, events>>

(***************************************************************************)
(* _persist: Redis, the row, and the release baseline if one is unwritten. *)
(***************************************************************************)
\* _write_redis, then _write_db's copy of the tracker: each reads it under the
\* lock.  Redis may be out of reach; the second _write_db goes without it.
TakeSnapshot(t) ==
    /\ th[t].at \in {"persist", "again"}
    /\ \/ /\ th[t].at = "persist"
          /\ redis' = [redis EXCEPT ![mem.day] = mem.loss]
          /\ UNCHANGED events
       \/ th[t].at = "persist" /\ Event /\ UNCHANGED redis
       \/ th[t].at = "again" /\ UNCHANGED <<redis, events>>
    /\ LET m == Rolled(mem)
       IN /\ mem' = m
          /\ th' = [th EXCEPT
                ![t].at = "commit",
                ![t].round = IF th[t].at = "again" THEN 2 ELSE 1,
                ![t].snap = [day |-> today, loss |-> m.loss, base |-> m.base,
                             ks |-> m.ks, why |-> m.why, epoch |-> m.epoch,
                             asserting |-> m.epoch # m.written]]
    /\ UNCHANGED <<up, today, down, rows, releases, kept, gate, alarm, flattens,
                   carry>>

\* Who decides the flag: issue #158 was that this process always did.
OwnAlways(s) == TRUE
Own(s) == s.asserting \/ ~rows[s.day].made

\* _apply inside the row's transaction.  A row this write creates holds
\* nobody's decision, so the memory's goes on it.
Commit(t) ==
    LET s == th[t].snap
        row == rows[s.day]
        own == Own(s)
    IN /\ th[t].at = "commit"
       /\ rows' = [rows EXCEPT ![s.day] =
             [made |-> TRUE, loss |-> s.loss, base |-> s.base,
              ks |-> IF own THEN s.ks ELSE row.ks,
              why |-> IF own THEN s.why ELSE row.why]]
       /\ th' = [th EXCEPT ![t] = [@ EXCEPT
             !.at = "settle", !.snap = [NoSnapshot EXCEPT !.epoch = s.epoch],
             !.adopt = ~own, !.ks = ~own /\ row.ks,
             !.why = IF own THEN "none" ELSE row.why]]
       /\ UNCHANGED <<up, today, down, mem, redis, releases, kept, gate, alarm, flattens, carry, events>>

Done(t) ==
    IF t # Poll \/ up = "booting" THEN "idle"
    ELSE IF th[t].again THEN "reopen" ELSE "fresh"

\* Then the release's baseline, if one waits to be written.
AfterWrite(t, m) ==
    IF th[t].round = 2 THEN "audit" ELSE IF m.unwritten THEN "release" ELSE Done(t)

\* A write that failed keeps the intent to halt and drops the intent to clear.
CommitFails(t) ==
    LET s == th[t].snap
    IN /\ th[t].at = "commit"
       /\ Event
       /\ mem' = IF ~s.ks /\ mem.epoch = s.epoch
                 THEN [mem EXCEPT !.written = s.epoch] ELSE mem
       /\ Drop(t, AfterWrite(t, mem))
       /\ UNCHANGED <<up, today, down, db, gate, alarm, flattens, carry>>

\* _settle: what the row says becomes what the tracker says; a clear is the
\* operator's release.
AdoptedHaltOnly(t) == [mem EXCEPT !.ks = mem.ks \/ th[t].ks, !.why = th[t].why]
Adopted(t) ==
    LET took == [mem EXCEPT !.ks = th[t].ks, !.why = th[t].why]
    IN IF mem.ks /\ ~th[t].ks THEN Accepted([took EXCEPT !.asked = FALSE]) ELSE took

\* A halt adopted from the row has yet to close this process's gate.
ShutsNever(t) == FALSE
Shuts(t) == th[t].ks /\ ~mem.ks

\* Nothing is settled once a newer decision was made meanwhile.
Settle(t) ==
    LET epoch == th[t].snap.epoch
        stale == mem.epoch # epoch
        adopts == ~stale /\ th[t].adopt
    IN /\ th[t].at = "settle"
       /\ mem' = IF stale THEN mem
                 ELSE IF adopts THEN Adopted(t)
                 ELSE [mem EXCEPT !.written = epoch]
       /\ IF adopts /\ mem.ks /\ ~th[t].ks
          THEN /\ asks' = 0 /\ sold' = FALSE
               /\ late' = (late \/ asks > 0)
          ELSE UNCHANGED flattens
       /\ Drop(t, IF adopts /\ Shuts(t) THEN "shut" ELSE AfterWrite(t, mem'))
       /\ UNCHANGED <<up, today, down, db, gate, alarm, carry, events>>

(***************************************************************************)
(* SAFE_MODE                                                               *)
(***************************************************************************)
\* disable: over a recorded failure a later halt may only make it stricter.
Disabled(g, cause) ==
    [g EXCEPT !.open = FALSE,
              !.cause = IF ~g.latched THEN cause
                        ELSE IF cause = "untrusted" \/ g.cause = "untrusted"
                        THEN "untrusted" ELSE "record"]

\* The thread that adopted another process's halt closes the gate itself.
ShutAdopted(t) ==
    /\ th[t].at = "shut"
    /\ gate' = Disabled(gate, "risk")
    /\ Drop(t, AfterWrite(t, mem))
    /\ UNCHANGED <<up, today, down, mem, db, alarm, flattens, carry, events>>

\* _do_kill_switch_io, on a thread of its own.
Alarm ==
    /\ alarm
    /\ alarm' = FALSE
    /\ gate' = Disabled(gate, "risk")
    /\ UNCHANGED <<up, today, down, mem, db, flattens, th, carry, events>>

\* A fill that could not be written shuts the gate until a restart.
Latch ==
    /\ up = "running"
    /\ Event
    /\ gate' = [gate EXCEPT !.open = FALSE, !.latched = TRUE,
                            !.cause = IF @ = "untrusted" THEN @ ELSE "record"]
    /\ UNCHANGED <<up, today, down, mem, db, alarm, flattens, th, carry>>

(***************************************************************************)
(* The rest of _persist, and the resume poll after it.                     *)
(***************************************************************************)
TakeRelease(t) ==
    /\ th[t].at = "release"
    /\ mem' = [mem EXCEPT !.unwritten = FALSE]
    /\ Drop(t, IF mem.unwritten THEN "note" ELSE Done(t))
    /\ UNCHANGED <<up, today, down, db, gate, alarm, flattens, carry, events>>

\* Which release this was; then the rebased peak goes on the row.
NoteRelease(t) ==
    /\ th[t].at = "note"
    /\ mem' = [mem EXCEPT !.seen = releases]
    /\ th' = [th EXCEPT ![t].at = "again", ![t].round = 2]
    /\ UNCHANGED <<up, today, down, db, gate, alarm, flattens, carry, events>>

\* The audit row restart reads; it may fail, and then nothing is kept.
Audit(t) ==
    /\ th[t].at = "audit"
    /\ \/ /\ kept' = [day |-> mem.day, floor |-> mem.floor, seen |-> mem.seen]
          /\ UNCHANGED events
       \/ /\ Event
          /\ UNCHANGED kept
    /\ Drop(t, Done(t))
    /\ UNCHANGED <<up, today, down, mem, rows, redis, releases, gate, alarm, flattens, carry>>

\* _resume_if_released, then refresh_from_db: settle with the row first.
PollBegin ==
    /\ up = "running"
    /\ th[Poll].at = "idle"
    /\ gate.resume /\ gate.cause = "risk" /\ ~gate.open
    /\ Halted = {}
    /\ th' = [th EXCEPT ![Poll].at = "persist", ![Poll].again = FALSE]
    /\ UNCHANGED <<up, today, down, mem, db, gate, alarm, flattens, carry, events>>

\* A release never seen as a cleared flag is applied from its audit row.
PollFresh ==
    /\ th[Poll].at = "fresh"
    /\ LET fresh == ~mem.ks /\ releases > mem.seen
       IN /\ mem' = IF fresh THEN Accepted(mem) ELSE mem
          /\ th' = [th EXCEPT ![Poll] = [IdleThread EXCEPT
                !.again = fresh,
                !.at = IF mem.ks THEN "idle" ELSE IF fresh THEN "persist" ELSE "reopen"]]
    /\ UNCHANGED <<up, today, down, db, gate, alarm, flattens, carry, events>>

\* if_clear(_reopen): the check and the opening are one, under the lock.
PollReopen ==
    /\ th[Poll].at = "reopen"
    /\ gate' = IF ~mem.ks /\ gate.cause = "risk" /\ ~gate.open
               THEN [gate EXCEPT !.open = TRUE, !.cause = "none"] ELSE gate
    /\ Drop(Poll, "idle")
    /\ UNCHANGED <<up, today, down, mem, db, alarm, flattens, carry, events>>

(***************************************************************************)
(* The liquidation of an MDD breach                                        *)
(***************************************************************************)
\* With the automatic flatten live: held for an incomplete reading, or without
\* one order placed, it is asked for again at the next fill.  An order refused,
\* or without an answer, counts as placed.
Flatten ==
    /\ asks > 0
    /\ asks' = asks - 1
    /\ \/ sold' = TRUE /\ UNCHANGED mem
       \/ mem' = [mem EXCEPT !.asked = FALSE] /\ UNCHANGED sold
    /\ UNCHANGED <<up, today, down, db, gate, alarm, late, th, carry, events>>

\* The release of its halt came first: a failure still asks for another one.
FlattenLate ==
    /\ late
    /\ late' \in BOOLEAN
    /\ mem' \in {mem} \cup (IF LateMayFail THEN {[mem EXCEPT !.asked = FALSE]} ELSE {})
    /\ UNCHANGED <<up, today, down, db, gate, alarm, asks, sold, th, carry, events>>

(***************************************************************************)
(* The other writers of the rows                                           *)
(***************************************************************************)
\* WorkerWatchdog, from the API process: a heartbeat is missing.
WatchdogHalt ==
    /\ Event
    /\ ~rows[today].ks
    /\ rows' = [rows EXCEPT ![today] =
          [@ EXCEPT !.made = TRUE, !.ks = TRUE, !.why = "watchdog"]]
    /\ UNCHANGED <<up, today, down, mem, redis, releases, kept, gate, alarm, flattens, th, carry>>

\* reset_kill_switch: every halted row and the audit row, in one transaction.
Release ==
    /\ Halted # {}
    /\ up = "booting" => BootRelease
    /\ releases < MaxReleases
    /\ releases' = releases + 1
    /\ rows' = [d \in Days |-> [rows[d] EXCEPT !.ks = FALSE, !.why = "none"]]
    /\ UNCHANGED <<up, today, down, mem, redis, kept, gate, alarm, flattens, th, carry,
                   events>>

\* The 07:01 job reads the newest halted day, then carries it onto today's
\* row unless it was released meanwhile.
CarryRead ==
    /\ carry = 0
    /\ Halted # {}
    /\ \E d \in Halted :
          /\ \A e \in Halted : e <= d
          /\ d < today
          /\ carry' = d
    /\ UNCHANGED <<up, today, down, mem, db, gate, alarm, flattens, th, events>>

CarryWrite ==
    /\ carry # 0
    /\ carry' = 0
    /\ rows' = IF rows[carry].ks /\ ~rows[today].ks
               THEN [rows EXCEPT ![today] =
                       [@ EXCEPT !.made = TRUE, !.ks = TRUE, !.why = rows[carry].why,
                                 !.base = IF rows[today].made THEN rows[today].base
                                            ELSE rows[carry].base]]
               ELSE rows
    /\ UNCHANGED <<up, today, down, mem, redis, releases, kept, gate, alarm, flattens, th, events>>

\* The night of a worker that is down is not counted against the bound.
NewDay ==
    /\ today < MaxDays
    /\ \/ up = "down" /\ UNCHANGED events
       \/ Event
    /\ today' = today + 1
    /\ UNCHANGED <<up, down, mem, db, gate, alarm, flattens, th, carry>>

(***************************************************************************)
(* The worker process                                                      *)
(***************************************************************************)
\* The end of the process: memory and threads are gone, sells are not.
Crash ==
    /\ \/ up \in {"booting", "running"} /\ Event
       \/ up = "stopping" /\ UNCHANGED events
    /\ up' = "down"
    /\ alarm' = FALSE
    /\ asks' = 0 /\ late' = FALSE
    /\ th' = [t \in Threads |-> IdleThread]
    /\ gate' = [open |-> FALSE, cause |-> "untrusted", latched |-> FALSE, resume |-> FALSE]
    /\ mem' = FreshTracker
    /\ UNCHANGED <<today, down, db, sold, carry>>

\* shutdown(): the fills stop, and the equity columns are written once more.
Shutdown ==
    LET m == Rolled(mem)
        row == rows[today]
        carries == ~row.made /\ m.ks
    IN /\ up = "running"
       /\ Event
       /\ up' = "stopping"
       /\ mem' = m
       /\ rows' = [rows EXCEPT ![today] =
             [made |-> TRUE, loss |-> m.loss, base |-> m.base,
              ks |-> row.ks \/ carries, why |-> IF carries THEN m.why ELSE row.why]]
       /\ UNCHANGED <<today, down, redis, releases, kept, gate, alarm, flattens, th,
                      carry>>

\* _restore_state: the worse of the two losses, the latest peak, any halted
\* row; a halt found on another day only is this process's to carry on.
Newest(S) == CHOOSE d \in S : \A e \in S : e <= d
WorseAdded(a, b) == a + b
Worse(a, b) == IF a > b THEN a ELSE b
StoredLoss == Worse(redis[today], rows[today].loss)
PeakDays == {d \in 1 .. today : rows[d].base # Unknown}

AskedForgotten == FALSE
\* A restored MDD halt was liquidated by the process that measured it.
AskedBefore == \E d \in Halted : rows[d].why = "mdd"

StoredPeak == IF PeakDays = {} THEN Unknown ELSE rows[Newest(PeakDays)].base

Restored ==
    [FreshTracker EXCEPT
        !.day = today,
        !.loss = StoredLoss,
        !.base = StoredPeak, !.judged = StoredPeak,
        !.cur = Unknown,
        !.ks = Halted # {},
        !.why = IF Halted = {} THEN "none" ELSE rows[Newest(Halted)].why,
        !.floor = IF kept.day = today THEN kept.floor ELSE NoFloor,
        !.asked = AskedBefore,
        !.epoch = IF Halted # {} /\ ~rows[today].ks THEN 1 ELSE 0,
        !.seen = kept.seen]

\* StrategyWorker.__init__: restore, apply a release nobody was up to see, read
\* the balance, which may fail, then put a first peak, a carried halt or a new
\* baseline on today's row.
Boot(read) ==
    LET r == IF releases > Restored.seen
             THEN [Accepted(Restored) EXCEPT !.seen = releases] ELSE Restored
        m == IF read THEN Peaked(Resolved([r EXCEPT !.cur = down])) ELSE r
        pending == (read /\ r.base = Unknown) \/ m.epoch # m.written \/ m.unwritten
    IN /\ up = "down"
       /\ up' = "booting"
       /\ mem' = m
       /\ th' = [th EXCEPT ![Poll].at = IF pending THEN "persist" ELSE "idle"]
       /\ UNCHANGED <<today, down, db, gate, alarm, flattens, carry, events>>

\* StartupRecovery: a halted row keeps the gate shut for a release to open;
\* a failed step leaves it untrusted until the next restart.
Recover ==
    /\ up = "booting"
    /\ th[Poll].at = "idle"
    /\ up' = "running"
    /\ \/ gate' = IF Halted # {}
                  THEN [Disabled(gate, "risk") EXCEPT !.resume = TRUE]
                  ELSE [gate EXCEPT !.open = TRUE, !.cause = "none", !.resume = TRUE]
       \/ gate' = Disabled(gate, "untrusted")
    /\ UNCHANGED <<today, down, mem, db, alarm, flattens, th, carry, events>>

(***************************************************************************)
(* Specification                                                           *)
(***************************************************************************)
\* The worker runs, recovered, on the first risk day, with nothing lost.
Init ==
    /\ up = "running"
    /\ today = 1
    /\ down = 0
    /\ mem = FreshTracker
    /\ rows = [d \in Days |-> NoRow]
    /\ redis = [d \in Days |-> 0]
    /\ releases = 0
    /\ kept = [day |-> 0, floor |-> NoFloor, seen |-> 0]
    /\ gate = [open |-> TRUE, cause |-> "none", latched |-> FALSE, resume |-> TRUE]
    /\ alarm = FALSE /\ asks = 0 /\ late = FALSE /\ sold = FALSE
    /\ th = [t \in Threads |-> IdleThread]
    /\ carry = 0
    /\ events = 0

Write(t) ==
    \/ TakeSnapshot(t) \/ Commit(t) \/ CommitFails(t) \/ Settle(t)
    \/ ShutAdopted(t) \/ TakeRelease(t) \/ NoteRelease(t) \/ Audit(t)

PollStep == PollBegin \/ Write(Poll) \/ PollFresh \/ PollReopen

Next ==
    \/ \E t \in Fillers : Write(t) \/ \E read \in BOOLEAN : RecordLoss(t, read)
    \/ PollStep \/ SkipLoss
    \/ Alarm \/ Latch \/ Flatten \/ FlattenLate
    \/ WatchdogHalt \/ Release \/ CarryRead \/ CarryWrite \/ NewDay
    \/ Crash \/ Shutdown \/ (\E read \in BOOLEAN : Boot(read)) \/ Recover

\* The scheduler runs the resume poll every minute and a transaction ends.
\* Nothing makes the operator, the watchdog, a fill or a restart come.
Fairness == WF_vars(PollStep)

Spec == Init /\ [][Next]_vars
FairSpec == Spec /\ Fairness

(***************************************************************************)
(* Properties                                                              *)
(***************************************************************************)
\* A halt the worker knows of and a row carries keeps its order gate shut, or
\* a thread is on its way to shut it (_fire_kill_switch_alert, _settle).
HaltShutsGate ==
    mem.ks /\ Halted # {} /\ gate.open /\ up = "running" =>
        alarm \/ \E t \in Threads : th[t].at = "shut"

\* No write of the worker, of a checkpoint or of the 07:01 job erases a halt
\* another process set: only the operator's release clears a row (#158).
OnlyReleased ==
    [][\A d \in Days : rows[d].ks /\ ~rows'[d].ks => releases' > releases]_vars

\* While a row stands halted for MDD and sells for it were placed, no second
\* liquidation is asked for, a restart in between included (R-CRIT-07).
NoSecondFlatten ==
    [][asks' > asks /\ sold => \A d \in Days : rows[d].why # "mdd"]_vars

\* Trading reopens only with no drawdown breached by the equity last read, and
\* with no daily loss breached by the peak the last release was judged by: its
\* baseline is in place before (_resume_if_released, P0-12).  By the peak rebased
\* after that, which is lower, the day's loss may be past the limit.
ReopenUnbreached ==
    [][~gate.open /\ gate'.open /\ up = "running"
        => ~LossBreached(Rolled(mem), mem.judged) /\ ~MddBreached(mem)]_vars

\* Once no row is halted, a worker halted for risk trades again by itself
\* (_resume_if_released; the reset's notice promises it within a minute).
ReleaseResumes ==
    (up = "running" /\ gate.resume /\ gate.cause = "risk" /\ Halted = {})
        ~> (gate.open \/ Halted # {} \/ gate.latched \/ up # "running")

\* The state is what the code can hold, and a known halt keeps the gate shut.
GateInv == TypeOK /\ HaltShutsGate
=============================================================================
